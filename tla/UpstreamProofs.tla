---------------------------- MODULE UpstreamProofs ----------------------------
(***************************************************************************)
(* Requests to upstream servers.  First the choice of the servers (module    *)
(* Upstream): the weights of the servers of a group add up to zero, a failed *)
(* server is tried once in fail_timeout, and no request ends with an error   *)
(* while there is a server left, for any number of requests and servers,     *)
(* weights and limits of failures.  Then the response of the server without  *)
(* buffering (module Unbuffered): it is passed on as a byte stream.           *)
(***************************************************************************)
EXTENDS Upstream, FiniteSetTheorems, SequenceTheorems, WellFoundedInduction, TLAPS

-----------------------------------------------------------------------------
(* Finite sets. *)

(* A nonempty set of finite sets has a smallest one. *)
LEMMA SmallestSet ==
  ASSUME NEW B, B # {}, \A T \in B : IsFiniteSet(T)
  PROVE  \E T \in B : \A U \in B : Cardinality(T) <= Cardinality(U)
<1> DEFINE N == {Cardinality(T) : T \in B}
<1>1. N \subseteq Nat /\ N # {}
  BY FS_CardinalityType
<1>2. PICK m \in N : \A k \in N : ~ (<<k, m>> \in OpToRel(<, Nat))
  BY <1>1, WFMin, NatLessThanWellFounded
<1>3. \A k \in N : m <= k
  <2> HIDE DEF N
  <2>1. \A k \in N : ~ (k < m)
    BY <1>1, <1>2 DEF OpToRel
  <2> QED BY <1>1, <2>1
<1>4. PICK T \in B : m = Cardinality(T)
  OBVIOUS
<1>5. \A U \in B : Cardinality(U) \in N
  OBVIOUS
<1> HIDE DEF N
<1> QED
  BY <1>3, <1>4, <1>5

(* Induction on the subsets of a finite set, for a set of them. *)
LEMMA SubsetInduction ==
  ASSUME NEW S, IsFiniteSet(S), NEW G, {} \in G,
         \A T \in SUBSET S : \A x \in S \ T : T \in G => T \cup {x} \in G
  PROVE  S \in G
<1> DEFINE B == {T \in SUBSET S : T \notin G}
<1> SUFFICES ASSUME S \notin G PROVE FALSE
  OBVIOUS
<1>1. \A T \in SUBSET S : IsFiniteSet(T)
  BY FS_Subset
<1>2. PICK T \in B : \A U \in B : Cardinality(T) <= Cardinality(U)
  <2>1. B # {} /\ \A T \in B : IsFiniteSet(T)
    BY <1>1
  <2> HIDE DEF B
  <2> QED BY <2>1, SmallestSet
<1>3. T \in SUBSET S /\ T \notin G /\ IsFiniteSet(T)
  BY <1>1, <1>2
<1>4. PICK x \in T : TRUE
  BY <1>3
<1>5. Cardinality(T \ {x}) = Cardinality(T) - 1 /\ Cardinality(T) \in Nat
      /\ Cardinality(T \ {x}) \in Nat
  BY <1>3, <1>4, FS_RemoveElement, FS_CardinalityType
<1>6. T \ {x} \in SUBSET S /\ x \in S \ (T \ {x}) /\ (T \ {x}) \cup {x} = T
  BY <1>3, <1>4
<1>7. T \ {x} \in G
  <2>1. T \ {x} \notin B
    BY <1>2, <1>5
  <2> QED BY <2>1, <1>6
<1> QED
  BY <1>3, <1>6, <1>7

-----------------------------------------------------------------------------
(* Sums.  MapThenSumSet() is a recursive function on the subsets of its argument. *)

Sum(f, S) == MapThenSumSet(LAMBDA p : f[p], S)

Pick(s) == CHOOSE x \in s : TRUE

SumRound(f, g, s) == IF s = {} THEN 0 ELSE f[Pick(s)] + g[s \ {Pick(s)}]

Sums(f, g, S) == g = [s \in SUBSET S |-> SumRound(f, g, s)]

LEMMA SumIs ==
  ASSUME NEW f, NEW S
  PROVE  Sum(f, S) = (CHOOSE g : Sums(f, g, S))[S]
BY DEF Sum, Sums, SumRound, Pick, MapThenSumSet, MapThenFoldSet

(* The function on the subsets with up to k elements. *)
SumsTo(f, g, S, k) ==
  g = [s \in {t \in SUBSET S : Cardinality(t) <= k} |-> SumRound(f, g, s)]

LEMMA PickIn ==
  ASSUME NEW s, s # {}
  PROVE  Pick(s) \in s
BY DEF Pick

(* One element less. *)
LEMMA PickLess ==
  ASSUME NEW S, IsFiniteSet(S), NEW s \in SUBSET S, s # {}
  PROVE  /\ s \ {Pick(s)} \in SUBSET S
         /\ Cardinality(s) \in Nat \ {0} /\ Cardinality(s \ {Pick(s)}) = Cardinality(s) - 1
<1>1. IsFiniteSet(s)
  BY FS_Subset
<1> QED
  BY <1>1, PickIn, FS_RemoveElement, FS_CardinalityType, FS_EmptySet

LEMMA SumsToExist ==
  ASSUME NEW f, NEW S, IsFiniteSet(S)
  PROVE  \A k \in Nat : \E g : SumsTo(f, g, S, k)
<1> DEFINE B == {k \in Nat : ~ \E g : SumsTo(f, g, S, k)}
<1> SUFFICES ASSUME B # {} PROVE FALSE
  OBVIOUS
<1>1. PICK m \in B : \A k \in B : ~ (<<k, m>> \in OpToRel(<, Nat))
  BY WFMin, NatLessThanWellFounded
<1>2. m \in Nat /\ ~ \E g : SumsTo(f, g, S, m)
  BY <1>1
<1>3. \A k \in Nat : k < m => \E g : SumsTo(f, g, S, k)
  BY <1>1 DEF OpToRel
<1> HIDE DEF B
<1> DEFINE D(k) == {t \in SUBSET S : Cardinality(t) <= k}
<1>4. \A t \in SUBSET S : Cardinality(t) \in Nat /\ (Cardinality(t) = 0 <=> t = {})
  BY FS_Subset, FS_CardinalityType, FS_EmptySet
<1>5. CASE m = 0
  <2> DEFINE g == [s \in D(0) |-> 0]
  <2>1. \A s \in D(0) : s = {}
    BY <1>4
  <2>2. g = [s \in D(0) |-> SumRound(f, g, s)]
    BY <2>1 DEF SumRound
  <2> QED
    BY <2>2, <1>2, <1>5 DEF SumsTo
<1>6. CASE m # 0
  <2>1. m - 1 \in Nat /\ m - 1 < m
    BY <1>2, <1>6
  <2>2. PICK d : SumsTo(f, d, S, m - 1)
    BY <2>1, <1>3
  <2> DEFINE g == [s \in D(m) |-> SumRound(f, d, s)]
  <2>3. \A s \in D(m - 1) : d[s] = SumRound(f, d, s)
    BY <2>2 DEF SumsTo
  <2>4. ASSUME NEW s \in D(m) PROVE g[s] = SumRound(f, g, s)
    <3>1. g[s] = SumRound(f, d, s)
      OBVIOUS
    <3>2. CASE s = {}
      BY <3>1, <3>2 DEF SumRound
    <3>3. CASE s # {}
      <4> DEFINE t == s \ {Pick(s)}
      <4>1. t \in SUBSET S /\ Cardinality(t) = Cardinality(s) - 1 /\ Cardinality(s) \in Nat \ {0}
        BY <3>3, PickLess
      <4>2. t \in D(m - 1) /\ t \in D(m)
        BY <4>1, <1>2
      <4>3. g[t] = d[t]
        BY <4>2, <2>3
      <4> HIDE DEF g
      <4> QED
        BY <3>1, <3>3, <4>3 DEF SumRound
    <3> QED
      BY <3>2, <3>3
  <2>5. g = [s \in D(m) |-> SumRound(f, g, s)]
    <3>1. DOMAIN g = D(m) /\ g = [s \in D(m) |-> g[s]]
      OBVIOUS
    <3> HIDE DEF g
    <3> QED
      BY <3>1, <2>4
  <2> HIDE DEF g
  <2> QED
    BY <2>5, <1>2 DEF SumsTo
<1> QED
  BY <1>5, <1>6

LEMMA SumsExist ==
  ASSUME NEW f, NEW S, IsFiniteSet(S)
  PROVE  \E g : Sums(f, g, S)
<1>1. Cardinality(S) \in Nat
  BY FS_CardinalityType
<1>2. PICK g : SumsTo(f, g, S, Cardinality(S))
  BY <1>1, SumsToExist
<1>3. {t \in SUBSET S : Cardinality(t) <= Cardinality(S)} = SUBSET S
  BY FS_Subset
<1> QED
  BY <1>2, <1>3 DEF SumsTo, Sums

(* What the sum of a subset is does not depend on the set. *)
LEMMA SumsAgree ==
  ASSUME NEW f, NEW S, IsFiniteSet(S), NEW T \in SUBSET S,
         NEW g, Sums(f, g, S), NEW h, Sums(f, h, T)
  PROVE  \A s \in SUBSET T : g[s] = h[s]
<1> DEFINE B == {s \in SUBSET T : g[s] # h[s]}
<1> SUFFICES ASSUME B # {} PROVE FALSE
  OBVIOUS
<1>1. IsFiniteSet(T) /\ \A s \in SUBSET T : IsFiniteSet(s)
  BY FS_Subset
<1>2. PICK s \in B : \A u \in B : Cardinality(s) <= Cardinality(u)
  <2>1. \A s \in B : IsFiniteSet(s)
    BY <1>1
  <2> HIDE DEF B
  <2> QED
    BY <2>1, SmallestSet
<1>3. s \in SUBSET T /\ s \in SUBSET S /\ g[s] # h[s]
  BY <1>2
<1>4. g[s] = SumRound(f, g, s) /\ h[s] = SumRound(f, h, s)
  BY <1>3 DEF Sums
<1>5. s # {}
  BY <1>3, <1>4 DEF SumRound
<1> DEFINE t == s \ {Pick(s)}
<1>6. t \in SUBSET T /\ Cardinality(t) = Cardinality(s) - 1 /\ Cardinality(s) \in Nat \ {0}
  BY <1>1, <1>3, <1>5, PickLess
<1>7. t \notin B
  BY <1>2, <1>6
<1>8. g[t] = h[t]
  BY <1>6, <1>7
<1> HIDE DEF B
<1> QED
  BY <1>3, <1>4, <1>5, <1>8 DEF SumRound

(* The sum as the recursion has it. *)
LEMMA SumPick ==
  ASSUME NEW f, NEW S, IsFiniteSet(S)
  PROVE  Sum(f, S) = IF S = {} THEN 0 ELSE f[Pick(S)] + Sum(f, S \ {Pick(S)})
<1> DEFINE g == CHOOSE d : Sums(f, d, S)
<1>1. Sums(f, g, S) /\ Sum(f, S) = g[S]
  BY SumsExist, SumIs
<1> HIDE DEF g
<1>2. Sum(f, S) = SumRound(f, g, S)
  BY <1>1 DEF Sums
<1>3. CASE S # {}
  <2> DEFINE T == S \ {Pick(S)}
            h == CHOOSE d : Sums(f, d, T)
  <2>1. IsFiniteSet(T) /\ T \in SUBSET S
    BY FS_Subset
  <2>2. Sums(f, h, T) /\ Sum(f, T) = h[T]
    BY <2>1, SumsExist, SumIs
  <2> HIDE DEF T, h
  <2>3. g[T] = h[T]
    BY <1>1, <2>1, <2>2, SumsAgree
  <2> QED
    BY <1>2, <1>3, <2>2, <2>3 DEF SumRound, T
<1> QED
  BY <1>2, <1>3 DEF SumRound

LEMMA SumInt ==
  ASSUME NEW S, IsFiniteSet(S), NEW f, \A x \in S : f[x] \in Int
  PROVE  Sum(f, S) \in Int
<1> DEFINE B == {T \in SUBSET S : Sum(f, T) \notin Int}
<1> SUFFICES ASSUME B # {} PROVE FALSE
  OBVIOUS
<1>1. \A T \in SUBSET S : IsFiniteSet(T)
  BY FS_Subset
<1>2. PICK s \in B : \A u \in B : Cardinality(s) <= Cardinality(u)
  <2>1. \A s \in B : IsFiniteSet(s)
    BY <1>1
  <2> HIDE DEF B
  <2> QED
    BY <2>1, SmallestSet
<1>3. s \in SUBSET S /\ Sum(f, s) \notin Int /\ IsFiniteSet(s)
  BY <1>1, <1>2
<1>4. s # {}
  <2> SUFFICES ASSUME s = {} PROVE Sum(f, s) = 0
    BY <1>3
  <2> QED
    BY <1>3, SumPick
<1> DEFINE t == s \ {Pick(s)}
<1>5. t \in SUBSET S /\ Cardinality(t) = Cardinality(s) - 1 /\ Cardinality(s) \in Nat \ {0}
  BY <1>3, <1>4, PickLess
<1>6. t \notin B
  BY <1>2, <1>5
<1>7. Sum(f, t) \in Int
  BY <1>5, <1>6
<1>8. f[Pick(s)] \in Int
  BY <1>3, <1>4, PickIn
<1>9. Sum(f, s) = f[Pick(s)] + Sum(f, t)
  BY <1>3, <1>4, SumPick
<1> HIDE DEF B, t
<1> QED
  BY <1>3, <1>7, <1>8, <1>9

(* Any element can be taken out first. *)
LEMMA SumLess ==
  ASSUME NEW S, IsFiniteSet(S), NEW f, \A x \in S : f[x] \in Int, NEW x \in S
  PROVE  Sum(f, S) = f[x] + Sum(f, S \ {x})
<1> DEFINE B == {T \in SUBSET S : \E y \in T : Sum(f, T) # f[y] + Sum(f, T \ {y})}
<1> SUFFICES ASSUME B # {} PROVE FALSE
  OBVIOUS
<1>1. \A T \in SUBSET S : IsFiniteSet(T)
  BY FS_Subset
<1>2. PICK s \in B : \A u \in B : Cardinality(s) <= Cardinality(u)
  <2>1. \A s \in B : IsFiniteSet(s)
    BY <1>1
  <2> HIDE DEF B
  <2> QED
    BY <2>1, SmallestSet
<1>3. s \in SUBSET S /\ IsFiniteSet(s) /\ s # {}
  BY <1>1, <1>2
<1>4. PICK y \in s : Sum(f, s) # f[y] + Sum(f, s \ {y})
  BY <1>2
<1>5. \A T \in SUBSET S : Cardinality(T) < Cardinality(s) =>
        \A z \in T : Sum(f, T) = f[z] + Sum(f, T \ {z})
  <2>1. Cardinality(s) \in Nat /\ \A T \in SUBSET S : Cardinality(T) \in Nat
    BY <1>1, <1>3, FS_CardinalityType
  <2> SUFFICES ASSUME NEW T \in SUBSET S, Cardinality(T) < Cardinality(s)
               PROVE  T \notin B
    OBVIOUS
  <2> HIDE DEF B
  <2> QED
    BY <1>2, <2>1
<1> HIDE DEF B
<1> DEFINE p == Pick(s)
<1>6. p \in s /\ Sum(f, s) = f[p] + Sum(f, s \ {p})
  BY <1>3, SumPick, PickIn
<1> HIDE DEF p
<1>7. p # y
  BY <1>4, <1>6
<1>8. \A z \in s : s \ {z} \in SUBSET S /\ Cardinality(s \ {z}) < Cardinality(s)
  <2> SUFFICES ASSUME NEW z \in s
               PROVE  s \ {z} \in SUBSET S /\ Cardinality(s \ {z}) < Cardinality(s)
    OBVIOUS
  <2>1. Cardinality(s \ {z}) = Cardinality(s) - 1 /\ Cardinality(s) \in Nat
    BY <1>3, FS_RemoveElement, FS_CardinalityType
  <2> QED
    BY <1>3, <2>1
<1>9. Sum(f, s \ {p}) = f[y] + Sum(f, (s \ {p}) \ {y})
  BY <1>4, <1>5, <1>6, <1>7, <1>8
<1>10. Sum(f, s \ {y}) = f[p] + Sum(f, (s \ {y}) \ {p})
  BY <1>4, <1>5, <1>6, <1>7, <1>8
<1>11. (s \ {p}) \ {y} = (s \ {y}) \ {p}
  OBVIOUS
<1>12. Sum(f, (s \ {y}) \ {p}) \in Int /\ f[p] \in Int /\ f[y] \in Int
  <2>1. IsFiniteSet((s \ {y}) \ {p}) /\ \A z \in (s \ {y}) \ {p} : f[z] \in Int
    BY <1>3, FS_Subset
  <2>2. Sum(f, (s \ {y}) \ {p}) \in Int
    BY <2>1, SumInt
  <2> QED
    BY <1>3, <1>4, <1>6, <2>2
<1>13. PICK n \in Int : n = Sum(f, (s \ {y}) \ {p})
  BY <1>12
<1>14. Sum(f, s) = f[p] + (f[y] + n) /\ Sum(f, s \ {y}) = f[p] + n
  BY <1>6, <1>9, <1>10, <1>11, <1>13
<1>15. f[p] + (f[y] + n) = f[y] + (f[p] + n)
  BY <1>12
<1> QED
  BY <1>4, <1>14, <1>15

LEMMA SumMore ==
  ASSUME NEW S, IsFiniteSet(S), NEW f, \A y \in S : f[y] \in Int, NEW x, x \notin S,
         f[x] \in Int
  PROVE  Sum(f, S \cup {x}) = f[x] + Sum(f, S)
<1>1. IsFiniteSet(S \cup {x}) /\ (S \cup {x}) \ {x} = S
  BY FS_AddElement
<1> QED
  BY <1>1, SumLess

(* What the best candidate b pays is what the candidates C got: the sum stays. *)
LEMMA SumPaid ==
  ASSUME NEW L, IsFiniteSet(L), NEW C \in SUBSET L, NEW b \in C, NEW f, NEW e, NEW g,
         \A x \in L : f[x] \in Int, \A x \in C : e[x] \in Int,
         \A x \in L : g[x] = IF x \notin C THEN f[x]
                             ELSE f[x] + e[x] - (IF x = b THEN Sum(e, C) ELSE 0)
  PROVE  Sum(g, L) = Sum(f, L)
<1> DEFINE n == Sum(e, C)
           Paid(T) == Sum(f, T) + Sum(e, T \cap C) - (IF b \in T THEN n ELSE 0)
           G == {T \in SUBSET L : Sum(g, T) = Paid(T)}
<1>1. IsFiniteSet(C) /\ \A T \in SUBSET L : IsFiniteSet(T) /\ IsFiniteSet(T \cap C)
  BY FS_Subset
<1>2. n \in Int
  BY <1>1, SumInt
<1>3. \A x \in L : g[x] \in Int
  <2> HIDE DEF n
  <2>1. Sum(e, C) \in Int
    BY <1>2 DEF n
  <2> QED
    BY <2>1
<1>4. {} \in G
  <2>1. Sum(f, {}) = 0 /\ Sum(g, {}) = 0 /\ Sum(e, {} \cap C) = 0
    <3>1. {} \cap C = {} /\ IsFiniteSet({})
      BY FS_EmptySet
    <3> QED
      BY <3>1, SumPick
  <2> QED
    BY <2>1
<1>5. ASSUME NEW T \in SUBSET L, NEW x \in L \ T, T \in G PROVE T \cup {x} \in G
  <2>1. /\ Sum(g, T) \in Int /\ Sum(f, T) \in Int /\ Sum(e, T \cap C) \in Int
        /\ f[x] \in Int /\ g[x] \in Int
    <3>1. (\A y \in T : g[y] \in Int /\ f[y] \in Int) /\ (\A y \in T \cap C : e[y] \in Int)
      BY <1>3
    <3> QED
      BY <1>1, <1>3, <3>1, SumInt
  <2>2. Sum(g, T \cup {x}) = g[x] + Sum(g, T)
    <3>1. \A y \in T : g[y] \in Int
      BY <1>3
    <3> QED
      BY <1>1, <2>1, <3>1, SumMore
  <2>3. Sum(f, T \cup {x}) = f[x] + Sum(f, T)
    <3>1. \A y \in T : f[y] \in Int
      OBVIOUS
    <3> QED
      BY <1>1, <2>1, <3>1, SumMore
  <2>4. Sum(g, T) = Paid(T)
    BY <1>5
  <2>5. CASE x \notin C
    <3>1. (T \cup {x}) \cap C = T \cap C /\ (b \in T \cup {x} <=> b \in T) /\ g[x] = f[x]
      BY <2>5
    <3> HIDE DEF n
    <3>2. PICK k \in Int : k = IF b \in T THEN n ELSE 0
      BY <1>2
    <3>3. Paid(T) = Sum(f, T) + Sum(e, T \cap C) - k
      BY <3>2
    <3>4. Paid(T \cup {x}) = f[x] + Sum(f, T) + Sum(e, T \cap C) - k
      BY <2>3, <3>1, <3>2
    <3>5. Sum(g, T \cup {x}) = Paid(T \cup {x})
      BY <2>1, <2>2, <2>4, <3>1, <3>2, <3>3, <3>4
    <3> QED
      BY <3>5
  <2>6. CASE x \in C
    <3>1. (T \cup {x}) \cap C = (T \cap C) \cup {x} /\ x \notin T \cap C /\ e[x] \in Int
      BY <2>6
    <3>2. Sum(e, (T \cup {x}) \cap C) = e[x] + Sum(e, T \cap C)
      <4>1. \A y \in T \cap C : e[y] \in Int
        OBVIOUS
      <4> QED
        BY <1>1, <3>1, <4>1, SumMore
    <3>3. g[x] = f[x] + e[x] - (IF x = b THEN n ELSE 0)
      BY <2>6
    <3>4. b \notin T \/ x # b
      OBVIOUS
    <3>5. b \in T \cup {x} <=> b \in T \/ x = b
      OBVIOUS
    <3> HIDE DEF n
    <3>6. Sum(g, T \cup {x}) = Paid(T \cup {x})
      BY <1>2, <2>1, <2>2, <2>3, <2>4, <3>1, <3>2, <3>3, <3>4, <3>5
    <3> QED
      BY <3>6
  <2> QED
    BY <2>5, <2>6
<1>6. L \in G
  <2> HIDE DEF G
  <2> QED
    BY <1>4, <1>5, SubsetInduction
<1>7. Sum(g, L) = Sum(f, L) + Sum(e, C) - n
  <2>1. L \cap C = C /\ b \in L
    OBVIOUS
  <2> QED
    BY <1>6, <2>1
<1>8. Sum(f, L) \in Int
  BY SumInt
<1> QED
  <2> HIDE DEF n
  <2>1. Sum(e, C) = n
    BY DEF n
  <2> QED
    BY <1>2, <1>7, <1>8, <2>1

LEMMA SumSame ==
  ASSUME NEW L, IsFiniteSet(L), NEW f, NEW g, \A x \in L : f[x] \in Int /\ g[x] = f[x]
  PROVE  Sum(g, L) = Sum(f, L)
<1> DEFINE G == {T \in SUBSET L : Sum(g, T) = Sum(f, T)}
<1>1. {} \in G
  <2>1. Sum(f, {}) = 0 /\ Sum(g, {}) = 0
    BY FS_EmptySet, SumPick
  <2> QED
    BY <2>1
<1>2. ASSUME NEW T \in SUBSET L, NEW x \in L \ T, T \in G PROVE T \cup {x} \in G
  <2>1. IsFiniteSet(T) /\ (\A y \in T : f[y] \in Int) /\ (\A y \in T : g[y] \in Int)
    BY FS_Subset
  <2>2. f[x] \in Int /\ g[x] = f[x] /\ g[x] \in Int
    OBVIOUS
  <2>3. Sum(g, T \cup {x}) = g[x] + Sum(g, T)
    BY <2>1, <2>2, SumMore
  <2>4. Sum(f, T \cup {x}) = f[x] + Sum(f, T)
    BY <2>1, <2>2, SumMore
  <2>5. Sum(g, T) = Sum(f, T)
    BY <1>2
  <2> QED
    BY <2>2, <2>3, <2>4, <2>5
<1>3. L \in G
  <2> HIDE DEF G
  <2> QED
    BY <1>1, <1>2, SubsetInduction
<1> QED
  BY <1>3

-----------------------------------------------------------------------------
(* The cache of idle connections: an entry is removed. *)

LEMMA RemovedOne ==
  ASSUME NEW S, NEW s \in Seq(S), NEW i \in 1..Len(s)
  PROVE  RemoveAt(s, i) \in Seq(S) /\ Len(RemoveAt(s, i)) = Len(s) - 1
<1> DEFINE a == SubSeq(s, 1, i - 1)
           b == SubSeq(s, i + 1, Len(s))
<1>1. Len(s) \in Nat /\ \A j \in 1..Len(s) : s[j] \in S
  BY LenProperties, ElementOfSeq
<1>2. a \in Seq(S) /\ Len(a) = i - 1
  <2>1. 1 \in Int /\ i - 1 \in Int /\ \A j \in 1..i - 1 : s[j] \in S
    BY <1>1
  <2>2. /\ SubSeq(s, 1, i - 1) \in Seq(S)
        /\ Len(SubSeq(s, 1, i - 1)) = IF 1 <= i - 1 THEN i - 1 - 1 + 1 ELSE 0
    BY <2>1, SubSeqProperties
  <2> QED
    BY <2>2, <1>1
<1>3. b \in Seq(S) /\ Len(b) = Len(s) - i
  <2>1. i + 1 \in Int /\ Len(s) \in Int /\ \A j \in i + 1..Len(s) : s[j] \in S
    BY <1>1
  <2>2. /\ SubSeq(s, i + 1, Len(s)) \in Seq(S)
        /\ Len(SubSeq(s, i + 1, Len(s))) =
             IF i + 1 <= Len(s) THEN Len(s) - (i + 1) + 1 ELSE 0
    BY <2>1, SubSeqProperties
  <2> QED
    BY <2>2, <1>1
<1>4. a \o b \in Seq(S) /\ Len(a \o b) = Len(a) + Len(b)
  BY <1>2, <1>3, ConcatProperties
<1>5. RemoveAt(s, i) = a \o b
  BY DEF RemoveAt
<1> HIDE DEF a, b
<1>6. Len(a \o b) = Len(s) - 1
  BY <1>1, <1>2, <1>3, <1>4
<1> QED
  BY <1>4, <1>5, <1>6

LEMMA FrontOf ==
  ASSUME NEW S, NEW s \in Seq(S), Len(s) \in Nat \ {0}
  PROVE  Front(s) \in Seq(S) /\ Len(Front(s)) = Len(s) - 1
<1>1. PICK n \in Nat \ {0} : n = Len(s)
  OBVIOUS
<1>2. \A j \in 1..n : s[j] \in S
  BY <1>1, ElementOfSeq
<1>3. 1 \in Int /\ n - 1 \in Int /\ \A j \in 1..n - 1 : s[j] \in S
  BY <1>2
<1>4. /\ SubSeq(s, 1, n - 1) \in Seq(S)
      /\ Len(SubSeq(s, 1, n - 1)) = IF 1 <= n - 1 THEN n - 1 - 1 + 1 ELSE 0
  BY <1>3, SubSeqProperties
<1>5. Len(SubSeq(s, 1, n - 1)) = n - 1
  BY <1>1, <1>4
<1> QED
  BY <1>1, <1>4, <1>5 DEF Front

(* An entry is put in front. *)
LEMMA PutFirst ==
  ASSUME NEW S, NEW s \in Seq(S), NEW e \in S
  PROVE  <<e>> \o s \in Seq(S) /\ Len(<<e>> \o s) = Len(s) + 1
OBVIOUS

LEMMA LeastNumber ==
  ASSUME NEW I \in SUBSET Nat, I # {}
  PROVE  Min(I) \in I
<1>1. PICK m \in I : \A k \in I : ~ (<<k, m>> \in OpToRel(<, Nat))
  BY WFMin, NatLessThanWellFounded
<1>2. \A k \in I : ~ (k < m)
  BY <1>1 DEF OpToRel
<1>3. \A k \in I : m <= k
  BY <1>2
<1> QED
  BY <1>3 DEF Min

LEMMA RemovedFirst ==
  ASSUME NEW S, NEW s \in Seq(S), NEW e, Contains(s, e)
  PROVE  RemoveFirst(s, e) \in Seq(S) /\ Len(RemoveFirst(s, e)) = Len(s) - 1
<1> DEFINE I == {i \in 1..Len(s) : s[i] = e}
<1>1. I # {} /\ I \in SUBSET Nat
  BY DEF Contains
<1>2. Min(I) \in 1..Len(s)
  BY <1>1, LeastNumber
<1>3. RemoveFirst(s, e) = RemoveAt(s, Min(I))
  BY <1>1 DEF RemoveFirst, SelectInSeq
<1> HIDE DEF I
<1> QED
  BY <1>2, <1>3, RemovedOne

-----------------------------------------------------------------------------
(* The inductive invariant. *)

Places == {"idle", "get", "open"} \cup Waiting

(* The weights, the failures and the times of the servers.  A failed server was checked
   when it was asked, or later. *)
ServersOK ==
  /\ conf \in Configs
  /\ current \in [Peers -> Int]
  /\ effective \in [Peers -> Nat] /\ \A p \in Peers : effective[p] <= conf.weight[p]
  /\ fails \in [Peers -> Nat] /\ \A p \in Peers : fails[p] <= conf.maxFails[p]
  /\ checked \in [Peers -> 0..LongAgo]
  /\ probed \in [Peers -> BOOLEAN]
  /\ asked \in [Peers -> 0..LongAgo]
  /\ \A p \in Peers : checked[p] <= asked[p]
  /\ \A isBackup \in BOOLEAN : Sum(current, List(isBackup)) = 0

(* A request at a place, with the servers it has tried, its server and its tries left: it
   has more tries than servers, and with the last primary server the backup servers are
   counted. *)
Untried(isBackup, t) == List(isBackup) \ t

RequestOK(place, isBackup, t, p, n) ==
  /\ place \in Places /\ isBackup \in BOOLEAN
  /\ t \in SUBSET Peers
  /\ p \in Peers \cup {None}
  /\ n \in 0..conf.primary + conf.backup
  /\ place = "idle" => t = {} /\ ~ isBackup
  /\ place \notin {"idle", "get"} => p \in Peers
  /\ ~ Single /\ place = "get" => n >= Cardinality(Untried(isBackup, t))
  /\ ~ Single /\ place \notin {"idle", "get"} =>
       /\ n >= Cardinality(Untried(isBackup, t)) + 1
       /\ ~ isBackup /\ conf.backup > 0 => n >= 2

RequestsOK ==
  /\ running \in Requests \cup {None}
  /\ pc \in [Requests -> Places]
  /\ backup \in [Requests -> BOOLEAN]
  /\ tried \in [Requests -> SUBSET Peers]
  /\ peer \in [Requests -> Peers \cup {None}]
  /\ tries \in [Requests -> 0..conf.primary + conf.backup]
  /\ cached \in [Requests -> BOOLEAN]
  /\ gone \in [Requests -> BOOLEAN]
  /\ error \in [Requests -> BOOLEAN]
  /\ \A r \in Requests : RequestOK(pc[r], backup[r], tried[r], peer[r], tries[r])

IdleOK == idle \in Seq(Peers) /\ Len(idle) <= conf.keepalive

IInv == ServersOK /\ RequestsOK /\ IdleOK

LEMMA Numbers ==
  ASSUME NEW a \in Nat, NEW b \in Nat
  PROVE  IsFiniteSet(a + 1..a + b) /\ Cardinality(a + 1..a + b) = b
<1>1. a + 1 \in Int /\ a + b \in Int
  OBVIOUS
<1>2. /\ IsFiniteSet(a + 1..a + b)
      /\ Cardinality(a + 1..a + b) = IF a + 1 > a + b THEN 0 ELSE a + b - (a + 1) + 1
  BY ONLY <1>1, FS_Interval
<1> QED
  BY <1>2

(* The configuration of the group. *)
LEMMA Group ==
  ASSUME conf \in Configs
  PROVE  /\ conf.primary \in Nat \ {0} /\ conf.backup \in Nat /\ conf.keepalive \in Nat
         /\ \A p \in Peers : conf.weight[p] \in Nat \ {0} /\ conf.maxFails[p] \in Nat
         /\ FailTimeout \in Nat
         /\ IsFiniteSet(Peers) /\ Cardinality(Peers) = conf.primary + conf.backup
         /\ Peers \subseteq Nat
         /\ \A b \in BOOLEAN : List(b) \in SUBSET Peers
         /\ Cardinality(List(FALSE)) = conf.primary /\ Cardinality(List(TRUE)) = conf.backup
         /\ List(TRUE) \cap List(FALSE) = {}
<1>1. /\ conf.primary \in Nat \ {0} /\ conf.backup \in Nat /\ conf.keepalive \in Nat
      /\ \A p \in Peers : conf.weight[p] \in Nat \ {0} /\ conf.maxFails[p] \in Nat
      /\ FailTimeout \in Nat
  BY UpstreamAssumption DEF Peers
<1> DEFINE n == conf.primary
           m == conf.backup
<1>2. n \in Nat \ {0} /\ m \in Nat
  BY <1>1
<1>3. \A b \in BOOLEAN : List(b) \in SUBSET Peers
  BY <1>1 DEF List, Peers
<1>4. /\ IsFiniteSet(Peers) /\ Cardinality(Peers) = n + m
      /\ Peers \subseteq Nat
  <2>1. Peers = 0 + 1..0 + (n + m) /\ n + m \in Nat /\ 0 \in Nat
    BY <1>2 DEF Peers
  <2> HIDE DEF n, m
  <2> QED
    BY <2>1, Numbers
<1>5. Cardinality(List(FALSE)) = n /\ Cardinality(List(TRUE)) = m
  <2>1. List(FALSE) = 0 + 1..0 + n /\ List(TRUE) = n + 1..n + m /\ 0 \in Nat
    BY <1>1 DEF List, Peers
  <2> HIDE DEF n, m
  <2> QED
    BY <1>2, <2>1, Numbers
<1>6. List(TRUE) \cap List(FALSE) = {}
  BY DEF List
<1> QED
  BY <1>1, <1>3, <1>4, <1>5, <1>6

(* Of finitely many candidates there is a best one. *)
LEMMA BestIn ==
  ASSUME conf \in Configs, current \in [Peers -> Int], effective \in [Peers -> Nat],
         NEW C \in SUBSET Peers, C # {}
  PROVE  Best(C) \in C
<1> DEFINE w(x) == current[x] + effective[x]
           Wins(p, q) == w(p) > w(q) \/ (w(p) = w(q) /\ p <= q)
           G == {T \in SUBSET C : T # {} => \E p \in T : \A q \in T : Wins(p, q)}
<1>1. \A p \in C : w(p) \in Int /\ p \in Nat
  BY Group
<1>2. {} \in G
  OBVIOUS
<1>3. ASSUME NEW T \in SUBSET C, NEW x \in C \ T, T \in G PROVE T \cup {x} \in G
  <2> HIDE DEF w
  <2>1. CASE T = {}
    <3>1. Wins(x, x)
      BY <1>1
    <3> QED
      BY <2>1, <3>1
  <2>2. CASE T # {}
    <3>1. PICK p \in T : \A q \in T : Wins(p, q)
      BY <1>3, <2>2
    <3>2. CASE Wins(p, x)
      BY <3>1, <3>2
    <3>3. CASE ~ Wins(p, x)
      <4>1. \A q \in T : Wins(x, q)
        BY <1>1, <3>1, <3>3
      <4>2. Wins(x, x)
        BY <1>1
      <4> QED
        BY <4>1, <4>2
    <3> QED
      BY <3>2, <3>3
  <2> QED
    BY <2>1, <2>2
<1>4. C \in G
  <2>1. IsFiniteSet(C)
    BY Group, FS_Subset
  <2> HIDE DEF G
  <2> QED
    BY <1>2, <1>3, <2>1, SubsetInduction
<1>5. \E p \in C : \A q \in C : Wins(p, q)
  BY <1>4
<1> QED
  BY <1>5 DEF Best

-----------------------------------------------------------------------------
(* What happens to the servers. *)

LEMMA SameGroup ==
  ASSUME conf' = conf
  PROVE  /\ Peers' = Peers /\ (Single <=> Single') /\ \A b : List(b)' = List(b)
BY DEF Peers, Single, List

LEMMA TickServers ==
  ASSUME ServersOK, conf' = conf, checked' = Later(checked), asked' = Later(asked),
         UNCHANGED <<current, effective, probed, fails>>
  PROVE  ServersOK'
<1>1. Peers' = Peers /\ \A b : List(b)' = List(b)
  BY SameGroup
<1>2. FailTimeout \in Nat
  BY Group DEF ServersOK
<1>3. /\ checked' \in [Peers -> 0..LongAgo] /\ asked' \in [Peers -> 0..LongAgo]
      /\ \A p \in Peers : checked'[p] <= asked'[p]
  BY <1>2 DEF ServersOK, Later, LongAgo
<1> QED
  BY <1>1, <1>3 DEF ServersOK, LongAgo

LEMMA ForgetServers ==
  ASSUME ServersOK, conf' = conf, NEW ps, Forget(ps)
  PROVE  ServersOK'
<1>1. Peers' = Peers /\ \A b : List(b)' = List(b)
  BY SameGroup
<1>2. FailTimeout \in Nat /\ \A p \in Peers : conf.maxFails[p] \in Nat
  BY Group DEF ServersOK
<1>3. /\ fails' \in [Peers -> Nat] /\ \A p \in Peers : fails'[p] <= conf.maxFails[p]
      /\ checked' \in [Peers -> 0..LongAgo] /\ asked' \in [Peers -> 0..LongAgo]
      /\ \A p \in Peers : checked'[p] <= asked'[p]
  BY <1>2 DEF ServersOK, Forget, LongAgo
<1>4. probed' \in [Peers -> BOOLEAN]
  BY DEF ServersOK, Forget
<1> QED
  BY <1>1, <1>3, <1>4 DEF ServersOK, Forget, LongAgo

LEMMA SameServers ==
  ASSUME ServersOK, UNCHANGED <<conf, balance, fails>>
  PROVE  ServersOK'
<1>1. Peers' = Peers /\ \A b : List(b)' = List(b)
  BY SameGroup
<1> QED
  BY <1>1 DEF ServersOK, balance, LongAgo

LEMMA Quotient ==
  ASSUME NEW w \in Nat, NEW m \in Nat, m > 0
  PROVE  w \div m \in Nat
OBVIOUS

LEMMA FailedServers ==
  ASSUME ServersOK, conf' = conf, NEW r, peer[r] \in Peers, FreeFailed(r)
  PROVE  ServersOK'
<1> DEFINE p == peer[r]
           counts == ~ Single /\ conf.maxFails[p] > 0
<1>1. Peers' = Peers /\ \A b : List(b)' = List(b)
  BY SameGroup
<1>2. FailTimeout \in Nat /\ \A q \in Peers : conf.weight[q] \in Nat /\ conf.maxFails[q] \in Nat
  BY Group DEF ServersOK
<1>3. fails' \in [Peers -> Nat] /\ \A q \in Peers : fails'[q] <= conf.maxFails[q]
  BY <1>2 DEF ServersOK, FreeFailed
<1>4. /\ checked' \in [Peers -> 0..LongAgo] /\ asked' \in [Peers -> 0..LongAgo]
      /\ \A q \in Peers : checked'[q] <= asked'[q]
  BY <1>2 DEF ServersOK, FreeFailed, LongAgo
<1>5. probed' \in [Peers -> BOOLEAN]
  <2>1. /\ probed \in [Peers -> BOOLEAN] /\ p \in Peers
        /\ \E b \in BOOLEAN : probed' = [probed EXCEPT ![p] = b]
    BY DEF ServersOK, FreeFailed
  <2> QED
    BY <2>1
<1>6. effective' \in [Peers -> Nat] /\ \A q \in Peers : effective'[q] <= conf.weight[q]
  <2>1. CASE counts
    <3>1. PICK l \in Nat : l = conf.weight[p] \div conf.maxFails[p]
      <4>1. conf.weight[p] \in Nat /\ conf.maxFails[p] \in Nat /\ conf.maxFails[p] > 0
        BY <1>2, <2>1
      <4> QED
        BY <4>1, Quotient
    <3>2. effective' = [effective EXCEPT ![p] =
                          IF effective[p] > l THEN effective[p] - l ELSE 0]
      BY <2>1, <3>1 DEF FreeFailed
    <3>3. effective[p] \in Nat /\ effective[p] <= conf.weight[p] /\ p \in Peers
      BY DEF ServersOK
    <3>4. PICK e \in Nat : e = (IF effective[p] > l THEN effective[p] - l ELSE 0)
                           /\ e <= effective[p]
      BY <3>3
    <3>5. effective' = [effective EXCEPT ![p] = e]
      BY <3>2, <3>4
    <3>6. e <= conf.weight[p]
      BY <1>2, <3>3, <3>4
    <3> QED
      BY <3>3, <3>5, <3>6 DEF ServersOK
  <2>2. CASE ~ counts
    <3>1. effective' = [effective EXCEPT ![p] = effective[p]]
      BY <2>2 DEF FreeFailed
    <3> QED
      BY <3>1 DEF ServersOK
  <2> QED
    BY <2>1, <2>2
<1> QED
  BY <1>1, <1>3, <1>4, <1>5, <1>6 DEF ServersOK, FreeFailed, LongAgo

(* A candidate is chosen: it pays what all of them get. *)
LEMMA ChosenServers ==
  ASSUME ServersOK, conf' = conf, fails' = fails, NEW r, NEW isBackup \in BOOLEAN,
         NEW left, Candidates(r, isBackup) # {}, GetPeer(r, isBackup, left)
  PROVE  ServersOK' /\ Best(Candidates(r, isBackup)) \in Candidates(r, isBackup)
<1> DEFINE C == Candidates(r, isBackup)
           best == Best(C)
<1>1. Peers' = Peers /\ \A b : List(b)' = List(b)
  BY SameGroup
<1>2. /\ FailTimeout \in Nat
      /\ \A q \in Peers : conf.weight[q] \in Nat /\ conf.maxFails[q] \in Nat
  BY Group DEF ServersOK
<1>3. \A b \in BOOLEAN : List(b) \in SUBSET Peers /\ IsFiniteSet(List(b))
  BY Group, FS_Subset DEF ServersOK
<1>4. C \in SUBSET List(isBackup) /\ C \in SUBSET Peers /\ IsFiniteSet(C)
  <2>1. C \in SUBSET List(isBackup)
    BY DEF Candidates
  <2> HIDE DEF C
  <2> QED
    BY <1>3, <2>1, FS_Subset
<1>5. best \in C
  <2> SUFFICES Best(C) \in C
    OBVIOUS
  <2>1. C # {}
    OBVIOUS
  <2> HIDE DEF C
  <2> QED
    BY <1>4, <2>1, BestIn DEF ServersOK
<1>6. ~ Unavailable(best)
  BY <1>5 DEF Candidates
<1> HIDE DEF best
<1>7. Total(C) = Sum(effective, C)
  BY DEF Total, Sum
<1>8. /\ current' = [p \in Peers |->
                       IF p \notin C THEN current[p]
                       ELSE current[p] + effective[p] - (IF p = best THEN Total(C) ELSE 0)]
      /\ effective' = Recovered(C) /\ Check(best)
  BY DEF GetPeer, best
<1> HIDE DEF C
<1>9. Sum(effective, C) \in Int
  <2>1. \A x \in C : effective[x] \in Int
    BY <1>4 DEF ServersOK
  <2> QED
    BY <1>4, <2>1, SumInt
<1>10. current' \in [Peers -> Int]
  BY <1>7, <1>8, <1>9 DEF ServersOK
<1>11. effective' \in [Peers -> Nat] /\ \A q \in Peers : effective'[q] <= conf.weight[q]
  BY <1>2, <1>8 DEF Recovered, ServersOK
<1>12. probed' \in [Peers -> BOOLEAN]
  <2>1. probed' = [probed EXCEPT ![best] = (fails[best] > 0 /\ checked[best] > FailTimeout)
                                           \/ probed[best]]
    BY <1>8 DEF Check
  <2> QED
    BY <2>1 DEF ServersOK
<1>13. /\ checked' \in [Peers -> 0..LongAgo] /\ asked' \in [Peers -> 0..LongAgo]
       /\ \A p \in Peers : checked'[p] <= asked'[p]
  <2>1. Failed(best) => fails[best] > 0 /\ checked[best] > FailTimeout
    <3>1. fails[best] \in Nat /\ conf.maxFails[best] \in Nat /\ checked[best] \in Nat
      BY <1>2, <1>4, <1>5 DEF ServersOK
    <3> QED
      BY <1>2, <1>6, <3>1 DEF Unavailable, Failed
  <2>2. best \in Peers
    BY <1>4, <1>5
  <2>3. /\ checked' = [checked EXCEPT ![best] =
                         IF fails[best] > 0 /\ checked[best] > FailTimeout THEN 0 ELSE @]
        /\ asked' = [asked EXCEPT ![best] = IF Failed(best) THEN 0 ELSE @]
    BY <1>8 DEF Check
  <2> QED
    BY <1>2, <2>1, <2>2, <2>3 DEF ServersOK, LongAgo
<1>14. ASSUME NEW b \in BOOLEAN PROVE Sum(current', List(b)) = 0
  <2>1. Sum(current, List(b)) = 0 /\ \A x \in List(b) : current[x] \in Int
    BY <1>3 DEF ServersOK
  <2>2. CASE b = isBackup
    <3>1. \A x \in C : effective[x] \in Int
      BY <1>4 DEF ServersOK
    <3>2. \A x \in List(b) : current'[x] =
            IF x \notin C THEN current[x]
            ELSE current[x] + effective[x] - (IF x = best THEN Sum(effective, C) ELSE 0)
      BY <1>3, <1>7, <1>8
    <3>3. C \in SUBSET List(b) /\ IsFiniteSet(List(b))
      BY <1>3, <1>4, <2>2
    <3>4. Sum(current', List(b)) = Sum(current, List(b))
      <4>1. PICK f, g, L : f = current /\ g = current' /\ L = List(b)
        OBVIOUS
      <4>2. /\ IsFiniteSet(L) /\ C \in SUBSET L /\ best \in C
            /\ \A x \in L : f[x] \in Int
            /\ \A x \in C : effective[x] \in Int
            /\ \A x \in L : g[x] = IF x \notin C THEN f[x]
                                ELSE f[x] + effective[x]
                                     - (IF x = best THEN Sum(effective, C) ELSE 0)
        BY <1>5, <2>1, <3>1, <3>2, <3>3, <4>1
      <4>3. Sum(g, L) = Sum(f, L)
        BY ONLY <4>2, SumPaid
      <4> QED
        BY <4>1, <4>3
    <3> QED
      BY <2>1, <3>4
  <2>3. CASE b # isBackup
    <3>1. List(b) \cap C = {}
      <4>1. List(TRUE) \cap List(FALSE) = {}
        BY Group DEF ServersOK
      <4>2. (b = TRUE /\ isBackup = FALSE) \/ (b = FALSE /\ isBackup = TRUE)
        BY <2>3
      <4> QED
        BY <1>4, <4>1, <4>2
    <3>2. \A x \in List(b) : current[x] \in Int /\ current'[x] = current[x]
      BY <1>3, <1>8, <2>1, <3>1
    <3>3. IsFiniteSet(List(b))
      BY <1>3
    <3>4. Sum(current', List(b)) = Sum(current, List(b))
      BY ONLY <3>2, <3>3, SumSame
    <3> QED
      BY <2>1, <3>4
  <2> QED
    BY <2>2, <2>3
<1>15. ServersOK'
  BY <1>1, <1>10, <1>11, <1>12, <1>13, <1>14 DEF ServersOK, LongAgo
<1> QED
  BY <1>5, <1>15 DEF best, C

-----------------------------------------------------------------------------
(* What happens to a request. *)

(* The request r is somewhere else; the others stay where they are. *)
Moves(r, place, b, t, p, n) ==
  /\ conf' = conf
  /\ pc' = [pc EXCEPT ![r] = place] /\ backup' = [backup EXCEPT ![r] = b]
  /\ tried' = [tried EXCEPT ![r] = t] /\ peer' = [peer EXCEPT ![r] = p]
  /\ tries' = [tries EXCEPT ![r] = n] /\ running' \in Requests \cup {None}
  /\ cached' \in [Requests -> BOOLEAN] /\ gone' \in [Requests -> BOOLEAN]
  /\ error' \in [Requests -> BOOLEAN]

LEMMA OneRequest ==
  ASSUME RequestsOK, NEW r \in Requests, NEW place, NEW b, NEW t, NEW p, NEW n,
         RequestOK(place, b, t, p, n), Moves(r, place, b, t, p, n)
  PROVE  RequestsOK'
<1> USE DEF Moves
<1>1. Peers' = Peers /\ (Single' <=> Single) /\ \A l : List(l)' = List(l)
  BY SameGroup
<1>2. /\ place \in Places /\ b \in BOOLEAN /\ t \in SUBSET Peers /\ p \in Peers \cup {None}
      /\ n \in 0..conf.primary + conf.backup
  BY DEF RequestOK
<1>3. /\ pc' \in [Requests -> Places] /\ backup' \in [Requests -> BOOLEAN]
      /\ tried' \in [Requests -> SUBSET Peers] /\ peer' \in [Requests -> Peers \cup {None}]
      /\ tries' \in [Requests -> 0..conf.primary + conf.backup]
  BY <1>2 DEF RequestsOK
<1>4. ASSUME NEW q \in Requests
      PROVE  RequestOK(pc'[q], backup'[q], tried'[q], peer'[q], tries'[q])
  <2>1. CASE q = r
    <3>1. pc'[q] = place /\ backup'[q] = b /\ tried'[q] = t /\ peer'[q] = p /\ tries'[q] = n
      BY <2>1 DEF RequestsOK
    <3> QED
      BY <3>1
  <2>2. CASE q # r
    <3>1. /\ pc'[q] = pc[q] /\ backup'[q] = backup[q] /\ tried'[q] = tried[q]
          /\ peer'[q] = peer[q] /\ tries'[q] = tries[q]
      BY <2>2 DEF RequestsOK
    <3> QED
      BY <3>1 DEF RequestsOK
  <2> QED
    BY <2>1, <2>2
<1>5. ASSUME NEW q \in Requests
      PROVE  RequestOK(pc[q], backup[q], tried[q], peer[q], tries[q])'
  BY <1>1, <1>4 DEF RequestOK, Untried
<1> QED
  BY <1>1, <1>3, <1>5 DEF RequestsOK

(* Only the place of a request changes, and it stays with its server. *)
LEMMA OtherPlace ==
  ASSUME RequestsOK, NEW r \in Requests, NEW place \in {"open"} \cup Waiting,
         pc[r] \in {"open"} \cup Waiting, running' \in Requests \cup {None},
         pc' = [pc EXCEPT ![r] = place], cached' \in [Requests -> BOOLEAN],
         gone' \in [Requests -> BOOLEAN],
         UNCHANGED <<conf, backup, tried, peer, tries, error>>
  PROVE  RequestsOK'
<1>1. RequestOK(pc[r], backup[r], tried[r], peer[r], tries[r])
  BY DEF RequestsOK
<1>2. RequestOK(place, backup[r], tried[r], peer[r], tries[r])
  BY <1>1 DEF RequestOK, Places, Waiting
<1>3. Moves(r, place, backup[r], tried[r], peer[r], tries[r])
  BY DEF RequestsOK, Moves
<1> QED
  BY <1>2, <1>3, OneRequest

LEMMA FinalizeKeeps ==
  ASSUME conf \in Configs, RequestsOK, conf' = conf, NEW r \in Requests,
         NEW isError \in BOOLEAN, Finalize(r, isError)
  PROVE  RequestsOK'
<1>1. RequestOK("idle", FALSE, {}, None, 0)
  BY Group DEF RequestOK, Places
<1>2. Moves(r, "idle", FALSE, {}, None, 0)
  BY DEF Finalize, Waits, RequestsOK, Moves
<1> QED
  BY <1>1, <1>2, OneRequest

LEMMA StartKeeps ==
  ASSUME IInv, NEW r \in Requests, Start(r)
  PROVE  IInv'
<1>1. conf \in Configs /\ conf' = conf
  BY DEF IInv, ServersOK, Start
<1>2. /\ pc[r] = "idle" /\ pc' = [pc EXCEPT ![r] = "get"]
      /\ tries' = [tries EXCEPT ![r] = conf.primary] /\ running' \in Requests \cup {None}
      /\ error' \in [Requests -> BOOLEAN]
      /\ UNCHANGED <<balance, fails, idle, backup, tried, peer, cached, gone>>
  BY DEF Start, Runs, IInv, RequestsOK
<1>3. RequestOK(pc[r], backup[r], tried[r], peer[r], tries[r])
  BY DEF IInv, RequestsOK
<1>4. tried[r] = {} /\ backup[r] = FALSE
  BY <1>2, <1>3 DEF RequestOK
<1>5. Untried(FALSE, {}) = List(FALSE) /\ Cardinality(List(FALSE)) = conf.primary
  BY <1>1, Group DEF Untried
<1>6. RequestOK("get", backup[r], tried[r], peer[r], conf.primary)
  <2>1. conf.primary \in 0..conf.primary + conf.backup /\ conf.primary >= conf.primary
    BY <1>1, Group
  <2> QED
    BY <1>3, <1>4, <1>5, <2>1 DEF RequestOK, Places
<1>7. Moves(r, "get", backup[r], tried[r], peer[r], conf.primary)
  BY <1>1, <1>2 DEF IInv, RequestsOK, Moves
<1>8. RequestsOK'
  BY <1>6, <1>7, OneRequest DEF IInv
<1>9. ServersOK'
  BY <1>1, <1>2, SameServers DEF IInv, balance
<1>10. Peers' = Peers
  BY <1>1, SameGroup
<1> QED
  BY <1>1, <1>2, <1>8, <1>9, <1>10 DEF IInv, IdleOK

LEMMA GetSingleKeeps ==
  ASSUME IInv, NEW r \in Requests, GetSingle(r)
  PROVE  IInv'
<1>1. conf \in Configs /\ conf' = conf
  BY DEF IInv, ServersOK, GetSingle
<1>2. /\ pc[r] = "get" /\ Single
      /\ pc' = [pc EXCEPT ![r] = "open"] /\ running' \in Requests \cup {None}
      /\ peer' = [peer EXCEPT ![r] = 1]
      /\ UNCHANGED <<balance, fails, idle, backup, tried, tries, cached, gone, error>>
  BY DEF GetSingle, Runs, IInv, RequestsOK
<1>3. RequestOK(pc[r], backup[r], tried[r], peer[r], tries[r])
  BY DEF IInv, RequestsOK
<1>4. 1 \in Peers
  BY <1>1, Group DEF Peers
<1>5. RequestOK("open", backup[r], tried[r], 1, tries[r])
  BY <1>2, <1>3, <1>4 DEF RequestOK, Places
<1>6. Moves(r, "open", backup[r], tried[r], 1, tries[r])
  BY <1>1, <1>2 DEF IInv, RequestsOK, Moves
<1>7. RequestsOK'
  BY <1>5, <1>6, OneRequest DEF IInv
<1>8. ServersOK'
  BY <1>1, <1>2, SameServers DEF IInv, balance
<1>9. Peers' = Peers
  BY <1>1, SameGroup
<1> QED
  BY <1>1, <1>2, <1>7, <1>8, <1>9 DEF IInv, IdleOK

(* The servers that a request has tried in a list. *)
TriedIn(r, isBackup) == IF isBackup = backup[r] THEN tried[r] ELSE {}

(* A server is chosen from a list with enough tries left: enough are left for the rest. *)
LEMMA GetPeerKeeps ==
  ASSUME IInv, NEW r \in Requests, NEW isBackup \in BOOLEAN, NEW left, ~ Single,
         UNCHANGED <<conf, fails, idle, cached, gone, error>>, Runs(r, "open"),
         Candidates(r, isBackup) # {}, GetPeer(r, isBackup, left),
         left \in 0..conf.primary + conf.backup,
         left >= Cardinality(Untried(isBackup, TriedIn(r, isBackup)))
  PROVE  IInv'
<1> DEFINE best == Best(Candidates(r, isBackup))
           t == TriedIn(r, isBackup)
           n == Tries(left, isBackup)
<1>1. ServersOK' /\ best \in Candidates(r, isBackup)
  BY ChosenServers DEF IInv
<1>2. conf \in Configs /\ conf' = conf
  BY DEF IInv, ServersOK
<1>3. /\ pc' = [pc EXCEPT ![r] = "open"] /\ peer' = [peer EXCEPT ![r] = best]
      /\ tried' = [tried EXCEPT ![r] = t \cup {best}]
      /\ backup' = [backup EXCEPT ![r] = isBackup] /\ tries' = [tries EXCEPT ![r] = n]
      /\ running' = r
  BY DEF GetPeer, Marked, TriedIn, Runs
<1>4. t \in SUBSET Peers
  BY DEF TriedIn, IInv, RequestsOK
<1>5. best \in Untried(isBackup, t)
  BY <1>1 DEF Candidates, TriedIn, Untried
<1>6. List(isBackup) \in SUBSET Peers /\ IsFiniteSet(Untried(isBackup, t)) /\ best \in Peers
  <2>1. List(isBackup) \in SUBSET Peers /\ IsFiniteSet(Peers)
    BY <1>2, Group
  <2>2. Untried(isBackup, t) \in SUBSET Peers
    BY <2>1 DEF Untried
  <2> QED
    BY <1>5, <2>1, <2>2, FS_Subset
<1> HIDE DEF best, t
<1>7. PICK k \in Nat : /\ Cardinality(Untried(isBackup, t)) = k + 1
                       /\ Cardinality(Untried(isBackup, t \cup {best})) = k
  <2>1. Untried(isBackup, t \cup {best}) = Untried(isBackup, t) \ {best}
    BY DEF Untried
  <2>2. /\ Cardinality(Untried(isBackup, t) \ {best}) = Cardinality(Untried(isBackup, t)) - 1
        /\ Cardinality(Untried(isBackup, t)) \in Nat
        /\ Cardinality(Untried(isBackup, t) \ {best}) \in Nat
    BY <1>5, <1>6, FS_RemoveElement, FS_CardinalityType
  <2>3. PICK k \in Nat, m \in Nat : /\ k = Cardinality(Untried(isBackup, t) \ {best})
                                   /\ m = Cardinality(Untried(isBackup, t))
    BY <2>2
  <2>4. m = k + 1
    BY <2>2, <2>3
  <2> QED
    BY <2>1, <2>3, <2>4
<1>8. /\ n \in 0..conf.primary + conf.backup /\ n >= k + 1
      /\ ~ isBackup /\ conf.backup > 0 => n >= 2
  <2>1. conf.primary \in Nat \ {0} /\ conf.backup \in Nat
    BY <1>2, Group
  <2>2. left >= k + 1
    BY <1>7 DEF t
  <2> QED
    BY <2>1, <2>2 DEF Tries
<1> HIDE DEF n
<1>9. RequestOK("open", isBackup, t \cup {best}, best, n)
  BY <1>4, <1>6, <1>7, <1>8 DEF RequestOK, Places
<1>10. Moves(r, "open", isBackup, t \cup {best}, best, n)
  BY <1>3 DEF IInv, RequestsOK, Moves
<1>11. RequestsOK'
  BY <1>9, <1>10, OneRequest DEF IInv
<1>12. Peers' = Peers
  BY <1>2, SameGroup
<1> QED
  BY <1>1, <1>11, <1>12 DEF IInv, IdleOK

LEMMA GetRoundRobinKeeps ==
  ASSUME IInv, NEW r \in Requests, GetRoundRobin(r)
  PROVE  IInv'
<1>1. conf \in Configs /\ backup[r] \in BOOLEAN
  BY DEF IInv, ServersOK, RequestsOK
<1>2. /\ pc[r] = "get" /\ ~ Single /\ Runs(r, "open")
      /\ UNCHANGED <<conf, fails, idle, cached, gone, error>>
  BY DEF GetRoundRobin
<1>3. RequestOK(pc[r], backup[r], tried[r], peer[r], tries[r])
  BY DEF IInv, RequestsOK
<1>4. CASE Candidates(r, backup[r]) # {} /\ GetPeer(r, backup[r], tries[r])
  <2>1. TriedIn(r, backup[r]) = tried[r]
    BY DEF TriedIn
  <2>2. /\ tries[r] >= Cardinality(Untried(backup[r], TriedIn(r, backup[r])))
        /\ tries[r] \in 0..conf.primary + conf.backup
    BY <1>2, <1>3, <2>1 DEF RequestOK
  <2> QED
    BY <1>1, <1>2, <1>4, <2>2, GetPeerKeeps
<1>5. CASE ~ backup[r] /\ Candidates(r, TRUE) # {} /\ GetPeer(r, TRUE, conf.backup)
  <2>1. Untried(TRUE, TriedIn(r, TRUE)) = List(TRUE)
    BY <1>5 DEF TriedIn, Untried
  <2>2. /\ conf.backup >= Cardinality(Untried(TRUE, TriedIn(r, TRUE)))
        /\ conf.backup \in 0..conf.primary + conf.backup
    <3>1. conf.primary \in Nat /\ conf.backup \in Nat /\ Cardinality(List(TRUE)) = conf.backup
      BY <1>1, Group
    <3>2. PICK a \in Nat, b \in Nat : a = conf.primary /\ b = conf.backup
      BY <3>1
    <3>3. b >= b /\ b \in 0..a + b
      OBVIOUS
    <3> QED
      BY <2>1, <3>1, <3>2, <3>3
  <2> QED
    BY <1>2, <1>5, <2>2, GetPeerKeeps
<1> QED
  BY <1>4, <1>5 DEF GetRoundRobin

LEMMA IdleKept ==
  ASSUME IInv, conf' = conf, UNCHANGED idle
  PROVE  IdleOK'
BY SameGroup DEF IInv, IdleOK

LEMMA KeepKeeps ==
  ASSUME IInv, conf' = conf, NEW p \in Peers, Keep(p) \/ Close
  PROVE  IdleOK'
<1>1. Peers' = Peers /\ conf.keepalive \in Nat /\ idle \in Seq(Peers)
      /\ Len(idle) <= conf.keepalive /\ Len(idle) \in Nat
  BY SameGroup, Group DEF IInv, ServersOK, IdleOK
<1>2. CASE Keep(p)
  <2> DEFINE room == IF Len(idle) < conf.keepalive THEN idle ELSE Front(idle)
  <2>1. conf.keepalive > 0 /\ (idle' = <<p>> \o room \/ idle' = room)
    BY <1>2 DEF Keep
  <2>2. room \in Seq(Peers) /\ Len(room) \in Nat /\ Len(room) < conf.keepalive
    <3>1. CASE Len(idle) < conf.keepalive
      BY <1>1, <3>1
    <3>2. CASE Len(idle) = conf.keepalive
      <4>1. Len(idle) \in Nat \ {0}
        BY <1>1, <2>1, <3>2
      <4>2. Front(idle) \in Seq(Peers) /\ Len(Front(idle)) = Len(idle) - 1
        BY <1>1, <4>1, FrontOf
      <4> QED
        BY <1>1, <2>1, <3>2, <4>1, <4>2
    <3> QED
      BY <1>1, <3>1, <3>2
  <2> HIDE DEF room
  <2>3. <<p>> \o room \in Seq(Peers) /\ Len(<<p>> \o room) = Len(room) + 1
    BY <2>2, PutFirst
  <2>4. /\ <<p>> \o room \in Seq(Peers) /\ Len(<<p>> \o room) <= conf.keepalive
        /\ room \in Seq(Peers) /\ Len(room) <= conf.keepalive
    BY <1>1, <2>2, <2>3
  <2> QED
    BY <1>1, <2>1, <2>4 DEF IdleOK
<1>3. CASE Close
  BY <1>3, IdleKept DEF Close
<1> QED
  BY <1>2, <1>3

(* The handler of a request that ends here has left the servers as they should be. *)
LEMMA EndsHere ==
  ASSUME IInv, conf' = conf, NEW r \in Requests, NEW isError \in BOOLEAN,
         Finalize(r, isError), ServersOK', IdleOK'
  PROVE  IInv'
<1>1. conf \in Configs /\ RequestsOK
  BY DEF IInv, ServersOK
<1>2. RequestsOK'
  BY <1>1, FinalizeKeeps
<1> QED
  BY <1>2 DEF IInv

LEMMA LiveServers ==
  ASSUME IInv, conf' = conf, NEW r, FreeLive(r)
  PROVE  ServersOK'
BY ForgetServers DEF IInv, FreeLive

LEMMA NoLiveKeeps ==
  ASSUME IInv, NEW r \in Requests, NoLive(r)
  PROVE  IInv'
<1>1. conf' = conf /\ UNCHANGED idle /\ Finalize(r, ~ gone[r])
      /\ Forget(List(backup[r]) \cup List(TRUE))
  BY DEF NoLive
<1>2. ServersOK'
  BY <1>1, ForgetServers DEF IInv
<1>3. IdleOK'
  BY <1>1, IdleKept
<1> QED
  BY <1>1, <1>2, <1>3, EndsHere

LEMMA LivesOn ==
  ASSUME IInv, conf' = conf, NEW r \in Requests, peer[r] \in Peers,
         FreeLive(r), Keep(peer[r]) \/ Close, Finalize(r, FALSE)
  PROVE  IInv'
BY LiveServers, KeepKeeps, EndsHere

(* The tries that are left suffice for the servers of the list that are left. *)
LEMMA EnoughLeft ==
  ASSUME IInv, NEW r \in Requests, pc[r] \notin {"idle", "get"}, ~ Single
  PROVE  /\ TriesLeft(r) \in 0..conf.primary + conf.backup - 1
         /\ TriesLeft(r) >= Cardinality(Untried(backup[r], tried[r]))
         /\ ~ backup[r] /\ conf.backup > 0 => TriesLeft(r) >= 1
<1>1. RequestOK(pc[r], backup[r], tried[r], peer[r], tries[r])
  BY DEF IInv, RequestsOK
<1>2. conf.primary \in Nat \ {0} /\ conf.backup \in Nat
      /\ Cardinality(Untried(backup[r], tried[r])) \in Nat
  <2>1. conf \in Configs /\ backup[r] \in BOOLEAN
    BY DEF IInv, ServersOK, RequestsOK
  <2>2. IsFiniteSet(List(backup[r]))
    BY <2>1, Group, FS_Subset
  <2>3. IsFiniteSet(Untried(backup[r], tried[r]))
    BY <2>2, FS_Subset DEF Untried
  <2> QED
    BY <2>1, <2>3, Group, FS_CardinalityType
<1>3. PICK a \in Nat \ {0}, b \in Nat, c \in Nat, n \in Nat :
        /\ a = conf.primary /\ b = conf.backup /\ n = tries[r]
        /\ c = Cardinality(Untried(backup[r], tried[r]))
  BY <1>1, <1>2 DEF RequestOK
<1>4. n \in 0..a + b /\ n >= c + 1 /\ (~ backup[r] /\ b > 0 => n >= 2)
  BY <1>1, <1>3 DEF RequestOK
<1>5. TriesLeft(r) = n - 1
  BY <1>3, <1>4 DEF TriesLeft
<1>6. n - 1 \in 0..a + b - 1 /\ n - 1 >= c /\ (~ backup[r] /\ b > 0 => n - 1 >= 1)
  BY <1>4
<1> QED
  BY <1>3, <1>5, <1>6

LEMMA SingleLeft ==
  ASSUME IInv, NEW r \in Requests, Single
  PROVE  TriesLeft(r) = 0 /\ conf.primary + conf.backup = 1
BY DEF TriesLeft, Single

(* A connection that was idle, and was closed, costs no try. *)
LEMMA NewTries ==
  ASSUME IInv, NEW r \in Requests, pc[r] \notin {"idle", "get"}, NEW failure
  PROVE  \E n \in 0..conf.primary + conf.backup :
           /\ n = TriesLeft(r) + (IF CostsNothing(r, failure) THEN 1 ELSE 0)
           /\ ~ Single => n >= Cardinality(Untried(backup[r], tried[r]))
<1>1. PICK a \in Nat \ {0}, b \in Nat : a = conf.primary /\ b = conf.backup
  BY Group DEF IInv, ServersOK
<1>2. CASE Single
  <2>1. TriesLeft(r) = 0 /\ a + b = 1
    BY <1>1, <1>2, SingleLeft
  <2> QED
    BY <1>1, <1>2, <2>1
<1>3. CASE ~ Single
  <2>1. Cardinality(Untried(backup[r], tried[r])) \in Nat
    <3>1. conf \in Configs /\ backup[r] \in BOOLEAN
      BY DEF IInv, ServersOK, RequestsOK
    <3>2. IsFiniteSet(List(backup[r]))
      BY <3>1, Group, FS_Subset
    <3>3. IsFiniteSet(Untried(backup[r], tried[r]))
      BY <3>2, FS_Subset DEF Untried
    <3> QED
      BY <3>3, FS_CardinalityType
  <2>2. PICK c \in Nat : c = Cardinality(Untried(backup[r], tried[r]))
    BY <2>1
  <2>3. TriesLeft(r) \in 0..a + b - 1 /\ TriesLeft(r) >= c
    BY <1>1, <1>3, <2>2, EnoughLeft
  <2>4. PICK k \in 0..a + b - 1 : k = TriesLeft(r) /\ k >= c
    BY <2>3
  <2>5. PICK d \in {0, 1} : d = IF CostsNothing(r, failure) THEN 1 ELSE 0
    OBVIOUS
  <2>6. k + d \in 0..a + b /\ k + d >= c
    BY <1>1, <2>2, <2>4, <2>5
  <2> QED
    BY <1>1, <2>2, <2>4, <2>5, <2>6
<1> QED
  BY <1>2, <1>3

LEMMA NextPeerKeeps ==
  ASSUME IInv, NEW r \in Requests, pc[r] \notin {"idle", "get"}, NEW failure,
         NextPeer(r, failure)
  PROVE  IInv'
<1> DEFINE left == TriesLeft(r) + (IF CostsNothing(r, failure) THEN 1 ELSE 0)
<1>1. RequestOK(pc[r], backup[r], tried[r], peer[r], tries[r])
  BY DEF IInv, RequestsOK
<1>2. conf' = conf /\ peer[r] \in Peers
  BY <1>1 DEF NextPeer, RequestOK
<1>3. ServersOK' /\ IdleOK'
  <2>1. CASE failure = "http_404"
    <3>1. FreeLive(r) /\ (Keep(peer[r]) \/ Close)
      BY <2>1 DEF NextPeer
    <3> QED
      BY <1>2, <3>1, LiveServers, KeepKeeps
  <2>2. CASE failure # "http_404"
    <3>1. FreeFailed(r) /\ Close
      BY <2>2 DEF NextPeer
    <3> QED
      BY <1>2, <3>1, FailedServers, KeepKeeps DEF IInv
  <2> QED
    BY <2>1, <2>2
<1>4. CASE Finalize(r, ~ gone[r])
  BY <1>2, <1>3, <1>4, EndsHere
<1>5. CASE /\ Runs(r, "get") /\ peer' = [peer EXCEPT ![r] = None]
           /\ cached' = [cached EXCEPT ![r] = FALSE] /\ tries' = [tries EXCEPT ![r] = left]
           /\ UNCHANGED <<backup, tried, gone, error>>
  <2>1. PICK n \in 0..conf.primary + conf.backup :
          n = left /\ (~ Single => n >= Cardinality(Untried(backup[r], tried[r])))
    BY NewTries
  <2> HIDE DEF left
  <2>2. RequestOK("get", backup[r], tried[r], None, n)
    BY <1>1, <2>1 DEF RequestOK, Places
  <2>3. Moves(r, "get", backup[r], tried[r], None, n)
    BY <1>2, <1>5, <2>1 DEF IInv, RequestsOK, Moves, Runs
  <2>4. RequestsOK'
    BY <2>2, <2>3, OneRequest DEF IInv
  <2> QED
    BY <1>3, <2>4 DEF IInv
<1> QED
  BY <1>4, <1>5 DEF NextPeer

LEMMA HasServer ==
  ASSUME IInv, NEW r \in Requests, pc[r] \notin {"idle", "get"}
  PROVE  peer[r] \in Peers
BY DEF IInv, RequestsOK, RequestOK

(* Only the place of the request changes. *)
LEMMA OnlyPlace ==
  ASSUME IInv, NEW r \in Requests, NEW place \in {"open"} \cup Waiting,
         pc[r] \in {"open"} \cup Waiting, Runs(r, place) \/ Waits(r, place),
         UNCHANGED <<conf, balance, fails, idle, request, error>>
  PROVE  IInv'
<1>1. /\ pc' = [pc EXCEPT ![r] = place] /\ running' \in Requests \cup {None}
      /\ UNCHANGED <<conf, backup, tried, peer, tries, error>>
      /\ cached' \in [Requests -> BOOLEAN] /\ gone' \in [Requests -> BOOLEAN]
  BY DEF Runs, Waits, request, IInv, RequestsOK
<1>2. RequestsOK'
  BY <1>1, OtherPlace DEF IInv
<1>3. ServersOK' /\ IdleOK'
  BY SameServers, IdleKept DEF IInv
<1> QED
  BY <1>2, <1>3 DEF IInv

LEMMA OpenCachedKeeps ==
  ASSUME IInv, NEW r \in Requests, OpenCached(r)
  PROVE  IInv'
<1>1. /\ pc[r] = "open" /\ pc' = [pc EXCEPT ![r] = "send"] /\ running' \in Requests \cup {None}
      /\ UNCHANGED <<conf, backup, tried, peer, tries, error>>
      /\ cached' \in [Requests -> BOOLEAN] /\ gone' \in [Requests -> BOOLEAN]
  BY DEF OpenCached, Runs, IInv, RequestsOK
<1>2. RequestsOK'
  BY <1>1, OtherPlace DEF IInv, Waiting
<1>3. ServersOK'
  BY SameServers DEF IInv, OpenCached
<1>4. IdleOK'
  <2>1. idle' = RemoveFirst(idle, peer[r]) /\ Contains(idle, peer[r]) /\ conf' = conf
    BY DEF OpenCached
  <2>2. idle' \in Seq(Peers) /\ Len(idle') = Len(idle) - 1
    BY <2>1, RemovedFirst DEF IInv, IdleOK
  <2>3. Len(idle) \in Nat /\ conf.keepalive \in Nat /\ Len(idle) <= conf.keepalive
    BY Group DEF IInv, ServersOK, IdleOK
  <2>4. Len(idle') <= conf.keepalive
    BY <2>2, <2>3
  <2>5. Peers' = Peers
    BY <2>1, SameGroup
  <2> QED
    BY <2>1, <2>2, <2>4, <2>5 DEF IdleOK
<1> QED
  BY <1>2, <1>3, <1>4 DEF IInv

LEMMA HandlerKeeps ==
  ASSUME IInv, NEW r \in Requests, Handler(r)
  PROVE  IInv'
<1>1. CASE Open(r)
  BY <1>1, OnlyPlace DEF Open, OpenNew, Waiting
<1>2. CASE Refused(r)
  BY <1>2, NextPeerKeeps DEF Refused, OpenNew
<1>3. CASE OpenFails(r)
  <2>1. pc[r] \notin {"idle", "get"} /\ conf' = conf /\ FreeLive(r) /\ Close
        /\ Finalize(r, FALSE)
    BY <1>3 DEF OpenFails, OpenNew
  <2> QED
    BY <2>1, HasServer, LivesOn
<1> QED
  BY <1>1, <1>2, <1>3, GetSingleKeeps, GetRoundRobinKeeps, NoLiveKeeps, OpenCachedKeeps
     DEF Handler

LEMMA AnswerKeeps ==
  ASSUME IInv, NEW r \in Requests, Answer(r)
  PROVE  IInv'
<1> USE DEF Event, Waiting
<1>1. CASE Send(r)
  <2>1. CASE NextPeer(r, "error")
    BY <1>1, <2>1, NextPeerKeeps DEF Send
  <2>2. CASE /\ \E place \in {"send", "header"} : Waits(r, place)
             /\ UNCHANGED <<conf, balance, fails, idle, request, error>>
    BY <1>1, <2>2, OnlyPlace DEF Send
  <2> QED
    BY <1>1, <2>1, <2>2 DEF Send
<1>2. CASE Timeout(r)
  BY <1>2, NextPeerKeeps DEF Timeout
<1>3. CASE ReadFails(r)
  BY <1>3, NextPeerKeeps DEF ReadFails
<1>4. CASE TestNext(r)
  BY <1>4, NextPeerKeeps DEF TestNext
<1>5. CASE Header(r)
  <2>1. pc[r] \notin {"idle", "get"} /\ peer[r] \in Peers
    BY <1>5, HasServer DEF Header
  <2>2. CASE Waits(r, "body") /\ UNCHANGED <<conf, balance, fails, idle, request, error>>
    BY <1>5, <2>2, OnlyPlace DEF Header
  <2>3. CASE conf' = conf /\ FreeLive(r) /\ (Keep(peer[r]) \/ Close) /\ Finalize(r, FALSE)
    BY <2>1, <2>3, LivesOn
  <2> QED
    BY <1>5, <2>2, <2>3 DEF Header
<1>6. CASE Body(r)
  <2>1. pc[r] \notin {"idle", "get"} /\ peer[r] \in Peers
    BY <1>6, HasServer DEF Body
  <2> QED
    BY <1>6, <2>1, LivesOn DEF Body
<1> QED
  BY <1>1, <1>2, <1>3, <1>4, <1>5, <1>6 DEF Answer

LEMMA ClientGoneKeeps ==
  ASSUME IInv, NEW r \in Requests, ClientGone(r)
  PROVE  IInv'
<1>1. pc[r] \in Waiting /\ pc[r] \notin {"idle", "get"}
  BY DEF ClientGone, Event, Waiting
<1>2. CASE conf' = conf /\ FreeLive(r) /\ Close /\ Finalize(r, FALSE)
  BY <1>1, <1>2, HasServer, LivesOn
<1>3. CASE /\ gone' = [gone EXCEPT ![r] = TRUE]
           /\ UNCHANGED <<conf, balance, fails, idle, running, pc, backup, tried,
                          peer, tries, cached, error>>
  <2>1. /\ pc' = [pc EXCEPT ![r] = pc[r]] /\ running' \in Requests \cup {None}
        /\ cached' \in [Requests -> BOOLEAN] /\ gone' \in [Requests -> BOOLEAN]
    BY <1>3 DEF IInv, RequestsOK
  <2>2. RequestsOK'
    BY <1>1, <1>3, <2>1, OtherPlace DEF IInv
  <2>3. ServersOK' /\ IdleOK'
    BY <1>3, SameServers, IdleKept DEF IInv
  <2> QED
    BY <2>2, <2>3 DEF IInv
<1> QED
  BY <1>2, <1>3 DEF ClientGone

LEMMA SameRequests ==
  ASSUME RequestsOK, UNCHANGED <<conf, running, pc, request, error>>
  PROVE  RequestsOK'
<1>1. Peers' = Peers /\ (Single <=> Single') /\ \A b : List(b)' = List(b)
  BY SameGroup
<1> QED
  BY <1>1 DEF RequestsOK, RequestOK, Untried, request

LEMMA TickKeeps ==
  ASSUME IInv, Tick
  PROVE  IInv'
BY TickServers, SameRequests, IdleKept DEF IInv, Tick

LEMMA IdleClosedKeeps ==
  ASSUME IInv, IdleClosed
  PROVE  IInv'
<1>1. /\ UNCHANGED <<conf, balance, fails, running, pc, request, error>>
      /\ \E i \in DOMAIN idle : idle' = RemoveAt(idle, i)
  BY DEF IdleClosed
<1>2. ServersOK' /\ RequestsOK'
  BY <1>1, SameServers, SameRequests DEF IInv
<1>3. PICK i \in 1..Len(idle) : idle' = RemoveAt(idle, i)
  BY <1>1 DEF IInv, IdleOK
<1>4. idle' \in Seq(Peers) /\ Len(idle') = Len(idle) - 1
  BY <1>3, RemovedOne DEF IInv, IdleOK
<1>5. conf.keepalive \in Nat
  BY Group DEF IInv, ServersOK
<1>6. Len(idle') <= conf.keepalive
  <2>1. Len(idle) \in Nat /\ Len(idle) <= conf.keepalive
    BY DEF IInv, IdleOK
  <2> QED
    BY <1>4, <1>5, <2>1
<1>7. Peers' = Peers
  BY <1>1, SameGroup
<1> QED
  BY <1>1, <1>2, <1>4, <1>6, <1>7 DEF IInv, IdleOK

LEMMA StutterKeeps ==
  ASSUME IInv, UNCHANGED vars
  PROVE  IInv'
BY SameServers, SameRequests, IdleKept DEF IInv, vars

LEMMA NextKeeps ==
  ASSUME IInv, [Next]_vars
  PROVE  IInv'
<1>1. CASE UNCHANGED vars
  BY <1>1, StutterKeeps
<1>2. CASE Tick \/ IdleClosed
  BY <1>2, TickKeeps, IdleClosedKeeps
<1>3. CASE \E r \in Requests : Start(r) \/ Handler(r) \/ Answer(r) \/ ClientGone(r)
  BY <1>3, StartKeeps, HandlerKeeps, AnswerKeeps, ClientGoneKeeps
<1> QED
  BY <1>1, <1>2, <1>3 DEF Next

(* The sum of the weights of new servers. *)
LEMMA SumZero ==
  ASSUME NEW L, IsFiniteSet(L), NEW f, \A x \in L : f[x] = 0
  PROVE  Sum(f, L) = 0
<1> DEFINE G == {T \in SUBSET L : Sum(f, T) = 0}
<1>1. {} \in G
  BY FS_EmptySet, SumPick
<1>2. ASSUME NEW T \in SUBSET L, NEW x \in L \ T, T \in G PROVE T \cup {x} \in G
  <2>1. IsFiniteSet(T) /\ (\A y \in T : f[y] \in Int) /\ f[x] = 0 /\ f[x] \in Int
    BY FS_Subset
  <2>2. Sum(f, T \cup {x}) = f[x] + Sum(f, T)
    BY <2>1, SumMore
  <2>3. Sum(f, T) = 0
    BY <1>2
  <2> QED
    BY <2>1, <2>2, <2>3
<1>3. L \in G
  <2> HIDE DEF G
  <2> QED
    BY <1>1, <1>2, SubsetInduction
<1> QED
  BY <1>3

LEMMA InitOK ==
  ASSUME Init
  PROVE  IInv
<1>1. conf \in Configs
  BY DEF Init
<1>2. ServersOK
  <2>1. /\ FailTimeout \in Nat
        /\ \A p \in Peers : conf.weight[p] \in Nat /\ conf.maxFails[p] \in Nat
    BY <1>1, Group
  <2>2. ASSUME NEW b \in BOOLEAN PROVE Sum(current, List(b)) = 0
    <3>1. IsFiniteSet(List(b)) /\ List(b) \in SUBSET Peers
      BY <1>1, Group, FS_Subset
    <3>2. \A p \in List(b) : current[p] = 0
      BY <3>1 DEF Init
    <3> QED
      BY <3>1, <3>2, SumZero
  <2>3. /\ current \in [Peers -> Int] /\ effective \in [Peers -> Nat]
        /\ \A p \in Peers : effective[p] <= conf.weight[p]
    BY <2>1 DEF Init
  <2> QED
    BY <1>1, <2>1, <2>2, <2>3 DEF Init, ServersOK, LongAgo
<1>3. RequestsOK
  <2>1. 0 \in 0..conf.primary + conf.backup
    BY <1>1, Group
  <2> QED
    BY <2>1 DEF Init, RequestsOK, RequestOK, Places
<1>4. IdleOK
  BY <1>1, Group DEF Init, IdleOK
<1> QED
  BY <1>2, <1>3, <1>4 DEF IInv

-----------------------------------------------------------------------------
(* The servers that were chosen for a request.  Where servers are marked as tried, they and
   those that are left are no more than the lists have that the request has come to; the only
   server is chosen for a new connection once, since its failure is not forgiven.  Only the
   running request is between the choice and the connection. *)
ListsLeft(isBackup, t) == Cardinality(Untried(isBackup, t))
ListsSeen(isBackup) == IF isBackup THEN conf.primary + conf.backup ELSE conf.primary

AttemptOK(place, isBackup, t, isCached, n, queue) ==
  /\ n \in Nat
  /\ place \notin Waiting => ~ isCached
  /\ Single /\ n # 0 => /\ n = 1 /\ place \notin {"idle", "get"} /\ ~ isCached
                        /\ place = "open" => queue = <<>>
  /\ ~ Single => n + ListsLeft(isBackup, t) <= ListsSeen(isBackup)

AttemptsOK ==
  /\ attempts \in [Requests -> Nat]
  /\ \A r \in Requests : pc[r] \in {"get", "open"} => running = r
  /\ \A r \in Requests :
       AttemptOK(pc[r], backup[r], tried[r], cached[r], attempts[r], idle)

AInv == IInv /\ AttemptsOK

(* A request goes on, while no other one is between choice and connection. *)
LEMMA OneAttempt ==
  ASSUME AInv, NEW r \in Requests, running \in {r, None}, conf' = conf,
         NEW place, NEW b, NEW t, NEW c, NEW n,
         AttemptOK(place, b, t, c, n, idle'),
         pc' = [pc EXCEPT ![r] = place], backup' = [backup EXCEPT ![r] = b],
         tried' = [tried EXCEPT ![r] = t], cached' = [cached EXCEPT ![r] = c],
         attempts' = [attempts EXCEPT ![r] = n],
         place \in {"get", "open"} => running' = r
  PROVE  AttemptsOK'
<1>1. Peers' = Peers /\ (Single' <=> Single) /\ \A l : List(l)' = List(l)
  BY SameGroup
<1>2. /\ pc \in [Requests -> Places] /\ backup \in [Requests -> BOOLEAN]
      /\ tried \in [Requests -> SUBSET Peers] /\ cached \in [Requests -> BOOLEAN]
      /\ attempts \in [Requests -> Nat] /\ n \in Nat
  BY DEF AInv, IInv, RequestsOK, AttemptsOK, AttemptOK
<1>3. ASSUME NEW q \in Requests
      PROVE  /\ pc'[q] \in {"get", "open"} => running' = q
             /\ AttemptOK(pc'[q], backup'[q], tried'[q], cached'[q], attempts'[q], idle')
  <2>1. CASE q = r
    <3>1. /\ pc'[q] = place /\ backup'[q] = b /\ tried'[q] = t /\ cached'[q] = c
          /\ attempts'[q] = n
      BY <1>2, <2>1
    <3> QED
      BY <2>1, <3>1
  <2>2. CASE q # r
    <3>1. /\ pc'[q] = pc[q] /\ backup'[q] = backup[q] /\ tried'[q] = tried[q]
          /\ cached'[q] = cached[q] /\ attempts'[q] = attempts[q]
      BY <1>2, <2>2
    <3>2. pc[q] \notin {"get", "open"}
      <4>1. pc[q] \in {"get", "open"} => running = q
        BY DEF AInv, AttemptsOK
      <4>2. None \notin Requests
        BY UpstreamAssumption DEF None
      <4> QED
        BY <2>2, <4>1, <4>2
    <3>3. AttemptOK(pc[q], backup[q], tried[q], cached[q], attempts[q], idle)
      BY DEF AInv, AttemptsOK
    <3> QED
      BY <3>1, <3>2, <3>3 DEF AttemptOK
  <2> QED
    BY <2>1, <2>2
<1>4. ASSUME NEW q \in Requests
      PROVE  AttemptOK(pc[q], backup[q], tried[q], cached[q], attempts[q], idle)'
  BY <1>1, <1>3 DEF AttemptOK, ListsLeft, ListsSeen, Untried
<1> QED
  BY <1>2, <1>3, <1>4 DEF AttemptsOK

LEMMA FinalizeAttempts ==
  ASSUME AInv, NEW r \in Requests, running \in {r, None}, conf' = conf, NEW isError,
         Finalize(r, isError)
  PROVE  AttemptsOK'
<1>1. Untried(FALSE, {}) = List(FALSE) /\ Cardinality(List(FALSE)) = conf.primary
      /\ conf.primary \in Nat
  BY Group DEF Untried, AInv, IInv, ServersOK
<1>2. AttemptOK("idle", FALSE, {}, FALSE, 0, idle')
  <2>a. ListsLeft(FALSE, {}) = conf.primary
    BY <1>1, Zenon DEF ListsLeft
  <2>b. ListsSeen(FALSE) = conf.primary
    BY DEF ListsSeen
  <2>c. 0 + conf.primary <= conf.primary
    BY <1>1
  <2>1. 0 + ListsLeft(FALSE, {}) <= ListsSeen(FALSE)
    BY <2>a, <2>b, <2>c, Zenon
  <2> QED
    BY <2>1 DEF AttemptOK
<1> QED
  BY <1>2, OneAttempt DEF Finalize, Waits

(* Only the place of the request changes, and it does not go back. *)
LEMMA PlaceAttempts ==
  ASSUME AInv, NEW r \in Requests, running \in {r, None}, conf' = conf,
         NEW place \in Waiting, pc[r] \in {"open"} \cup Waiting,
         Runs(r, place) \/ Waits(r, place), UNCHANGED <<idle, request>>
  PROVE  AttemptsOK'
<1>1. AttemptOK(pc[r], backup[r], tried[r], cached[r], attempts[r], idle)
  BY DEF AInv, AttemptsOK
<1>2. AttemptOK(place, backup[r], tried[r], cached[r], attempts[r], idle')
  BY <1>1 DEF AttemptOK, Waiting
<1>3. /\ pc' = [pc EXCEPT ![r] = place] /\ backup' = [backup EXCEPT ![r] = backup[r]]
      /\ tried' = [tried EXCEPT ![r] = tried[r]] /\ cached' = [cached EXCEPT ![r] = cached[r]]
      /\ attempts' = [attempts EXCEPT ![r] = attempts[r]] /\ place \notin {"get", "open"}
  BY DEF Runs, Waits, request, Waiting, AInv, AttemptsOK, IInv, RequestsOK
<1> QED
  BY <1>2, <1>3, OneAttempt

(* A failure that is forgiven is that of an idle connection. *)
LEMMA NextAttempts ==
  ASSUME AInv, NEW r \in Requests, running \in {r, None}, pc[r] \in {"open"} \cup Waiting,
         NEW failure, NextPeer(r, failure)
  PROVE  AttemptsOK'
<1> DEFINE left == TriesLeft(r) + (IF CostsNothing(r, failure) THEN 1 ELSE 0)
<1>1. conf' = conf
  BY DEF NextPeer
<1>2. CASE Finalize(r, ~ gone[r])
  BY <1>1, <1>2, FinalizeAttempts
<1>3. CASE /\ Retries(r, failure, left) /\ Runs(r, "get")
           /\ cached' = [cached EXCEPT ![r] = FALSE]
           /\ UNCHANGED <<backup, tried, gone, attempts, error>>
  <2>1. AttemptOK(pc[r], backup[r], tried[r], cached[r], attempts[r], idle)
    BY DEF AInv, AttemptsOK
  <2>2. ASSUME Single PROVE attempts[r] = 0
    <3>1. TriesLeft(r) = 0
      BY <2>2, SingleLeft DEF AInv
    <3>2. cached[r]
      BY <1>3, <3>1 DEF Retries, CostsNothing
    <3> QED
      BY <2>1, <2>2, <3>2 DEF AttemptOK
  <2>3. AttemptOK("get", backup[r], tried[r], FALSE, attempts[r], idle')
    BY <2>1, <2>2 DEF AttemptOK
  <2>4. /\ pc' = [pc EXCEPT ![r] = "get"] /\ running' = r
        /\ backup' = [backup EXCEPT ![r] = backup[r]]
        /\ tried' = [tried EXCEPT ![r] = tried[r]]
        /\ attempts' = [attempts EXCEPT ![r] = attempts[r]]
    BY <1>3 DEF Runs, AInv, AttemptsOK, IInv, RequestsOK
  <2>5. cached' = [cached EXCEPT ![r] = FALSE]
    BY <1>3
  <2> HIDE DEF left
  <2> QED
    BY <1>1, <2>3, <2>4, <2>5, OneAttempt
<1> QED
  BY <1>2, <1>3 DEF NextPeer

LEMMA StartAttempts ==
  ASSUME AInv, NEW r \in Requests, Start(r)
  PROVE  AttemptsOK'
<1>1. AttemptOK(pc[r], backup[r], tried[r], cached[r], attempts[r], idle)
  BY DEF AInv, AttemptsOK
<1>2. AttemptOK("get", backup[r], tried[r], cached[r], attempts[r], idle')
  BY <1>1 DEF AttemptOK, Start, Waiting
<1>3. /\ pc' = [pc EXCEPT ![r] = "get"] /\ running' = r /\ conf' = conf /\ running = None
      /\ backup' = [backup EXCEPT ![r] = backup[r]] /\ tried' = [tried EXCEPT ![r] = tried[r]]
      /\ cached' = [cached EXCEPT ![r] = cached[r]]
      /\ attempts' = [attempts EXCEPT ![r] = attempts[r]]
  BY DEF Start, Runs, AInv, AttemptsOK, IInv, RequestsOK
<1> QED
  BY <1>2, <1>3, OneAttempt

(* The only server: a new connection is what the request has had no attempt for. *)
LEMMA SingleAttempts ==
  ASSUME AInv, NEW r \in Requests, GetSingle(r)
  PROVE  AttemptsOK'
<1> DEFINE n == IF idle = <<>> THEN attempts[r] + 1 ELSE attempts[r]
<1>1. /\ pc[r] = "get" /\ Single /\ conf' = conf /\ idle' = idle
      /\ AttemptOK(pc[r], backup[r], tried[r], cached[r], attempts[r], idle)
      /\ running = r
  BY DEF GetSingle, AInv, AttemptsOK
<1>2. attempts[r] = 0 /\ ~ cached[r]
  BY <1>1 DEF AttemptOK, Waiting
<1>3. AttemptOK("open", backup[r], tried[r], cached[r], n, idle')
  BY <1>1, <1>2 DEF AttemptOK
<1>4. /\ pc' = [pc EXCEPT ![r] = "open"] /\ running' = r
      /\ backup' = [backup EXCEPT ![r] = backup[r]] /\ tried' = [tried EXCEPT ![r] = tried[r]]
      /\ cached' = [cached EXCEPT ![r] = cached[r]]
      /\ attempts' = [attempts EXCEPT ![r] = n]
  BY DEF GetSingle, Runs, AInv, AttemptsOK, IInv, RequestsOK
<1> HIDE DEF n
<1> QED
  BY <1>1, <1>3, <1>4, OneAttempt

(* A server is chosen from a list: it leaves one fewer of them. *)
LEMMA GetPeerAttempts ==
  ASSUME AInv, NEW r \in Requests, NEW isBackup \in BOOLEAN, NEW left, ~ Single,
         pc[r] = "get", UNCHANGED <<conf, fails, idle, cached>>, Runs(r, "open"),
         Candidates(r, isBackup) # {}, GetPeer(r, isBackup, left),
         attempts[r] + ListsLeft(isBackup, TriedIn(r, isBackup)) <= ListsSeen(isBackup)
  PROVE  AttemptsOK'
<1> DEFINE best == Best(Candidates(r, isBackup))
           t == TriedIn(r, isBackup)
<1>1. best \in Untried(isBackup, t)
  BY ChosenServers DEF AInv, IInv, Candidates, TriedIn, Untried
<1>2. /\ tried' = [tried EXCEPT ![r] = t \cup {best}]
      /\ backup' = [backup EXCEPT ![r] = isBackup]
      /\ attempts' = [attempts EXCEPT ![r] = attempts[r] + 1]
      /\ pc' = [pc EXCEPT ![r] = "open"] /\ running' = r
      /\ cached' = [cached EXCEPT ![r] = cached[r]]
  BY DEF GetPeer, Marked, TriedIn, Runs, AInv, AttemptsOK, IInv, RequestsOK
<1>3. IsFiniteSet(Untried(isBackup, t))
  <2>1. conf \in Configs
    BY DEF AInv, IInv, ServersOK
  <2>2. IsFiniteSet(List(isBackup))
    BY <2>1, Group, FS_Subset
  <2> QED
    BY <2>2, FS_Subset DEF Untried
<1>a. attempts[r] + ListsLeft(isBackup, t) <= ListsSeen(isBackup)
  OBVIOUS
<1> HIDE DEF best, t
<1>4. /\ ListsLeft(isBackup, t \cup {best}) = ListsLeft(isBackup, t) - 1
      /\ ListsLeft(isBackup, t) \in Nat
  <2>1. Untried(isBackup, t \cup {best}) = Untried(isBackup, t) \ {best}
    BY DEF Untried
  <2>2. Cardinality(Untried(isBackup, t) \ {best}) = Cardinality(Untried(isBackup, t)) - 1
    BY <1>1, <1>3, FS_RemoveElement
  <2> QED
    BY <1>3, <2>1, <2>2, FS_CardinalityType DEF ListsLeft
<1>5. /\ attempts[r] \in Nat /\ running = r /\ ~ cached[r]
  BY DEF AInv, AttemptsOK, AttemptOK, Waiting
<1>6. ListsSeen(isBackup) \in Nat
  BY Group DEF ListsSeen, AInv, IInv, ServersOK
<1>7. AttemptOK("open", isBackup, t \cup {best}, cached[r], attempts[r] + 1, idle')
  <2>1. attempts[r] + 1 + ListsLeft(isBackup, t \cup {best}) <= ListsSeen(isBackup)
    BY <1>a, <1>4, <1>5, <1>6
  <2> QED
    BY <1>5, <2>1 DEF AttemptOK
<1> QED
  BY <1>2, <1>5, <1>7, OneAttempt

LEMMA RoundRobinAttempts ==
  ASSUME AInv, NEW r \in Requests, GetRoundRobin(r)
  PROVE  AttemptsOK'
<1>1. conf \in Configs /\ backup[r] \in BOOLEAN
  BY DEF AInv, IInv, ServersOK, RequestsOK
<1>2. /\ pc[r] = "get" /\ ~ Single /\ Runs(r, "open") /\ UNCHANGED <<conf, fails, idle, cached>>
  BY DEF GetRoundRobin
<1>3. attempts[r] \in Nat
      /\ attempts[r] + ListsLeft(backup[r], tried[r]) <= ListsSeen(backup[r])
  BY <1>2 DEF AInv, AttemptsOK, AttemptOK
<1>4. CASE Candidates(r, backup[r]) # {} /\ GetPeer(r, backup[r], tries[r])
  <2>1. TriedIn(r, backup[r]) = tried[r]
    BY DEF TriedIn
  <2> QED
    BY <1>1, <1>2, <1>3, <1>4, <2>1, GetPeerAttempts
<1>5. CASE ~ backup[r] /\ Candidates(r, TRUE) # {} /\ GetPeer(r, TRUE, conf.backup)
  <2>1. ListsLeft(TRUE, TriedIn(r, TRUE)) = conf.backup
    <3>1. Untried(TRUE, TriedIn(r, TRUE)) = List(TRUE)
      BY <1>5 DEF TriedIn, Untried
    <3> QED
      BY <1>1, <3>1, Group DEF ListsLeft
  <2>2. ListsLeft(backup[r], tried[r]) \in Nat
    <3>1. IsFiniteSet(List(backup[r]))
      BY <1>1, Group, FS_Subset
    <3>2. IsFiniteSet(Untried(backup[r], tried[r]))
      BY <3>1, FS_Subset DEF Untried
    <3> QED
      BY <3>2, FS_CardinalityType DEF ListsLeft
  <2>3. attempts[r] <= conf.primary /\ conf.primary \in Nat /\ conf.backup \in Nat
    <3>1. conf.primary \in Nat /\ conf.backup \in Nat
      BY <1>1, Group
    <3>2. ListsSeen(backup[r]) = conf.primary
      BY <1>5 DEF ListsSeen
    <3> QED
      BY <1>3, <2>2, <3>1, <3>2
  <2>4. attempts[r] + ListsLeft(TRUE, TriedIn(r, TRUE)) <= ListsSeen(TRUE)
    <3>1. PICK a \in Nat, b \in Nat, n \in Nat :
            a = conf.primary /\ b = conf.backup /\ n = attempts[r]
      BY <1>3, <2>3
    <3>2. n + b <= a + b
      BY <2>3, <3>1
    <3> QED
      BY <2>1, <3>1, <3>2 DEF ListsSeen
  <2> QED
    BY <1>2, <1>5, <2>4, GetPeerAttempts
<1> QED
  BY <1>4, <1>5 DEF GetRoundRobin

LEMMA OpenCachedAttempts ==
  ASSUME AInv, NEW r \in Requests, OpenCached(r)
  PROVE  AttemptsOK'
<1>1. /\ pc[r] = "open" /\ conf' = conf /\ Contains(idle, peer[r])
      /\ AttemptOK(pc[r], backup[r], tried[r], cached[r], attempts[r], idle)
      /\ running = r
  BY DEF OpenCached, AInv, AttemptsOK
<1>2. idle # <<>>
  BY <1>1 DEF Contains
<1>3. AttemptOK("send", backup[r], tried[r], TRUE, attempts[r], idle')
  BY <1>1, <1>2 DEF AttemptOK, Waiting
<1>4. /\ pc' = [pc EXCEPT ![r] = "send"] /\ running' = r
      /\ backup' = [backup EXCEPT ![r] = backup[r]] /\ tried' = [tried EXCEPT ![r] = tried[r]]
      /\ cached' = [cached EXCEPT ![r] = TRUE]
      /\ attempts' = [attempts EXCEPT ![r] = attempts[r]]
  BY DEF OpenCached, Runs, AInv, AttemptsOK, IInv, RequestsOK
<1> QED
  BY <1>1, <1>3, <1>4, OneAttempt

LEMMA HandlerAttempts ==
  ASSUME AInv, NEW r \in Requests, Handler(r)
  PROVE  AttemptsOK'
<1>1. CASE Open(r)
  <2>1. pc[r] = "open" /\ running = r
    BY <1>1 DEF Open, OpenNew, AInv, AttemptsOK
  <2> QED
    BY <1>1, <2>1, PlaceAttempts DEF Open, Waiting
<1>2. CASE Refused(r)
  <2>1. pc[r] = "open" /\ running = r
    BY <1>2 DEF Refused, OpenNew, AInv, AttemptsOK
  <2> QED
    BY <1>2, <2>1, NextAttempts DEF Refused
<1>3. CASE OpenFails(r)
  <2>1. running = r
    BY <1>3 DEF OpenFails, OpenNew, AInv, AttemptsOK
  <2> QED
    BY <1>3, <2>1, FinalizeAttempts DEF OpenFails
<1>4. CASE NoLive(r)
  <2>1. running = r
    BY <1>4 DEF NoLive, AInv, AttemptsOK
  <2> QED
    BY <1>4, <2>1, FinalizeAttempts DEF NoLive
<1> QED
  BY <1>1, <1>2, <1>3, <1>4, SingleAttempts, RoundRobinAttempts, OpenCachedAttempts DEF Handler

LEMMA AnswerAttempts ==
  ASSUME AInv, NEW r \in Requests, Answer(r)
  PROVE  AttemptsOK'
<1>1. running \in {r, None} /\ pc[r] \in Waiting
  BY DEF Answer, Send, Timeout, ReadFails, TestNext, Header, Body, Event, Waiting
<1>2. CASE Send(r)
  <2>1. CASE NextPeer(r, "error")
    BY <1>1, <2>1, NextAttempts
  <2>2. CASE /\ \E place \in {"send", "header"} : Waits(r, place)
             /\ UNCHANGED <<conf, balance, fails, idle, request, error>>
    BY <1>1, <2>2, PlaceAttempts DEF Waiting
  <2> QED
    BY <1>2, <2>1, <2>2 DEF Send
<1>3. CASE Timeout(r) \/ ReadFails(r) \/ TestNext(r)
  BY <1>1, <1>3, NextAttempts DEF Timeout, ReadFails, TestNext
<1>4. CASE Header(r)
  <2>1. CASE Waits(r, "body") /\ UNCHANGED <<conf, balance, fails, idle, request, error>>
    BY <1>1, <2>1, PlaceAttempts DEF Waiting
  <2>2. CASE conf' = conf /\ Finalize(r, FALSE)
    BY <1>1, <2>2, FinalizeAttempts
  <2> QED
    BY <1>4, <2>1, <2>2 DEF Header
<1>5. CASE Body(r)
  BY <1>1, <1>5, FinalizeAttempts DEF Body
<1> QED
  BY <1>2, <1>3, <1>4, <1>5 DEF Answer

(* Nothing but the idle connections, at most, and those while no handler runs. *)
LEMMA FrameAttempts ==
  ASSUME AInv, UNCHANGED <<conf, running, pc, backup, tried, cached, attempts>>,
         running = None \/ UNCHANGED idle
  PROVE  AttemptsOK'
<1>1. Peers' = Peers /\ (Single' <=> Single) /\ \A l : List(l)' = List(l)
  BY SameGroup
<1>2. ASSUME NEW r \in Requests
      PROVE  AttemptOK(pc[r], backup[r], tried[r], cached[r], attempts[r], idle')
  <2>1. /\ AttemptOK(pc[r], backup[r], tried[r], cached[r], attempts[r], idle)
        /\ pc[r] \in {"get", "open"} => running = r
    BY DEF AInv, AttemptsOK
  <2>2. None \notin Requests
    BY UpstreamAssumption DEF None
  <2>3. UNCHANGED idle \/ pc[r] # "open"
    BY <2>1, <2>2
  <2> QED
    BY <2>1, <2>3 DEF AttemptOK
<1>3. ASSUME NEW r \in Requests
      PROVE  AttemptOK(pc[r], backup[r], tried[r], cached[r], attempts[r], idle)'
  BY <1>1, <1>2 DEF AttemptOK, ListsLeft, ListsSeen, Untried
<1> QED
  BY <1>3 DEF AInv, AttemptsOK

LEMMA NextCounts ==
  ASSUME AInv, [Next]_vars
  PROVE  AInv'
<1>1. IInv'
  BY NextKeeps DEF AInv
<1> SUFFICES AttemptsOK'
  BY <1>1 DEF AInv
<1>2. CASE UNCHANGED vars
  <2>1. UNCHANGED <<conf, running, pc, backup, tried, cached, attempts>> /\ UNCHANGED idle
    BY <1>2 DEF vars, request
  <2> QED
    BY <2>1, FrameAttempts
<1>3. CASE Tick \/ IdleClosed
  <2>1. UNCHANGED <<conf, running, pc, backup, tried, cached, attempts>> /\ running = None
    BY <1>3 DEF Tick, IdleClosed, request
  <2> QED
    BY <2>1, FrameAttempts
<1>4. ASSUME NEW r \in Requests, ClientGone(r) PROVE AttemptsOK'
  <2>1. running = None
    BY <1>4 DEF ClientGone, Event
  <2>2. CASE conf' = conf /\ Finalize(r, FALSE)
    BY <2>1, <2>2, FinalizeAttempts
  <2>3. CASE UNCHANGED <<conf, running, pc, backup, tried, cached, attempts, idle>>
    BY <2>3, FrameAttempts
  <2> QED
    BY <1>4, <2>2, <2>3 DEF ClientGone
<1>5. CASE \E r \in Requests : Start(r) \/ Handler(r) \/ Answer(r) \/ ClientGone(r)
  BY <1>4, <1>5, StartAttempts, HandlerAttempts, AnswerAttempts
<1> QED
  BY <1>2, <1>3, <1>5 DEF Next

LEMMA InitCounts ==
  ASSUME Init
  PROVE  AInv
<1>1. IInv
  BY InitOK
<1>2. Untried(FALSE, {}) = List(FALSE) /\ Cardinality(List(FALSE)) = conf.primary
      /\ conf.primary \in Nat
  BY Group DEF Init, Untried
<1>3. AttemptsOK
  <2>1. AttemptOK("idle", FALSE, {}, FALSE, 0, <<>>)
    <3>a. ListsLeft(FALSE, {}) = conf.primary
      BY <1>2, Zenon DEF ListsLeft
    <3>b. ListsSeen(FALSE) = conf.primary
      BY DEF ListsSeen
    <3>c. 0 + conf.primary <= conf.primary
      BY <1>2
    <3>1. 0 + ListsLeft(FALSE, {}) <= ListsSeen(FALSE)
      BY <3>a, <3>b, <3>c, Zenon
    <3> QED
      BY <3>1 DEF AttemptOK
  <2> QED
    BY <2>1 DEF Init, AttemptsOK
<1> QED
  BY <1>1, <1>3 DEF AInv

LEMMA FewAttempts ==
  ASSUME AInv
  PROVE  TriesBounded
<1>1. conf \in Configs
  BY DEF AInv, IInv, ServersOK
<1>2. PICK a \in Nat \ {0}, b \in Nat : a = conf.primary /\ b = conf.backup
  BY <1>1, Group
<1>3. Cardinality(Peers) = a + b
  BY <1>1, <1>2, Group
<1>4. ASSUME NEW r \in Requests PROVE attempts[r] <= a + b
  <2>1. /\ AttemptOK(pc[r], backup[r], tried[r], cached[r], attempts[r], idle)
        /\ backup[r] \in BOOLEAN /\ attempts[r] \in Nat
    BY DEF AInv, AttemptsOK, IInv, RequestsOK
  <2>2. CASE Single
    BY <1>2, <2>1, <2>2 DEF AttemptOK
  <2>3. CASE ~ Single
    <3>1. ListsLeft(backup[r], tried[r]) \in Nat
      <4>1. IsFiniteSet(List(backup[r]))
        BY <1>1, <2>1, Group, FS_Subset
      <4>2. IsFiniteSet(Untried(backup[r], tried[r]))
        BY <4>1, FS_Subset DEF Untried
      <4> QED
        BY <4>2, FS_CardinalityType DEF ListsLeft
    <3>2. ListsSeen(backup[r]) \in Nat /\ ListsSeen(backup[r]) <= a + b
      BY <1>2 DEF ListsSeen
    <3>3. attempts[r] + ListsLeft(backup[r], tried[r]) <= ListsSeen(backup[r])
      BY <2>1, <2>3 DEF AttemptOK
    <3> QED
      BY <2>1, <3>1, <3>2, <3>3
  <2> QED
    BY <2>2, <2>3
<1> QED
  BY <1>3, <1>4 DEF TriesBounded

-----------------------------------------------------------------------------
(* The weights, the failures and the requests of a group are always as IInv says, and the
   servers chosen for a request as AttemptsOK does. *)
THEOREM UpstreamInvariant == SafetySpec => []AInv
<1>1. Init => AInv
  BY InitCounts
<1>2. AInv /\ [Next]_vars => AInv'
  BY NextCounts
<1> QED
  BY <1>1, <1>2, PTL DEF SafetySpec

(* However many failures are forgiven, a request is sent to no more servers than there are: for
   any number of requests, servers, backup servers and idle connections. *)
THEOREM TriesBoundedHolds == SafetySpec => []TriesBounded
<1>1. AInv => TriesBounded
  BY FewAttempts
<1> QED
  BY <1>1, UpstreamInvariant, PTL

(* Smooth balancing: for any group of servers, the weights of its lists add up to
   zero in every state, and no effective weight is below zero. *)
THEOREM BalancedHolds == SafetySpec => []Balanced
<1>1. ASSUME AInv PROVE Balanced
  <2>0. IInv
    BY <1>1 DEF AInv
  <2>1. Cardinality(Peers) = conf.primary + conf.backup
    BY <2>0, Group DEF IInv, ServersOK
  <2>2. \A p \in Peers : conf.weight[p] \in Nat /\ conf.maxFails[p] \in Nat
    BY <2>0, Group DEF IInv, ServersOK
  <2>3. TypeOK
    BY <1>1, <2>0, <2>1, <2>2
       DEF TypeOK, AInv, AttemptsOK, IInv, ServersOK, RequestsOK, IdleOK, Places
  <2>4. \A b \in BOOLEAN : MapThenSumSet(LAMBDA p : current[p], List(b)) = 0
    BY <2>0 DEF IInv, ServersOK, Sum
  <2> QED
    BY <2>3, <2>4 DEF Balanced
<1> QED
  BY <1>1, UpstreamInvariant, PTL

-----------------------------------------------------------------------------
(* Properties of steps. *)

Acts(q) == Start(q) \/ Handler(q) \/ Answer(q) \/ ClientGone(q)

(* A handler of one request leaves the others alone. *)
LEMMA OthersStay ==
  ASSUME IInv, NEW q \in Requests, Acts(q), NEW r \in Requests, r # q
  PROVE  pc'[r] = pc[r] /\ error'[r] = error[r]
<1>1. pc \in [Requests -> Places] /\ error \in [Requests -> BOOLEAN]
  BY DEF IInv, RequestsOK
<1>2. ASSUME NEW isError, Finalize(q, isError)
      PROVE  pc'[r] = pc[r] /\ error'[r] = error[r]
  BY <1>1, <1>2 DEF Finalize, Waits
<1>3. ASSUME NEW place, Runs(q, place) \/ Waits(q, place), error' = error
      PROVE  pc'[r] = pc[r] /\ error'[r] = error[r]
  BY <1>1, <1>3 DEF Runs, Waits
<1>4. ASSUME NEW failure, NextPeer(q, failure)
      PROVE  pc'[r] = pc[r] /\ error'[r] = error[r]
  BY <1>2, <1>3, <1>4 DEF NextPeer
<1>5. CASE Start(q)
  BY <1>1, <1>5 DEF Start, Runs
<1>6. CASE Handler(q)
  <2>1. CASE GetSingle(q)
    BY <1>3, <2>1 DEF GetSingle
  <2>2. CASE GetRoundRobin(q)
    BY <1>3, <2>2 DEF GetRoundRobin
  <2>3. CASE NoLive(q)
    BY <1>2, <2>3 DEF NoLive
  <2>4. CASE OpenCached(q)
    BY <1>3, <2>4 DEF OpenCached
  <2>5. CASE Open(q)
    BY <1>3, <2>5 DEF Open
  <2>6. CASE Refused(q)
    BY <1>4, <2>6 DEF Refused
  <2>7. CASE OpenFails(q)
    BY <1>2, <2>7 DEF OpenFails
  <2> QED
    BY <1>6, <2>1, <2>2, <2>3, <2>4, <2>5, <2>6, <2>7 DEF Handler
<1>7. CASE Answer(q)
  <2>1. CASE Send(q)
    BY <1>3, <1>4, <2>1 DEF Send
  <2>2. CASE Timeout(q)
    BY <1>4, <2>2 DEF Timeout
  <2>3. CASE ReadFails(q)
    BY <1>4, <2>3 DEF ReadFails
  <2>4. CASE TestNext(q)
    BY <1>4, <2>4 DEF TestNext
  <2>5. CASE Header(q)
    BY <1>2, <1>3, <2>5 DEF Header
  <2>6. CASE Body(q)
    BY <1>2, <2>6 DEF Body
  <2> QED
    BY <1>7, <2>1, <2>2, <2>3, <2>4, <2>5, <2>6 DEF Answer
<1>8. CASE ClientGone(q)
  BY <1>2, <1>8 DEF ClientGone
<1> QED
  BY <1>5, <1>6, <1>7, <1>8 DEF Acts

(* A step that changes the place or the error of a request is one of its handlers. *)
LEMMA OwnStep ==
  ASSUME IInv, Next, NEW r \in Requests, pc'[r] # pc[r] \/ error'[r] # error[r]
  PROVE  Acts(r)
<1>1. ~ Tick /\ ~ IdleClosed
  BY DEF Tick, IdleClosed
<1>2. PICK q \in Requests : Acts(q)
  BY <1>1 DEF Next, Acts
<1> QED
  BY <1>2, OthersStay

LEMMA Asks ==
  ASSUME IInv, NEW r \in Requests, Acts(r), pc[r] = "get", pc'[r] = "open", ~ Single
  PROVE  GetRoundRobin(r)
<1>1. ~ Start(r) /\ ~ GetSingle(r)
  BY DEF Start, GetSingle
<1>2. ~ NoLive(r)
  BY DEF NoLive, Finalize, Waits, IInv, RequestsOK
<1>3. ~ OpenCached(r) /\ ~ Open(r) /\ ~ Refused(r) /\ ~ OpenFails(r)
  BY DEF OpenCached, Open, Refused, OpenFails, OpenNew
<1>4. ~ Answer(r) /\ ~ ClientGone(r)
  BY DEF Answer, Send, Timeout, ReadFails, TestNext, Header, Body, ClientGone, Event, Waiting
<1> QED
  BY <1>1, <1>2, <1>3, <1>4 DEF Acts, Handler

(* A candidate that has failed was asked long ago. *)
LEMMA AskedLongAgo ==
  ASSUME IInv, NEW r \in Requests, NEW isBackup \in BOOLEAN, NEW left, conf' = conf,
         fails' = fails, Candidates(r, isBackup) # {}, GetPeer(r, isBackup, left),
         Failed(peer'[r])
  PROVE  asked[peer'[r]] > FailTimeout
<1> DEFINE best == Best(Candidates(r, isBackup))
<1>1. best \in Candidates(r, isBackup)
  BY ChosenServers DEF IInv
<1>2. peer'[r] = best
  BY DEF GetPeer, IInv, RequestsOK
<1> HIDE DEF best
<1>3. best \in Peers /\ ~ Unavailable(best)
  <2>1. List(isBackup) \in SUBSET Peers
    BY Group DEF IInv, ServersOK
  <2> QED
    BY <1>1, <2>1 DEF Candidates
<1>4. ~ (checked[best] <= FailTimeout)
  BY <1>2, <1>3 DEF Unavailable
<1>5. /\ FailTimeout \in Nat /\ checked[best] \in 0..FailTimeout + 1
      /\ asked[best] \in 0..FailTimeout + 1 /\ checked[best] <= asked[best]
  BY <1>3, Group DEF IInv, ServersOK, LongAgo
<1> QED
  BY <1>2, <1>4, <1>5

LEMMA Probe ==
  ASSUME IInv, Next, NEW r \in Requests, pc[r] = "get", pc'[r] = "open", ~ Single,
         Failed(peer'[r])
  PROVE  asked[peer'[r]] > FailTimeout
<1>1. GetRoundRobin(r)
  BY OwnStep, Asks
<1>2. conf' = conf /\ fails' = fails /\ backup[r] \in BOOLEAN
  BY <1>1 DEF GetRoundRobin, IInv, RequestsOK
<1>3. CASE Candidates(r, backup[r]) # {} /\ GetPeer(r, backup[r], tries[r])
  BY <1>2, <1>3, AskedLongAgo
<1>4. CASE Candidates(r, TRUE) # {} /\ GetPeer(r, TRUE, conf.backup)
  BY <1>2, <1>4, AskedLongAgo
<1> QED
  BY <1>1, <1>3, <1>4 DEF GetRoundRobin

(* Where a request gets its error: there is no server for it, or one has failed. *)
LEMMA Errs ==
  ASSUME IInv, NEW r \in Requests, Acts(r), ~ error[r], error'[r]
  PROVE  \/ NoLive(r)
         \/ \E failure \in Failures : pc[r] \notin {"idle", "get"} /\ NextPeer(r, failure)
<1>1. error \in [Requests -> BOOLEAN]
  BY DEF IInv, RequestsOK
<1>2. ~ Finalize(r, FALSE) /\ error' # error
  BY <1>1 DEF Finalize
<1>3. ~ Start(r) /\ ~ ClientGone(r) /\ ~ Body(r) /\ ~ Header(r)
  BY <1>1, <1>2 DEF Start, ClientGone, Body, Header
<1>4. ~ GetSingle(r) /\ ~ GetRoundRobin(r) /\ ~ OpenCached(r) /\ ~ Open(r) /\ ~ OpenFails(r)
  BY <1>2 DEF GetSingle, GetRoundRobin, OpenCached, Open, OpenFails
<1>5. CASE Refused(r)
  BY <1>5 DEF Refused, OpenNew, Failures
<1>6. CASE Answer(r)
  <2> USE DEF Event, Waiting, Failures
  <2>1. CASE Send(r)
    BY <1>2, <2>1 DEF Send
  <2>2. CASE Timeout(r)
    BY <2>2 DEF Timeout
  <2>3. CASE ReadFails(r)
    BY <2>3 DEF ReadFails
  <2>4. CASE TestNext(r)
    BY <2>4 DEF TestNext
  <2> QED
    BY <1>3, <1>6, <2>1, <2>2, <2>3, <2>4 DEF Answer
<1> QED
  BY <1>3, <1>4, <1>5, <1>6 DEF Acts, Handler

(* No server is left in the list of the request, nor among the backup servers. *)
NoneLeft(r) ==
  /\ backup[r] \/ \A p \in List(TRUE) : Unavailable(p)
  /\ \A p \in List(backup[r]) : p \in tried[r] \/ Unavailable(p)

LEMMA Exhausted ==
  ASSUME IInv, NEW r \in Requests, Acts(r), ~ error[r], error'[r],
         NextUpstream = Failures, ~ Single
  PROVE  NoneLeft(r)
<1>1. CASE NoLive(r)
  <2>1. Candidates(r, backup[r]) = {} /\ Candidates(r, TRUE) = {}
    BY <1>1 DEF NoLive
  <2>2. \A p \in List(backup[r]) : p \in tried[r] \/ Unavailable(p)
    BY <2>1 DEF Candidates
  <2>3. backup[r] = FALSE => \A p \in List(TRUE) : Unavailable(p)
    BY <2>1 DEF Candidates
  <2> QED
    BY <2>2, <2>3 DEF NoneLeft, IInv, RequestsOK
<1>2. ASSUME NEW failure \in Failures, pc[r] \notin {"idle", "get"}, NextPeer(r, failure)
      PROVE  NoneLeft(r)
  <2> DEFINE left == TriesLeft(r) + (IF CostsNothing(r, failure) THEN 1 ELSE 0)
  <2>1. conf \in Configs /\ error \in [Requests -> BOOLEAN] /\ backup[r] \in BOOLEAN
    BY DEF IInv, ServersOK, RequestsOK
  <2>2. ~ Retries(r, failure, left) /\ Finalize(r, ~ gone[r])
    BY <1>2, <2>1 DEF NextPeer
  <2>3. ~ gone[r]
    BY <2>1, <2>2 DEF Finalize
  <2>4. ~ CostsNothing(r, failure) /\ ~ (left > 0)
    BY <1>2, <2>2, <2>3 DEF Retries
  <2>5. TriesLeft(r) \in 0..conf.primary + conf.backup - 1
        /\ TriesLeft(r) >= Cardinality(Untried(backup[r], tried[r]))
        /\ (~ backup[r] /\ conf.backup > 0 => TriesLeft(r) >= 1)
    BY <1>2, EnoughLeft
  <2>6. TriesLeft(r) = 0
    <3>1. TriesLeft(r) \in Nat
      <4>1. conf.primary \in Nat /\ conf.backup \in Nat
        BY <2>1, Group
      <4>2. PICK a \in Nat, b \in Nat : a = conf.primary /\ b = conf.backup
        BY <4>1
      <4>3. TriesLeft(r) \in 0..a + b - 1
        BY <2>5, <4>2
      <4> QED
        BY <4>3
    <3>2. left = TriesLeft(r)
      BY <2>4, <3>1
    <3> QED
      BY <2>4, <3>1, <3>2
  <2>7. IsFiniteSet(List(TRUE)) /\ IsFiniteSet(Untried(backup[r], tried[r]))
    <3>1. IsFiniteSet(List(backup[r])) /\ IsFiniteSet(List(TRUE))
      BY <2>1, Group, FS_Subset
    <3> QED
      BY <3>1, FS_Subset DEF Untried
  <2>8. Untried(backup[r], tried[r]) = {}
    <3>1. Cardinality(Untried(backup[r], tried[r])) \in Nat
      BY <2>7, FS_CardinalityType
    <3>2. Cardinality(Untried(backup[r], tried[r])) = 0
      BY <2>5, <2>6, <3>1
    <3> QED
      BY <2>7, <3>2, FS_EmptySet
  <2>9. backup[r] \/ List(TRUE) = {}
    <3>1. conf.backup \in Nat /\ Cardinality(List(TRUE)) = conf.backup
      BY <2>1, Group
    <3>2. backup[r] \/ conf.backup = 0
      BY <2>5, <2>6, <3>1
    <3> QED
      BY <2>7, <3>1, <3>2, FS_EmptySet
  <2> QED
    BY <2>8, <2>9 DEF NoneLeft, Untried
<1> QED
  BY <1>1, <1>2, Errs

(* A server that has failed as often as it may is asked by one request in fail_timeout,
   whatever the other requests do meanwhile: for any number of requests and servers. *)
THEOREM OneProbeHolds == SafetySpec => OneProbe
<1> DEFINE Probes(r) == pc[r] = "get" /\ pc'[r] = "open" /\ ~ Single /\ Failed(peer'[r])
                          => asked[peer'[r]] > FailTimeout
<1>1. IInv /\ [Next]_vars => [\A r \in Requests : Probes(r)]_vars
  BY Probe
<1>2. SafetySpec => [][\A r \in Requests : Probes(r)]_vars
  <2> HIDE DEF Probes
  <2>1. AInv => IInv
    BY DEF AInv
  <2> QED
    BY <1>1, <2>1, UpstreamInvariant, PTL DEF SafetySpec
<1> QED
  BY <1>2 DEF OneProbe

(* If every failure is to be retried, an error for the client means that no server is left:
   with any number of servers and backup servers, and any failures of idle connections. *)
THEOREM ExhaustiveHolds == SafetySpec => Exhaustive
<1> DEFINE Exhausts(r) == ~ error[r] /\ error'[r] /\ NextUpstream = Failures /\ ~ Single
                            => NoneLeft(r)
<1>1. IInv /\ [Next]_vars => [\A r \in Requests : Exhausts(r)]_vars
  <2> SUFFICES ASSUME IInv, Next, NEW r \in Requests, ~ error[r], error'[r],
                      NextUpstream = Failures, ~ Single
               PROVE  NoneLeft(r)
    OBVIOUS
  <2>1. Acts(r)
    BY OwnStep
  <2> QED
    BY <2>1, Exhausted
<1>2. SafetySpec => [][\A r \in Requests : Exhausts(r)]_vars
  <2> HIDE DEF Exhausts
  <2>1. AInv => IInv
    BY DEF AInv
  <2> QED
    BY <1>1, <2>1, UpstreamInvariant, PTL DEF SafetySpec
<1> QED
  BY <1>2 DEF Exhaustive, NoneLeft

-----------------------------------------------------------------------------
(* The response without buffering: it implements the byte stream, for responses, buffers
   and sockets of any size.  Every unit is delivered once and in its place, and "complete"
   is said only of what is complete. *)

CONSTANTS Responses, BufSize, Room
VARIABLES resp, srv, cli, u, rev, wev, at

P == INSTANCE Unbuffered WITH pc <- at

Count(n) == [i \in 1..n |-> i]

ResponseTypes ==
  /\ resp \in Responses
  /\ srv \in [sent : Nat, read : Nat, fin : BOOLEAN]
  /\ cli \in [got : Seq(Nat), room : 0..Room]
  /\ u \in [mem : Seq(Nat), unsent : Seq(Nat), length : Int]
  /\ rev \in [ready : BOOLEAN, eof : BOOLEAN, error : BOOLEAN, event : BOOLEAN]
  /\ wev \in [ready : BOOLEAN, event : BOOLEAN]
  /\ at \in {"write", "written", "read", "idle", "complete", "broken"}
  /\ srv.read <= srv.sent /\ srv.sent <= resp.total

(* What was read is what the client has and, behind it, what waits in the last places
   of the buffer, each unit in its place. *)
InBuffer(mem, unsent, got) ==
  /\ Len(unsent) <= Len(mem)
  /\ \A i \in 1..Len(unsent) :
       /\ unsent[i] = Len(mem) - Len(unsent) + i
       /\ mem[Len(mem) - Len(unsent) + i] = got + i

InOrder ==
  /\ cli.got = Count(Len(cli.got))
  /\ Len(cli.got) + Len(u.unsent) = srv.read
  /\ InBuffer(u.mem, u.unsent, Len(cli.got))

(* u->length is what is still to be read, negative if the server sent more than that.  At
   -1 it counts no more: there is no length, or more than it was read. *)
LengthFits(length, read) ==
  /\ length \in Int
  /\ resp.chunked => length \in {0, 1} /\ (length = 0 => read = resp.total)
  /\ ~resp.chunked /\ resp.length = -1 => length = -1
  /\ ~resp.chunked /\ resp.length # -1 =>
       length = resp.length - read \/ (length = -1 /\ read > resp.length)

LengthExact == LengthFits(u.length, srv.read)

(* The end of the server's stream is seen only when there is nothing left to read. *)
EndSeen == rev.eof => srv.fin /\ srv.read = srv.sent

ResponseOK == ResponseTypes /\ InOrder /\ LengthExact /\ EndSeen

-----------------------------------------------------------------------------
LEMMA SameMin ==
  ASSUME NEW S
  PROVE  P!Min(S) = Min(S)
BY DEF P!Min, Min

LEMMA MinOfTwo ==
  ASSUME NEW a \in Int, NEW b \in Int
  PROVE  Min({a, b}) = IF a <= b THEN a ELSE b
BY DEF Min

(* The elements of a sequence that is extended by the numbers behind k. *)
LEMMA ConcatBehind ==
  ASSUME NEW s \in Seq(Nat), NEW k \in Nat, NEW n \in Nat
  PROVE  /\ s \o P!Behind(k, n) \in Seq(Nat)
         /\ Len(s \o P!Behind(k, n)) = Len(s) + n
         /\ \A i \in 1..Len(s) : (s \o P!Behind(k, n))[i] = s[i]
         /\ \A i \in 1..n : (s \o P!Behind(k, n))[Len(s) + i] = k + i
BY DEF P!Behind

(* The units that follow a count continue it. *)
LEMMA CountOn ==
  ASSUME NEW g \in Nat, NEW n \in Nat
  PROVE  Count(g) \o P!Behind(g, n) = Count(g + n)
BY DEF Count, P!Behind

(* What is read is put behind what waits. *)
Grown(mem, unsent, got, read, n) ==
  /\ mem \o P!Behind(read, n) \in Seq(Nat)
  /\ unsent \o P!Behind(Len(mem), n) \in Seq(Nat)
  /\ Len(unsent \o P!Behind(Len(mem), n)) = Len(unsent) + n
  /\ InBuffer(mem \o P!Behind(read, n), unsent \o P!Behind(Len(mem), n), got)

LEMMA WaitingGrows ==
  ASSUME NEW mem \in Seq(Nat), NEW unsent \in Seq(Nat), NEW got \in Nat, NEW n \in Nat,
         NEW read \in Nat, read = got + Len(unsent),
         InBuffer(mem, unsent, got)
  PROVE  Grown(mem, unsent, got, read, n)
<1> DEFINE last == Len(mem)
           mem2 == mem \o P!Behind(read, n)
           unsent2 == unsent \o P!Behind(last, n)
<1>0. last \in Nat /\ Len(unsent) \in Nat
  OBVIOUS
<1> HIDE DEF last
<1>1. /\ mem2 \in Seq(Nat) /\ Len(mem2) = last + n
      /\ \A i \in 1..last : mem2[i] = mem[i]
      /\ \A i \in 1..n : mem2[last + i] = read + i
  BY ZenonT(60), ConcatBehind DEF last
<1>2. /\ unsent2 \in Seq(Nat) /\ Len(unsent2) = Len(unsent) + n
      /\ \A i \in 1..Len(unsent) : unsent2[i] = unsent[i]
      /\ \A i \in 1..n : unsent2[Len(unsent) + i] = last + i
  BY ZenonT(60), <1>0, ConcatBehind
<1> HIDE DEF mem2, unsent2
<1>3. Len(mem2) - Len(unsent2) = last - Len(unsent) /\ Len(unsent2) <= Len(mem2)
  BY <1>0, <1>1, <1>2 DEF InBuffer, last
<1>4. ASSUME NEW i \in 1..Len(unsent2)
      PROVE  /\ unsent2[i] = last - Len(unsent) + i
             /\ mem2[last - Len(unsent) + i] = got + i
  <2>1. CASE i \in 1..Len(unsent)
    <3>1. unsent2[i] = last - Len(unsent) + i /\ mem[last - Len(unsent) + i] = got + i
      BY <2>1, <1>2 DEF InBuffer, last
    <3>2. last - Len(unsent) + i \in 1..last
      BY <2>1, <1>0 DEF InBuffer, last
    <3> QED
      BY <3>1, <3>2, <1>1
  <2>2. CASE i \notin 1..Len(unsent)
    <3>1. PICK j \in 1..n : i = Len(unsent) + j
      <4>1. i - Len(unsent) \in 1..n /\ i = Len(unsent) + (i - Len(unsent))
        BY <2>2, <1>2
      <4> QED
        BY <4>1
    <3>2. last - Len(unsent) + i = last + j
      BY <3>1, <1>0
    <3>3. unsent2[i] = last + j /\ mem2[last + j] = read + j
      BY <3>1, <1>1, <1>2
    <3> QED
      BY <3>1, <3>2, <3>3
  <2> QED
    BY <2>1, <2>2
<1>5. InBuffer(mem2, unsent2, got)
  BY <1>3, <1>4 DEF InBuffer
<1> QED
  BY <1>1, <1>2, <1>5 DEF Grown, mem2, unsent2, last

LEMMA TailOf ==
  ASSUME NEW s \in Seq(Nat), NEW n \in 0..Len(s)
  PROVE  /\ SubSeq(s, n + 1, Len(s)) \in Seq(Nat)
         /\ Len(SubSeq(s, n + 1, Len(s))) = Len(s) - n
         /\ \A i \in 1..Len(s) - n : SubSeq(s, n + 1, Len(s))[i] = s[n + i]
OBVIOUS

(* What is sent is the first of what waits. *)
LEMMA WaitingShrinks ==
  ASSUME NEW mem \in Seq(Nat), NEW unsent \in Seq(Nat), NEW got \in Nat,
         NEW n \in 0..Len(unsent), NEW rest \in Seq(Nat),
         InBuffer(mem, unsent, got),
         Len(rest) = Len(unsent) - n,
         \A i \in 1..Len(unsent) - n : rest[i] = unsent[n + i]
  PROVE  /\ InBuffer(mem, rest, got + n)
         /\ \A i \in 1..n : mem[unsent[i]] = got + i
<1>1. ASSUME NEW i \in 1..Len(rest)
      PROVE  /\ rest[i] = Len(mem) - Len(rest) + i
             /\ mem[Len(mem) - Len(rest) + i] = (got + n) + i
  <2>1. n + i \in 1..Len(unsent) /\ Len(mem) - Len(rest) + i = Len(mem) - Len(unsent) + (n + i)
    OBVIOUS
  <2> QED
    BY SMTT(30), <2>1 DEF InBuffer
<1>2. ASSUME NEW i \in 1..n PROVE mem[unsent[i]] = got + i
  <2>1. i \in 1..Len(unsent)
    OBVIOUS
  <2> QED
    BY <2>1 DEF InBuffer
<1>3. Len(rest) <= Len(mem)
  BY DEF InBuffer
<1>4. InBuffer(mem, rest, got + n)
  BY <1>1, <1>3 DEF InBuffer
<1> QED
  BY <1>2, <1>4

(* What is sent goes on where the client's units end. *)
Rest(unsent, n) == SubSeq(unsent, n + 1, Len(unsent))
Sending(mem, unsent, n) == [i \in 1..n |-> mem[unsent[i]]]

LEMMA SentInOrder ==
  ASSUME NEW mem \in Seq(Nat), NEW unsent \in Seq(Nat), NEW g \in Nat,
         NEW n \in 0..Len(unsent), InBuffer(mem, unsent, g)
  PROVE  /\ Rest(unsent, n) \in Seq(Nat)
         /\ Len(Rest(unsent, n)) = Len(unsent) - n
         /\ InBuffer(mem, Rest(unsent, n), g + n)
         /\ Count(g) \o Sending(mem, unsent, n) = Count(g + n)
         /\ Count(g + n) \in Seq(Nat) /\ Len(Count(g + n)) = g + n
<1>1. n \in Nat
  OBVIOUS
<1>2. /\ Rest(unsent, n) \in Seq(Nat) /\ Len(Rest(unsent, n)) = Len(unsent) - n
      /\ \A i \in 1..Len(unsent) - n : Rest(unsent, n)[i] = unsent[n + i]
  BY DEF Rest
<1>3. InBuffer(mem, Rest(unsent, n), g + n) /\ \A i \in 1..n : mem[unsent[i]] = g + i
  BY <1>2, WaitingShrinks
<1>4. Sending(mem, unsent, n) = P!Behind(g, n)
  BY <1>3 DEF P!Behind, Sending
<1>5. Count(g) \o Sending(mem, unsent, n) = Count(g + n)
  BY <1>1, <1>4, CountOn
<1>6. Count(g + n) \in Seq(Nat) /\ Len(Count(g + n)) = g + n
  BY <1>1 DEF Count
<1> QED
  BY <1>2, <1>3, <1>5, <1>6

(* u->length after n more units. *)
LengthLeft(length, read, n) ==
  CASE resp.chunked -> IF read + n = resp.total THEN 0 ELSE 1
    [] ~resp.chunked /\ length = -1 -> -1
    [] OTHER -> length - n

LEMMA LengthAfter ==
  ASSUME P!UnbufferedAssumption, resp \in Responses,
         NEW read \in Nat, NEW n \in Nat, n > 0, read + n <= resp.total,
         NEW length, LengthFits(length, read)
  PROVE  LengthFits(LengthLeft(length, read, n), read + n)
<1>1. resp.total \in Nat /\ resp.length \in Nat \cup {-1} /\ resp.chunked \in BOOLEAN
  BY DEF P!UnbufferedAssumption
<1> QED
  BY <1>1 DEF LengthFits, LengthLeft

-----------------------------------------------------------------------------
(* The steps.  All but Write and Read leave what was read and sent as it is.      *)

LEMMA ResponseInit == P!UnbufferedAssumption /\ P!Init => ResponseOK
<1> SUFFICES ASSUME P!UnbufferedAssumption, P!Init PROVE ResponseOK
  OBVIOUS
<1>1. /\ resp.total \in Nat /\ resp.length \in Nat \cup {-1} /\ resp.chunked \in BOOLEAN
      /\ resp \in Responses /\ BufSize - 1 \in Nat /\ Room \in Nat
  BY DEF P!Init, P!UnbufferedAssumption
<1>2. PICK pre \in 0..Min({BufSize - 1, resp.total}) :
        LET length == IF resp.chunked THEN 1 ELSE resp.length
            header == [mem |-> <<0>>, unsent |-> <<>>, length |-> length]
        IN  /\ srv = [sent |-> pre, read |-> pre, fin |-> FALSE]
            /\ u = IF pre = 0 THEN [header EXCEPT !.mem = <<>>]
                   ELSE P!InputFilter(header, pre, 0)
            /\ at = IF pre > 0 \/ length = 0 THEN "write" ELSE "read"
  BY SameMin DEF P!Init
<1>3. pre \in Nat /\ pre <= resp.total
  <2>1. Min({BufSize - 1, resp.total}) =
          IF BufSize - 1 <= resp.total THEN BufSize - 1 ELSE resp.total
    BY <1>1, MinOfTwo
  <2> QED
    BY <1>1, <2>1
<1>e. /\ cli = [got |-> <<>>, room |-> Room]
      /\ rev = [ready |-> TRUE, eof |-> FALSE, error |-> FALSE, event |-> FALSE]
      /\ wev = [ready |-> TRUE, event |-> FALSE]
  BY DEF P!Init
<1>s. srv = [sent |-> pre, read |-> pre, fin |-> FALSE] /\ at \in {"write", "read"}
  BY <1>2
<1>g. /\ cli.got = Count(Len(cli.got)) /\ Len(cli.got) = 0
      /\ cli \in [got : Seq(Nat), room : 0..Room]
  BY <1>1, <1>e DEF Count
<1> DEFINE length == IF resp.chunked THEN 1 ELSE resp.length
<1>4. CASE pre = 0
  <2>1. u = [mem |-> <<>>, unsent |-> <<>>, length |-> length]
    BY <1>2, <1>4
  <2>2. InBuffer(<<>>, <<>>, 0)
    BY DEF InBuffer
  <2>3. u \in [mem : Seq(Nat), unsent : Seq(Nat), length : Int]
    BY <1>1, <2>1
  <2>4. ResponseTypes
    BY <1>1, <1>3, <1>e, <1>s, <1>g, <2>3 DEF ResponseTypes
  <2> QED
    BY <1>1, <1>4, <1>e, <1>s, <1>g, <2>1, <2>2, <2>4
    DEF ResponseOK, InOrder, LengthExact, LengthFits, EndSeen
<1>5. CASE pre > 0
  <2> DEFINE zero == 0
             head == <<zero>>
             none == <<>>
  <2>1. u.mem = head \o P!Behind(zero, pre) /\ u.unsent = none \o P!Behind(Len(head), pre)
    BY <1>2, <1>5 DEF P!InputFilter
  <2>2. u.length = LengthLeft(length, zero, pre)
    BY <1>2, <1>5 DEF P!InputFilter, LengthLeft
  <2>3. u = [mem |-> u.mem, unsent |-> u.unsent, length |-> u.length]
    BY <1>2, <1>5 DEF P!InputFilter
  <2>4. /\ head \in Seq(Nat) /\ none \in Seq(Nat) /\ Len(none) = 0
        /\ zero \in Nat /\ zero = zero + Len(none)
        /\ InBuffer(head, none, zero)
    BY DEF InBuffer
  <2>5. /\ u.mem \in Seq(Nat) /\ u.unsent \in Seq(Nat) /\ Len(u.unsent) = pre
        /\ InBuffer(u.mem, u.unsent, 0)
    <3> HIDE DEF head, none, zero
    <3>1. \A k \in Nat : Grown(head, none, zero, zero, k)
      BY <2>4, WaitingGrows
    <3> QED
      BY <1>3, <2>1, <2>4, <3>1 DEF Grown, zero
  <2>6. LengthFits(u.length, pre)
    <3>1. LengthFits(length, zero)
      BY <1>1 DEF LengthFits
    <3>2. zero + pre = pre /\ zero \in Nat /\ pre > 0 /\ zero + pre <= resp.total
      BY <1>3, <1>5
    <3> HIDE DEF length, zero
    <3> QED
      BY <1>1, <1>3, <2>2, <3>1, <3>2, LengthAfter
  <2>7. u \in [mem : Seq(Nat), unsent : Seq(Nat), length : Int]
    BY <2>3, <2>5, <2>6 DEF LengthFits
  <2>8. ResponseTypes
    BY <1>1, <1>3, <1>e, <1>s, <1>g, <2>7 DEF ResponseTypes
  <2> QED
    BY <1>1, <1>3, <1>e, <1>s, <1>g, <2>5, <2>6, <2>8
    DEF ResponseOK, InOrder, LengthExact, EndSeen
<1> QED
  BY <1>3, <1>4, <1>5

(* The state, field by field. *)
LEMMA Fields ==
  ASSUME ResponseTypes
  PROVE  \E mem \in Seq(Nat), unsent \in Seq(Nat), length \in Int, got \in Seq(Nat),
            room \in 0..Room, sent \in Nat, read \in Nat, fin \in BOOLEAN :
           /\ u = [mem |-> mem, unsent |-> unsent, length |-> length]
           /\ cli = [got |-> got, room |-> room]
           /\ srv = [sent |-> sent, read |-> read, fin |-> fin]
<1>1. u = [mem |-> u.mem, unsent |-> u.unsent, length |-> u.length]
  BY DEF ResponseTypes
<1>2. cli = [got |-> cli.got, room |-> cli.room]
  BY DEF ResponseTypes
<1>3. srv = [sent |-> srv.sent, read |-> srv.read, fin |-> srv.fin]
  BY DEF ResponseTypes
<1> QED
  BY <1>1, <1>2, <1>3 DEF ResponseTypes

(* A part of what waits is sent. *)
LEMMA WriteKeeps ==
  P!UnbufferedAssumption /\ ResponseOK /\ P!Write
    => ResponseOK' /\ [P!Stream!Next]_(P!Stream!vars)
<1> SUFFICES ASSUME P!UnbufferedAssumption, ResponseOK, P!Write
             PROVE  ResponseOK' /\ [P!Stream!Next]_(P!Stream!vars)
  OBVIOUS
<1>0. PICK mem \in Seq(Nat), unsent \in Seq(Nat), length \in Int, got \in Seq(Nat),
           room \in 0..Room, sent \in Nat, read \in Nat, fin \in BOOLEAN :
        /\ u = [mem |-> mem, unsent |-> unsent, length |-> length]
        /\ cli = [got |-> got, room |-> room]
        /\ srv = [sent |-> sent, read |-> read, fin |-> fin]
  BY Fields DEF ResponseOK
<1>1. /\ Room \in Nat /\ Len(got) \in Nat /\ Len(unsent) \in Nat /\ room \in Nat
      /\ read <= sent /\ sent <= resp.total /\ Len(got) + Len(unsent) = read
      /\ InBuffer(mem, unsent, Len(got)) /\ got = Count(Len(got))
      /\ UNCHANGED <<resp, srv, rev>> /\ at = "write" /\ at' = "written"
  BY SMTT(30), <1>0 DEF ResponseOK, ResponseTypes, InOrder, P!UnbufferedAssumption, P!Write
<1>2. PICK n \in 0..Len(unsent) :
        /\ n <= room
        /\ cli' = [got  |-> got \o [i \in 1..n |-> mem[unsent[i]]], room |-> room - n]
        /\ u' = [mem |-> mem, unsent |-> SubSeq(unsent, n + 1, Len(unsent)), length |-> length]
        /\ wev' \in [ready : BOOLEAN, event : BOOLEAN]
  <2> DEFINE n == IF wev.ready THEN Min({Len(unsent), room}) ELSE 0
  <2>1. Len(unsent) \in Int /\ room \in Int
    BY <1>1
  <2>2. Min({Len(unsent), room}) = IF Len(unsent) <= room THEN Len(unsent) ELSE room
    BY <2>1, MinOfTwo, Zenon
  <2>3. n \in 0..Len(unsent) /\ n <= room
    BY <1>1, <2>2
  <2>4. /\ cli' = [got  |-> got \o [i \in 1..n |-> mem[unsent[i]]], room |-> room - n]
        /\ u' = [mem |-> mem, unsent |-> SubSeq(unsent, n + 1, Len(unsent)),
                 length |-> length]
        /\ wev' = [wev EXCEPT !.ready = @ /\ n = Len(unsent)]
    BY <1>0, SameMin DEF P!Write
  <2> HIDE DEF n
  <2>5. wev' \in [ready : BOOLEAN, event : BOOLEAN]
    BY <2>4 DEF ResponseOK, ResponseTypes
  <2> QED
    BY <2>3, <2>4, <2>5
<1> DEFINE g == Len(got)
           rest == Rest(unsent, n)
           all == got \o Sending(mem, unsent, n)
<1>3. /\ rest \in Seq(Nat) /\ Len(rest) = Len(unsent) - n
      /\ InBuffer(mem, rest, g + n)
      /\ Count(g) \o Sending(mem, unsent, n) = Count(g + n)
      /\ Count(g + n) \in Seq(Nat) /\ Len(Count(g + n)) = g + n
  <2>1. g \in Nat /\ InBuffer(mem, unsent, g)
    BY <1>1
  <2> HIDE DEF g
  <2>2. ASSUME NEW k \in 0..Len(unsent)
        PROVE  /\ Rest(unsent, k) \in Seq(Nat)
               /\ Len(Rest(unsent, k)) = Len(unsent) - k
               /\ InBuffer(mem, Rest(unsent, k), g + k)
               /\ Count(g) \o Sending(mem, unsent, k) = Count(g + k)
               /\ Count(g + k) \in Seq(Nat) /\ Len(Count(g + k)) = g + k
    BY SMTT(30), <2>1, SentInOrder
  <2> QED
    BY <2>2
<1>4. /\ all = Count(g + n) /\ all \in Seq(Nat) /\ Len(all) = g + n
      /\ cli' = [got |-> all, room |-> room - n]
      /\ u' = [mem |-> mem, unsent |-> rest, length |-> length]
      /\ g \in Nat /\ n \in Nat /\ got = Count(g)
  <2>1. g \in Nat /\ n \in Nat /\ got = Count(g)
    BY <1>1
  <2>2. all = Count(g + n) /\ all \in Seq(Nat) /\ Len(all) = g + n
    BY <1>3, <2>1, Zenon
  <2>3. /\ cli' = [got |-> all, room |-> room - n]
        /\ u' = [mem |-> mem, unsent |-> rest, length |-> length]
    BY <1>2 DEF Rest, Sending
  <2> QED
    BY <2>1, <2>2, <2>3
<1>5. Len(all) + Len(rest) = read /\ g + n <= read /\ room - n \in 0..Room
  <2>1. Len(rest) = Len(unsent) - n /\ Len(all) = g + n /\ g + Len(unsent) = read
    BY <1>1, <1>3, <1>4
  <2>2. g \in Nat /\ n \in Nat /\ n <= Len(unsent) /\ n <= room
        /\ Len(unsent) \in Nat /\ room \in Nat /\ room <= Room /\ Room \in Nat
    BY <1>1, <1>2
  <2> HIDE DEF rest, all, g
  <2>3. Len(all) + Len(rest) = (g + n) + (Len(unsent) - n)
    BY <2>1, Zenon
  <2>4. (g + n) + (Len(unsent) - n) = g + Len(unsent) /\ g + n <= g + Len(unsent)
    BY <2>2
  <2>5. room - n \in 0..Room
    BY <2>2
  <2> QED
    BY <2>1, <2>3, <2>4, <2>5, Zenon
<1> HIDE DEF g, rest, all
<1>9. ResponseTypes'
  <2>1. u' \in [mem : Seq(Nat), unsent : Seq(Nat), length : Int]
    BY <1>3, <1>4
  <2>2. cli' \in [got : Seq(Nat), room : 0..Room]
    BY <1>4, <1>5
  <2> QED
    BY <1>1, <1>2, <2>1, <2>2 DEF ResponseOK, ResponseTypes
<1>10. InOrder'
  BY <1>0, <1>1, <1>3, <1>4, <1>5 DEF InOrder
<1>11. LengthExact' /\ EndSeen'
  BY <1>0, <1>1, <1>4 DEF ResponseOK, LengthExact, LengthFits, EndSeen
<1>12. [P!Stream!Next]_(P!Stream!vars)
  <2>1. CASE n = 0
    <3>1. all = got
      BY <1>4, <2>1
    <3> QED
      BY <1>0, <1>1, <1>4, <3>1 DEF P!Stream!vars
  <2>2. CASE n > 0
    <3>1. g + n \in g + 1..sent
      BY <1>1, <1>3, <1>4, <1>5, <2>2
    <3>2. all = [i \in 1..(g + n) |-> i]
      BY <1>4 DEF Count
    <3>3. P!Stream!Deliver
      BY <1>0, <1>1, <1>4, <3>1, <3>2 DEF P!Stream!Deliver, g
    <3> QED
      BY <3>3 DEF P!Stream!Next
  <2> QED
    BY <1>2, <2>1, <2>2
<1> QED
  BY <1>9, <1>10, <1>11, <1>12 DEF ResponseOK

(* What is read is put behind what waits. *)
LEMMA ReadKeeps ==
  P!UnbufferedAssumption /\ ResponseOK /\ P!Read => ResponseOK' /\ UNCHANGED P!Stream!vars
<1> SUFFICES ASSUME P!UnbufferedAssumption, ResponseOK, P!Read
             PROVE  ResponseOK' /\ UNCHANGED P!Stream!vars
  OBVIOUS
<1>0. PICK mem \in Seq(Nat), unsent \in Seq(Nat), length \in Int, got \in Seq(Nat),
           room \in 0..Room, sent \in Nat, read \in Nat, fin \in BOOLEAN :
        /\ u = [mem |-> mem, unsent |-> unsent, length |-> length]
        /\ cli = [got |-> got, room |-> room]
        /\ srv = [sent |-> sent, read |-> read, fin |-> fin]
  BY Fields DEF ResponseOK
<1>a. /\ resp.total \in Nat /\ BufSize \in Nat /\ resp \in Responses
      /\ Len(mem) \in Nat /\ Len(got) \in Nat /\ Len(unsent) \in Nat
      /\ read <= sent /\ sent <= resp.total
      /\ read = Len(got) + Len(unsent) /\ InBuffer(mem, unsent, Len(got))
      /\ UNCHANGED <<resp, cli, wev>> /\ at = "read"
  BY <1>0 DEF P!Read, ResponseOK, ResponseTypes, InOrder, P!UnbufferedAssumption
<1>1. CASE UNCHANGED <<srv, u, rev>> /\ at' = "idle"
  BY <1>1, <1>a
  DEF ResponseOK, ResponseTypes, InOrder, LengthExact, LengthFits, EndSeen, P!Stream!vars
<1>2. CASE /\ srv.read = srv.sent
           /\ rev' = [rev EXCEPT !.ready = FALSE, !.eof = srv.fin]
           /\ at' = IF srv.fin THEN "write" ELSE "idle"
           /\ UNCHANGED <<srv, u>>
  BY <1>2, <1>a
  DEF ResponseOK, ResponseTypes, InOrder, LengthExact, LengthFits, EndSeen, P!Stream!vars
<1>3. ASSUME NEW n,
             n \in 1..Min({BufSize - Len(mem), sent - read}),
             u' = P!InputFilter(u, n, srv.read),
             srv' = [srv EXCEPT !.read = @ + n],
             at' = "write", UNCHANGED rev
      PROVE  ResponseOK' /\ UNCHANGED P!Stream!vars
  <2>1. n \in Nat /\ n > 0 /\ read + n <= sent /\ read + n <= resp.total
    <3>0. BufSize - Len(mem) \in Int /\ sent - read \in Int
      BY <1>a
    <3>1. Min({BufSize - Len(mem), sent - read}) =
            IF BufSize - Len(mem) <= sent - read THEN BufSize - Len(mem) ELSE sent - read
      BY <3>0, MinOfTwo, Zenon
    <3> DEFINE m == Min({BufSize - Len(mem), sent - read})
    <3>2. m \in Int /\ m <= sent - read
      BY <3>0, <3>1
    <3>3. n \in 1..m
      BY <1>3
    <3> HIDE DEF m
    <3> QED
      BY <1>a, <3>2, <3>3
  <2> DEFINE mem2 == mem \o P!Behind(read, n)
             unsent2 == unsent \o P!Behind(Len(mem), n)
             length2 == LengthLeft(length, read, n)
  <2>2. /\ srv' = [sent |-> sent, read |-> read + n, fin |-> fin]
        /\ u' = [mem |-> mem2, unsent |-> unsent2, length |-> length2]
    BY <1>0, <1>3 DEF P!InputFilter, LengthLeft
  <2>3. /\ mem2 \in Seq(Nat) /\ unsent2 \in Seq(Nat)
        /\ Len(unsent2) = Len(unsent) + n
        /\ InBuffer(mem2, unsent2, Len(got))
    <3> DEFINE g == Len(got)
    <3>0. g \in Nat /\ read = g + Len(unsent) /\ InBuffer(mem, unsent, g)
      BY <1>a
    <3> HIDE DEF g
    <3>1. \A k \in Nat : Grown(mem, unsent, g, read, k)
      BY <3>0, WaitingGrows
    <3> QED
      BY <2>1, <3>1 DEF Grown, g
  <2>4. LengthFits(length2, read + n)
    <3>1. LengthFits(length, read)
      BY <1>0 DEF ResponseOK, LengthExact
    <3> HIDE DEF mem2, unsent2
    <3>2. \A k \in Nat : k > 0 /\ read + k <= resp.total =>
                           LengthFits(LengthLeft(length, read, k), read + k)
      BY <1>a, <3>1, LengthAfter
    <3> QED
      BY <2>1, <3>2
  <2> HIDE DEF mem2, unsent2, length2
  <2>5. ResponseTypes'
    <3>1. u' \in [mem : Seq(Nat), unsent : Seq(Nat), length : Int]
      BY <2>2, <2>3, <2>4 DEF LengthFits
    <3>2. /\ srv' \in [sent : Nat, read : Nat, fin : BOOLEAN]
          /\ srv'.read <= srv'.sent /\ srv'.sent <= resp.total
      BY <1>a, <2>1, <2>2
    <3> QED
      BY <1>3, <1>a, <3>1, <3>2 DEF ResponseOK, ResponseTypes
  <2>6. InOrder'
    <3>1. Len(got) + Len(unsent2) = read + n
      BY <1>a, <2>1, <2>3
    <3>2. got = Count(Len(got))
      BY <1>0 DEF ResponseOK, InOrder
    <3> QED
      BY <1>0, <1>a, <2>2, <2>3, <3>1, <3>2 DEF InOrder
  <2>7. LengthExact'
    BY <1>a, <2>2, <2>4 DEF LengthExact, LengthFits
  <2>8. EndSeen'
    <3>1. ~rev.eof
      BY <1>0, <1>a, <2>1 DEF ResponseOK, EndSeen
    <3> QED
      BY <1>3, <3>1 DEF EndSeen
  <2>9. UNCHANGED P!Stream!vars
    BY <1>0, <1>3, <1>a, <2>2 DEF P!Stream!vars
  <2> QED
    BY <2>5, <2>6, <2>7, <2>8, <2>9 DEF ResponseOK
<1> QED
  <2>1. \/ UNCHANGED <<srv, u, rev>> /\ at' = "idle"
        \/ /\ srv.read = srv.sent
           /\ rev' = [rev EXCEPT !.ready = FALSE, !.eof = srv.fin]
           /\ at' = IF srv.fin THEN "write" ELSE "idle"
           /\ UNCHANGED <<srv, u>>
        \/ \E n \in 1..Min({BufSize - Len(mem), sent - read}) :
             /\ u' = P!InputFilter(u, n, srv.read)
             /\ srv' = [srv EXCEPT !.read = @ + n]
             /\ at' = "write" /\ UNCHANGED rev
    BY <1>0, SameMin DEF P!Read
  <2> QED
    BY <1>1, <1>2, <1>3, <2>1

(* A step that leaves the buffer, what was read and what was sent as they are keeps what
   is said of them. *)
LEMMA KeepsOrder ==
  ResponseOK /\ UNCHANGED <<resp, u, cli.got, srv.read>> => InOrder' /\ LengthExact'
BY DEF ResponseOK, InOrder, LengthExact, LengthFits

(* The end of the request: "complete" only if the client has everything. *)
LEMMA WrittenKeeps ==
  P!UnbufferedAssumption /\ ResponseOK /\ P!Written
    => ResponseOK' /\ [P!Stream!Next]_(P!Stream!vars)
<1> SUFFICES ASSUME P!UnbufferedAssumption, ResponseOK, P!Written
             PROVE  ResponseOK' /\ [P!Stream!Next]_(P!Stream!vars)
  OBVIOUS
<1>0. /\ at = "written" /\ UNCHANGED <<resp, srv, cli, rev, wev>>
      /\ resp.total \in Nat /\ resp.length \in Nat \cup {-1} /\ resp.chunked \in BOOLEAN
  BY DEF P!Written, ResponseOK, ResponseTypes, P!UnbufferedAssumption
<1>1. EndSeen'
  BY <1>0 DEF ResponseOK, EndSeen
<1>2. CASE u.unsent # <<>> /\ at' = "read" /\ UNCHANGED u
  <2>1. ResponseTypes'
    BY <1>0, <1>2 DEF ResponseOK, ResponseTypes
  <2>2. UNCHANGED P!Stream!vars
    BY <1>0, <1>2 DEF P!Stream!vars
  <2> QED
    BY <1>0, <1>1, <1>2, <2>1, <2>2, KeepsOrder DEF ResponseOK
<1>3. CASE /\ u.unsent = <<>> /\ (u.length = 0 \/ (rev.eof /\ u.length = -1))
           /\ at' = "complete" /\ UNCHANGED u
  <2>1. ResponseTypes'
    BY <1>0, <1>3 DEF ResponseOK, ResponseTypes
  <2>2. Len(cli.got) = srv.read
    BY <1>3 DEF ResponseOK, ResponseTypes, InOrder
  <2>3. \/ Len(cli.got) = srv.sent /\ (srv.fin \/ srv.sent = resp.total)
        \/ Len(cli.got) = IF resp.chunked THEN -1 ELSE resp.length
    <3>1. srv.read \in Nat /\ srv.sent \in Nat /\ srv.read <= srv.sent
          /\ srv.sent <= resp.total
      BY DEF ResponseOK, ResponseTypes
    <3>2. CASE u.length = 0
      BY <1>0, <2>2, <3>1, <3>2 DEF ResponseOK, LengthExact, LengthFits
    <3>3. CASE rev.eof
      BY <2>2, <3>3 DEF ResponseOK, EndSeen
    <3> QED
      BY <1>3, <3>2, <3>3
  <2>4. P!Stream!End
    BY <1>0, <1>3, <2>3 DEF P!Stream!End
  <2> QED
    BY <1>0, <1>1, <1>3, <2>1, <2>4, KeepsOrder DEF ResponseOK, P!Stream!Next
<1>4. CASE at' = "broken" /\ UNCHANGED u
  <2>1. ResponseTypes'
    BY <1>0, <1>4 DEF ResponseOK, ResponseTypes
  <2>2. P!Stream!End
    BY <1>0, <1>4 DEF P!Stream!End
  <2> QED
    BY <1>0, <1>1, <1>4, <2>1, <2>2, KeepsOrder DEF ResponseOK, P!Stream!Next
<1>5. CASE u.unsent = <<>> /\ at' = "read" /\ u' = [u EXCEPT !.mem = <<>>]
  <2>1. u' = [mem |-> <<>>, unsent |-> <<>>, length |-> u.length]
    BY <1>5 DEF ResponseOK, ResponseTypes
  <2>2. ResponseTypes'
    BY <1>0, <1>5, <2>1 DEF ResponseOK, ResponseTypes
  <2>3. LengthExact'
    BY <1>0, <2>1 DEF ResponseOK, LengthExact, LengthFits
  <2>4. InOrder'
    BY <1>0, <1>5, <2>1 DEF ResponseOK, InOrder, InBuffer
  <2>5. UNCHANGED P!Stream!vars
    BY <1>0, <1>5 DEF P!Stream!vars
  <2> QED
    BY <1>1, <2>2, <2>3, <2>4, <2>5 DEF ResponseOK
<1> QED
  BY <1>2, <1>3, <1>4, <1>5 DEF P!Written

(* What is neither Write nor Read nor Written. *)
LEMMA OtherKeeps ==
  ASSUME P!UnbufferedAssumption, ResponseOK,
         \/ P!ReadEvent \/ P!WriteEvent \/ P!ReadError \/ P!WriteError \/ P!Timeout
         \/ P!ServerSends \/ P!ServerCloses \/ P!ClientReads
  PROVE  ResponseOK' /\ [P!Stream!Next]_(P!Stream!vars)
<1>1. CASE P!ReadEvent \/ P!WriteEvent \/ P!ReadError
  <2>1. UNCHANGED <<resp, srv, cli, u>>
    BY <1>1 DEF P!ReadEvent, P!WriteEvent, P!ReadError
  <2>2. /\ rev' \in [ready : BOOLEAN, eof : BOOLEAN, error : BOOLEAN, event : BOOLEAN]
        /\ rev'.eof = rev.eof
    BY <1>1 DEF P!ReadEvent, P!WriteEvent, P!ReadError, ResponseOK, ResponseTypes
  <2>4. wev' \in [ready : BOOLEAN, event : BOOLEAN]
    <3>1. wev' = wev \/ wev' = [ready |-> TRUE, event |-> FALSE]
      BY <1>1 DEF P!ReadEvent, P!WriteEvent, P!ReadError
    <3>2. CASE wev' = wev
      BY <3>2 DEF ResponseOK, ResponseTypes
    <3>3. CASE wev' = [ready |-> TRUE, event |-> FALSE]
      BY <3>3
    <3> QED
      BY <3>1, <3>2, <3>3
  <2>5. at' \in {"write", "read"}
    BY <1>1 DEF P!ReadEvent, P!WriteEvent, P!ReadError
  <2>6. ResponseTypes' /\ EndSeen'
    BY <2>1, <2>2, <2>4, <2>5 DEF ResponseOK, ResponseTypes, EndSeen
  <2>3. UNCHANGED P!Stream!vars
    BY <1>1, <2>1 DEF P!ReadEvent, P!WriteEvent, P!ReadError, P!Stream!vars
  <2> QED
    BY <2>1, <2>3, <2>6, KeepsOrder DEF ResponseOK
<1>2. CASE P!WriteError \/ P!Timeout
  <2>1. UNCHANGED <<resp, srv, cli, u, rev, wev>> /\ at' = "broken"
    BY <1>2 DEF P!WriteError, P!Timeout
  <2>2. ResponseTypes' /\ EndSeen'
    BY <2>1 DEF ResponseOK, ResponseTypes, EndSeen
  <2>3. P!Stream!End
    BY <1>2, <2>1 DEF P!WriteError, P!Timeout, P!Stream!End
  <2> QED
    BY <2>1, <2>2, <2>3, KeepsOrder DEF ResponseOK, P!Stream!Next
<1>3. CASE P!ServerSends \/ P!ServerCloses
  <2>1. /\ ~srv.fin /\ UNCHANGED <<resp, cli, u, wev, at>>
        /\ rev' = [rev EXCEPT !.event = TRUE]
        /\ \/ srv' = [srv EXCEPT !.sent = @ + 1] /\ srv.sent < resp.total
           \/ srv' = [srv EXCEPT !.fin = TRUE]
    BY <1>3 DEF P!ServerSends, P!ServerCloses
  <2>2. resp.total \in Nat
    BY DEF ResponseOK, ResponseTypes, P!UnbufferedAssumption
  <2>5. /\ rev' \in [ready : BOOLEAN, eof : BOOLEAN, error : BOOLEAN, event : BOOLEAN]
        /\ rev'.eof = rev.eof /\ ~rev.eof
    BY <2>1 DEF ResponseOK, ResponseTypes, EndSeen
  <2>6. /\ srv' \in [sent : Nat, read : Nat, fin : BOOLEAN]
        /\ srv'.read = srv.read /\ srv'.read <= srv'.sent /\ srv'.sent <= resp.total
    <3>1. CASE srv' = [srv EXCEPT !.sent = @ + 1] /\ srv.sent < resp.total
      <4>1. srv' = [sent |-> srv.sent + 1, read |-> srv.read, fin |-> srv.fin]
        BY <3>1 DEF ResponseOK, ResponseTypes
      <4>2. srv.sent + 1 \in Nat /\ srv.read <= srv.sent + 1 /\ srv.sent + 1 <= resp.total
        BY <2>2, <3>1 DEF ResponseOK, ResponseTypes
      <4> QED
        BY <2>2, <4>1, <4>2 DEF ResponseOK, ResponseTypes
    <3>2. CASE srv' = [srv EXCEPT !.fin = TRUE]
      BY <2>2, <3>2 DEF ResponseOK, ResponseTypes
    <3> QED
      BY <2>1, <3>1, <3>2
  <2>3. ResponseTypes' /\ EndSeen' /\ srv'.read = srv.read
    <3>1. ResponseTypes'
      BY <2>1, <2>5, <2>6 DEF ResponseOK, ResponseTypes
    <3>2. EndSeen'
      BY <2>5 DEF EndSeen
    <3> QED
      BY <2>6, <3>1, <3>2
  <2>4. P!Stream!Produce
    <3>1. srv'.sent \in srv.sent..resp.total
      <4>1. CASE srv' = [srv EXCEPT !.sent = @ + 1] /\ srv.sent < resp.total
        BY <2>2, <4>1 DEF ResponseOK, ResponseTypes
      <4>2. CASE srv' = [srv EXCEPT !.fin = TRUE]
        BY <2>2, <4>2 DEF ResponseOK, ResponseTypes
      <4> QED
        BY <2>1, <4>1, <4>2
    <3>2. srv'.fin \in BOOLEAN
      BY <2>6
    <3> QED
      BY <2>1, <3>1, <3>2 DEF P!Stream!Produce
  <2> QED
    BY <2>1, <2>3, <2>4, KeepsOrder DEF ResponseOK, P!Stream!Next
<1>4. CASE P!ClientReads
  <2>0. cli' = [cli EXCEPT !.room = @ + 1] /\ cli.room < Room
    BY <1>4 DEF P!ClientReads
  <2>1. UNCHANGED <<resp, srv, u, rev, at, cli.got>>
    <3>1. UNCHANGED <<resp, srv, u, rev, at>>
      BY <1>4 DEF P!ClientReads
    <3>2. cli'.got = cli.got
      BY <2>0 DEF ResponseOK, ResponseTypes
    <3> QED
      BY <3>1, <3>2
  <2>4. cli' \in [got : Seq(Nat), room : 0..Room]
    <3>1. cli' = [got |-> cli.got, room |-> cli.room + 1]
      BY <2>0 DEF ResponseOK, ResponseTypes
    <3>2. cli.got \in Seq(Nat) /\ cli.room + 1 \in 0..Room
      BY <2>0 DEF ResponseOK, ResponseTypes, P!UnbufferedAssumption
    <3> QED
      BY <3>1, <3>2
  <2>5. wev' \in [ready : BOOLEAN, event : BOOLEAN]
    BY <1>4 DEF P!ClientReads, ResponseOK, ResponseTypes
  <2>2. ResponseTypes' /\ EndSeen'
    BY <2>1, <2>4, <2>5 DEF ResponseOK, ResponseTypes, EndSeen
  <2>3. UNCHANGED P!Stream!vars
    BY <2>1 DEF P!Stream!vars
  <2> QED
    BY <2>1, <2>2, <2>3, KeepsOrder DEF ResponseOK
<1> QED
  BY <1>1, <1>2, <1>3, <1>4

-----------------------------------------------------------------------------
(* For every set of responses, of servers that send what they announce, less or more,
   every size of the buffer and of the client's socket, and every interleaving of reads,
   writes, events, errors and timers: the client gets the units of the response in their
   order, none twice and none left out, though the buffer is used again, and the request
   is "complete" only if all that the server sent was delivered and the server had nothing
   more to send, or if exactly the announced length was delivered
   (..._process_non_buffered_request()).  This is the safety part of the property
   EveryResponse for the part "plain". *)
THEOREM UnbufferedImplementsStream ==
  ASSUME P!UnbufferedAssumption
  PROVE  P!SafetySpec => P!Stream!SafetySpec
<1>1. P!Init => ResponseOK
  BY ResponseInit
<1>2. P!Init => P!Stream!Init
  <2> SUFFICES ASSUME P!Init PROVE P!Stream!Init
    OBVIOUS
  <2>1. /\ ResponseTypes /\ cli.got = <<>> /\ srv.fin = FALSE /\ at \in {"write", "read"}
    <3>1. at \in {"write", "read"}
      BY DEF P!Init
    <3>2. cli = [got |-> <<>>, room |-> Room] /\ srv.fin = FALSE
      BY DEF P!Init
    <3> QED
      BY <1>1, <3>1, <3>2 DEF ResponseOK
  <2>2. resp.total \in Nat /\ (IF resp.chunked THEN -1 ELSE resp.length) \in Nat \cup {-1}
    BY DEF P!Init, P!UnbufferedAssumption
  <2>3. srv.sent \in 0..resp.total
    BY <2>1, <2>2 DEF ResponseTypes
  <2>4. at \notin {"complete", "broken"}
    BY <2>1
  <2> QED
    BY <2>1, <2>2, <2>3, <2>4 DEF P!Stream!Init
<1>3. ResponseOK /\ [P!Next]_(P!vars) => ResponseOK' /\ [P!Stream!Next]_(P!Stream!vars)
  <2>1. CASE P!Next
    BY <2>1, WriteKeeps, WrittenKeeps, ReadKeeps, OtherKeeps DEF P!Next, P!Worker
  <2>2. CASE UNCHANGED P!vars
    BY <2>2
    DEF P!vars, ResponseOK, ResponseTypes, InOrder, LengthExact, LengthFits, EndSeen, P!Stream!vars
  <2> QED
    BY <2>1, <2>2
<1> QED
  BY <1>1, <1>2, <1>3, PTL DEF P!SafetySpec, P!Stream!SafetySpec
=============================================================================
