------------------------------ MODULE SharedLemmas ------------------------------
(***************************************************************************)
(* Facts that the proofs of several modules use: induction, sums over      *)
(* finite sets, and the queue of a lock.                                   *)
(*                                                                         *)
(* An induction is stated here for a set where the library states it for a *)
(* predicate, which the provers cannot instantiate: it is about the set of *)
(* those for which what is to be shown holds.                              *)
(***************************************************************************)
EXTENDS TokioMutex, Integers, Functions, FiniteSetTheorems, SequenceTheorems, TLAPS

(* A non-empty set of naturals has a least element. *)
LEMMA LeastNumber ==
    ASSUME NEW T \in SUBSET Nat, T # {}
    PROVE  \E x \in T : \A y \in T : x <= y
<1> DEFINE R == OpToRel(<, Nat)
<1>1. IsWellFoundedOn(R, Nat)
  BY NatLessThanWellFounded
<1>2. \A x, y \in Nat : x < y => <<x, y>> \in R
  BY DEF OpToRel
<1> HIDE DEF R
<1>3. PICK x \in T : \A y \in T : ~ (<<y, x>> \in R)
  BY <1>1, WFMin
<1>4. ASSUME NEW y \in T PROVE x <= y
  <2>1. x \in Nat /\ y \in Nat /\ ~ (<<y, x>> \in R)
    BY <1>3
  <2>2. ~ (y < x)
    BY <1>2, <2>1
  <2> QED
    BY <2>1, <2>2
<1> QED
  BY <1>4

(* Induction over the naturals, for a set instead of a predicate. *)
LEMMA NaturalsBySteps ==
    ASSUME NEW T, 0 \in T, \A n \in Nat : n \in T => n + 1 \in T
    PROVE  Nat \subseteq T
<1> DEFINE out == {n \in Nat : n \notin T}
<1> SUFFICES ASSUME out # {} PROVE FALSE
  OBVIOUS
<1>1. PICK n \in out : \A m \in out : n <= m
  BY LeastNumber
<1>2. n \in Nat /\ n # 0
  BY <1>1
<1>3. n - 1 \in Nat /\ ~ (n <= n - 1) /\ (n - 1) + 1 = n
  BY <1>2
<1>4. n - 1 \in T
  BY <1>1, <1>3
<1> QED
  BY <1>1, <1>3, <1>4

(* A collection of finite sets that is not empty has one of which it has no
   proper subset. *)
LEMMA SmallestSet ==
    ASSUME NEW D, IsFiniteSet(D), NEW T \in SUBSET SUBSET D, T # {}
    PROVE  \E s \in T : \A t \in T : t \subseteq s => t = s
<1> DEFINE R == StrictSubsetOrdering(D)
<1>1. IsWellFoundedOn(R, SUBSET D)
  BY FS_StrictSubsetOrderingWellFounded, FS_FiniteSubsetsOfFinite
<1>2. \A s, t \in SUBSET D : t \subseteq s /\ t # s => <<t, s>> \in R
  BY DEF StrictSubsetOrdering
<1> HIDE DEF R
<1>3. PICK s \in T : \A t \in T : ~ (<<t, s>> \in R)
  BY <1>1, WFMin
<1> QED
  BY <1>2, <1>3

(* Induction over a finite set, for a set of sets instead of a predicate. *)
LEMMA FiniteBySteps ==
    ASSUME NEW D, IsFiniteSet(D), NEW T, {} \in T,
           \A s \in SUBSET D : \A x \in D : s \in T /\ x \notin s => s \cup {x} \in T
    PROVE  SUBSET D \subseteq T
<1> DEFINE out == {s \in SUBSET D : s \notin T}
<1> SUFFICES ASSUME out # {} PROVE FALSE
  OBVIOUS
<1>a. out \in SUBSET SUBSET D
  OBVIOUS
<1>1. PICK s \in out : \A t \in out : t \subseteq s => t = s
  <2> HIDE DEF out
  <2> QED
    BY <1>a, SmallestSet
<1>2. PICK x \in s : TRUE
  BY <1>1
<1>3. s \ {x} \in SUBSET D /\ s \ {x} \notin out /\ x \in D
  BY <1>1, <1>2
<1>4. (s \ {x}) \cup {x} = s
  BY <1>2
<1> QED
  BY <1>1, <1>3, <1>4

-------------------------------------------------------------------------------
(* Sums of the values of a function over a finite set.  Sums(g, f, D) says that g
   has them for all subsets of D, by the equation that defines SumFunctionOnSet. *)
Pick(s) == CHOOSE x \in s : TRUE

Sums(g, f, D) == g = [s \in SUBSET D |-> IF s = {} THEN 0 ELSE f[Pick(s)] + g[s \ {Pick(s)}]]

LEMMA PickIn == ASSUME NEW s, s # {} PROVE Pick(s) \in s
BY DEF Pick

LEMMA SumsUnique ==
    ASSUME NEW f, NEW D, IsFiniteSet(D), NEW g, NEW h, Sums(g, f, D), Sums(h, f, D)
    PROVE  \A s \in SUBSET D : g[s] = h[s]
<1> DEFINE out == {s \in SUBSET D : g[s] # h[s]}
<1> SUFFICES ASSUME out # {} PROVE FALSE
  OBVIOUS
<1>a. out \in SUBSET SUBSET D
  OBVIOUS
<1>1. PICK s \in out : \A t \in out : t \subseteq s => t = s
  <2> HIDE DEF out
  <2> QED
    BY <1>a, SmallestSet
<1>2. g[s] = IF s = {} THEN 0 ELSE f[Pick(s)] + g[s \ {Pick(s)}]
  BY <1>1 DEF Sums
<1>3. h[s] = IF s = {} THEN 0 ELSE f[Pick(s)] + h[s \ {Pick(s)}]
  BY <1>1 DEF Sums
<1>4. s # {}
  BY <1>1, <1>2, <1>3
<1>5. s \ {Pick(s)} \in SUBSET D /\ s \ {Pick(s)} \notin out
  BY <1>1, <1>4, PickIn
<1> QED
  BY <1>1, <1>2, <1>3, <1>4, <1>5

LEMMA SumsOfSubset ==
    ASSUME NEW f, NEW D, NEW g, Sums(g, f, D), NEW E \in SUBSET D
    PROVE  Sums([s \in SUBSET E |-> g[s]], f, E)
<1> DEFINE h == [s \in SUBSET E |-> g[s]]
<1>1. ASSUME NEW s \in SUBSET E
      PROVE  h[s] = IF s = {} THEN 0 ELSE f[Pick(s)] + h[s \ {Pick(s)}]
  <2>1. g[s] = IF s = {} THEN 0 ELSE f[Pick(s)] + g[s \ {Pick(s)}]
    BY DEF Sums
  <2> QED
    BY <2>1
<1>2. h = [s \in SUBSET E |-> IF s = {} THEN 0 ELSE f[Pick(s)] + h[s \ {Pick(s)}]]
  BY <1>1
<1> QED
  BY <1>2 DEF Sums

Whole(f, D) == (CHOOSE g : Sums(g, f, D))[D]

LEMMA WholeIsSum ==
    ASSUME NEW f, NEW D PROVE SumFunctionOnSet(f, D) = Whole(f, D)
BY DEF SumFunctionOnSet, FoldFunctionOnSet, MapThenFoldSet, Whole, Sums, Pick

LEMMA WholeStep ==
    ASSUME NEW f, NEW D, IsFiniteSet(D), D # {},
           \E g : Sums(g, f, D), \E g : Sums(g, f, D \ {Pick(D)})
    PROVE  Whole(f, D) = f[Pick(D)] + Whole(f, D \ {Pick(D)})
<1> DEFINE E == D \ {Pick(D)}
           g == CHOOSE g : Sums(g, f, D)
           h == CHOOSE h : Sums(h, f, E)
           r == [s \in SUBSET E |-> g[s]]
<1>1. Sums(g, f, D) /\ Sums(h, f, E)
  OBVIOUS
<1>2. IsFiniteSet(E) /\ E \in SUBSET D
  BY FS_RemoveElement
<1> HIDE DEF g, h, E
<1>3. Sums(r, f, E)
  BY <1>1, <1>2, SumsOfSubset
<1> HIDE DEF r
<1>4. r[E] = h[E]
  BY <1>1, <1>2, <1>3, SumsUnique
<1>5. r[E] = g[E]
  BY DEF r
<1>6. g[D] = f[Pick(D)] + g[E]
  BY <1>1 DEF Sums, E
<1> QED
  BY <1>4, <1>5, <1>6 DEF Whole, g, h, E

LEMMA SumsExist ==
    ASSUME NEW f, NEW D, IsFiniteSet(D)
    PROVE  \A s \in SUBSET D : \E g : Sums(g, f, s)
<1> DEFINE out == {s \in SUBSET D : ~ \E g : Sums(g, f, s)}
<1> SUFFICES ASSUME out # {} PROVE FALSE
  OBVIOUS
<1>a. out \in SUBSET SUBSET D
  OBVIOUS
<1>b. \A t \in SUBSET D : t \in out <=> ~ \E g : Sums(g, f, t)
  OBVIOUS
<1> HIDE DEF out
<1>1. PICK s \in out : \A t \in out : t \subseteq s => t = s
  BY <1>a, SmallestSet
<1>2. \A t \in SUBSET s : t # s => \E g : Sums(g, f, t)
  BY <1>1, <1>a, <1>b
<1> DEFINE G == [t \in SUBSET s |-> IF t = {} THEN 0 ELSE f[Pick(t)] + Whole(f, t \ {Pick(t)})]
<1>3. ASSUME NEW u \in SUBSET s, u # s PROVE G[u] = Whole(f, u)
  <2>1. CASE u = {}
    <3>1. Sums(CHOOSE g : Sums(g, f, {}), f, {})
      BY <1>2, <1>3, <2>1
    <3> QED
      BY <2>1, <3>1 DEF Sums, Whole
  <2>2. CASE u # {}
    <3>1. u \ {Pick(u)} \in SUBSET s /\ u \ {Pick(u)} # s /\ IsFiniteSet(u)
      BY <1>3, <2>2, PickIn, FS_Subset, <1>1, <1>a
    <3>2. Whole(f, u) = f[Pick(u)] + Whole(f, u \ {Pick(u)})
      BY <1>2, <1>3, <2>2, <3>1, WholeStep
    <3> QED
      BY <2>2, <3>2
  <2> QED
    BY <2>1, <2>2
<1>4. ASSUME NEW t \in SUBSET s
      PROVE  G[t] = IF t = {} THEN 0 ELSE f[Pick(t)] + G[t \ {Pick(t)}]
  <2>1. CASE t = {}
    BY <2>1
  <2>2. CASE t # {}
    <3>1. t \ {Pick(t)} \in SUBSET s /\ t \ {Pick(t)} # s
      BY <2>2, PickIn
    <3>2. G[t \ {Pick(t)}] = Whole(f, t \ {Pick(t)})
      BY <1>3, <3>1
    <3> QED
      BY <2>2, <3>2
  <2> QED
    BY <2>1, <2>2
<1>5. G = [t \in SUBSET s |-> IF t = {} THEN 0 ELSE f[Pick(t)] + G[t \ {Pick(t)}]]
  BY <1>4
<1>6. Sums(G, f, s)
  BY <1>5 DEF Sums
<1> QED
  BY <1>1, <1>6, <1>a, <1>b

(* What a sum is: nothing over the empty set, and otherwise some value and the
   sum of the others. *)
LEMMA SumOfNone == ASSUME NEW f PROVE SumFunctionOnSet(f, {}) = 0
<1>1. PICK g : Sums(g, f, {})
  BY SumsExist, FS_EmptySet
<1>2. Sums(CHOOSE h : Sums(h, f, {}), f, {})
  BY <1>1
<1> QED
  BY <1>2, WholeIsSum DEF Sums, Whole

LEMMA SumOfPicked ==
    ASSUME NEW f, NEW D, IsFiniteSet(D), D # {}
    PROVE  SumFunctionOnSet(f, D) = f[Pick(D)] + SumFunctionOnSet(f, D \ {Pick(D)})
BY SumsExist, WholeStep, WholeIsSum

LEMMA SumType ==
    ASSUME NEW f, NEW D, IsFiniteSet(D), \A x \in D : f[x] \in Int
    PROVE  \A s \in SUBSET D : SumFunctionOnSet(f, s) \in Int
<1> DEFINE out == {s \in SUBSET D : SumFunctionOnSet(f, s) \notin Int}
<1> SUFFICES ASSUME out # {} PROVE FALSE
  OBVIOUS
<1>1. out \in SUBSET SUBSET D
  OBVIOUS
<1>2. \A s \in SUBSET D : s \in out <=> SumFunctionOnSet(f, s) \notin Int
  OBVIOUS
<1> HIDE DEF out
<1>3. PICK s \in out : \A t \in out : t \subseteq s => t = s
  BY <1>1, SmallestSet
<1>4. s # {}
  <2>1. SumFunctionOnSet(f, s) \notin Int
    BY <1>1, <1>2, <1>3
  <2>2. SumFunctionOnSet(f, {}) \in Int
    BY SumOfNone
  <2> QED
    BY <2>1, <2>2, Zenon
<1>5. /\ IsFiniteSet(s) /\ Pick(s) \in s
      /\ s \ {Pick(s)} \in SUBSET D /\ s \ {Pick(s)} \notin out
  BY <1>1, <1>3, <1>4, PickIn, FS_Subset
<1>6. f[Pick(s)] \in Int /\ SumFunctionOnSet(f, s \ {Pick(s)}) \in Int
  BY <1>1, <1>2, <1>5
<1> QED
  BY <1>1, <1>2, <1>4, <1>5, <1>6, SumOfPicked

(* The order does not matter: any value can be taken off first. *)
LEMMA SumWithout ==
    ASSUME NEW f, NEW D, IsFiniteSet(D), \A x \in D : f[x] \in Int
    PROVE  \A s \in SUBSET D : \A x \in s :
              SumFunctionOnSet(f, s) = f[x] + SumFunctionOnSet(f, s \ {x})
<1> DEFINE Good(s) == \A x \in s : SumFunctionOnSet(f, s) = f[x] + SumFunctionOnSet(f, s \ {x})
           out == {s \in SUBSET D : ~ Good(s)}
<1> SUFFICES ASSUME out # {} PROVE FALSE
  OBVIOUS
<1>1. out \in SUBSET SUBSET D
  OBVIOUS
<1>2. \A s \in SUBSET D : s \in out <=> ~ Good(s)
  OBVIOUS
<1> HIDE DEF out
<1>3. PICK s \in out : \A t \in out : t \subseteq s => t = s
  BY <1>1, SmallestSet
<1>4. PICK x \in s : SumFunctionOnSet(f, s) # f[x] + SumFunctionOnSet(f, s \ {x})
  BY <1>1, <1>2, <1>3
<1> DEFINE p == Pick(s)
<1>5. IsFiniteSet(s) /\ p \in s /\ x \in D /\ p \in D
  BY <1>1, <1>3, <1>4, PickIn, FS_Subset
<1>6. SumFunctionOnSet(f, s) = f[p] + SumFunctionOnSet(f, s \ {p})
  BY <1>4, <1>5, SumOfPicked
<1> HIDE DEF p
<1>7. x # p
  BY <1>4, <1>6
<1>8. /\ s \ {p} \in SUBSET D /\ s \ {p} \notin out
      /\ s \ {x} \in SUBSET D /\ s \ {x} \notin out
  BY <1>1, <1>3, <1>4, <1>5
<1>9. SumFunctionOnSet(f, s \ {p}) = f[x] + SumFunctionOnSet(f, (s \ {p}) \ {x})
  BY <1>2, <1>4, <1>7, <1>8
<1>10. SumFunctionOnSet(f, s \ {x}) = f[p] + SumFunctionOnSet(f, (s \ {x}) \ {p})
  BY <1>2, <1>5, <1>7, <1>8
<1>11. (s \ {x}) \ {p} = (s \ {p}) \ {x} /\ (s \ {x}) \ {p} \in SUBSET D
  BY <1>8
<1>12. f[x] \in Int /\ f[p] \in Int /\ SumFunctionOnSet(f, (s \ {x}) \ {p}) \in Int
  BY <1>5, <1>11, SumType
<1> DEFINE a == f[x]
           b == f[p]
           rest == SumFunctionOnSet(f, (s \ {x}) \ {p})
           all == SumFunctionOnSet(f, s)
<1>13. all = b + (a + rest) /\ all # a + (b + rest)
  BY <1>4, <1>6, <1>9, <1>10, <1>11, Zenon
<1>14. a \in Int /\ b \in Int /\ rest \in Int
  BY <1>12
<1> HIDE DEF a, b, rest, all
<1> QED
  BY <1>13, <1>14

LEMMA SumWith ==
    ASSUME NEW f, NEW D, IsFiniteSet(D), \A x \in D : f[x] \in Int,
           NEW s \in SUBSET D, NEW x \in D, x \notin s
    PROVE  /\ SumFunctionOnSet(f, s \cup {x}) = f[x] + SumFunctionOnSet(f, s)
           /\ SumFunctionOnSet(f, s) \in Int
<1>1. s \cup {x} \in SUBSET D /\ x \in s \cup {x} /\ (s \cup {x}) \ {x} = s
  OBVIOUS
<1>2. SumFunctionOnSet(f, s \cup {x}) = f[x] + SumFunctionOnSet(f, (s \cup {x}) \ {x})
  BY <1>1, SumWithout
<1> QED
  BY <1>1, <1>2, SumType

(* Two functions with the same values have the same sum. *)
LEMMA SumSame ==
    ASSUME NEW D, IsFiniteSet(D), NEW f, NEW g, \A x \in D : f[x] \in Int /\ g[x] = f[x]
    PROVE  SumFunctionOnSet(g, D) = SumFunctionOnSet(f, D)
<1> DEFINE T == {s \in SUBSET D : SumFunctionOnSet(g, s) = SumFunctionOnSet(f, s)}
<1>1. {} \in T
  BY SumOfNone
<1>2. ASSUME NEW s \in SUBSET D, NEW x \in D, s \in T, x \notin s PROVE s \cup {x} \in T
  BY <1>2, SumWith
<1>3. SUBSET D \subseteq T
  <2> HIDE DEF T
  <2> QED
    BY <1>1, <1>2, FiniteBySteps
<1> QED
  BY <1>3

(* A sum grows with its values. *)
LEMMA SumMonotone ==
    ASSUME NEW D, IsFiniteSet(D), NEW f, NEW g,
           \A x \in D : f[x] \in Int /\ g[x] \in Int /\ f[x] <= g[x]
    PROVE  SumFunctionOnSet(f, D) <= SumFunctionOnSet(g, D)
<1> DEFINE T == {s \in SUBSET D : SumFunctionOnSet(f, s) <= SumFunctionOnSet(g, s)}
<1>1. {} \in T
  BY SumOfNone
<1>2. ASSUME NEW s \in SUBSET D, NEW x \in D, s \in T, x \notin s PROVE s \cup {x} \in T
  <2>1. /\ SumFunctionOnSet(f, s \cup {x}) = f[x] + SumFunctionOnSet(f, s)
        /\ SumFunctionOnSet(g, s \cup {x}) = g[x] + SumFunctionOnSet(g, s)
        /\ SumFunctionOnSet(f, s) \in Int /\ SumFunctionOnSet(g, s) \in Int
    BY <1>2, SumWith
  <2> QED
    BY <1>2, <2>1
<1>3. SUBSET D \subseteq T
  <2> HIDE DEF T
  <2> QED
    BY <1>1, <1>2, FiniteBySteps
<1> QED
  BY <1>3

(* Values that go up by one in A raise the sum by the number of those in A. *)
LEMMA SumRaised ==
    ASSUME NEW D, IsFiniteSet(D), NEW A, NEW f, NEW g,
           \A x \in D : f[x] \in Int /\ g[x] = IF x \in A THEN f[x] + 1 ELSE f[x]
    PROVE  SumFunctionOnSet(g, D) = SumFunctionOnSet(f, D) + Cardinality(A \cap D)
<1> DEFINE T == {s \in SUBSET D :
                   SumFunctionOnSet(g, s) = SumFunctionOnSet(f, s) + Cardinality(A \cap s)}
<1>1. {} \in T
  <2>1. A \cap {} = {}
    OBVIOUS
  <2> QED
    BY <2>1, SumOfNone, FS_EmptySet
<1>2. ASSUME NEW s \in SUBSET D, NEW x \in D, s \in T, x \notin s PROVE s \cup {x} \in T
  <2>0. \A y \in D : g[y] \in Int
    OBVIOUS
  <2>1. /\ SumFunctionOnSet(f, s \cup {x}) = f[x] + SumFunctionOnSet(f, s)
        /\ SumFunctionOnSet(f, s) \in Int
    BY <1>2, SumWith
  <2>2. SumFunctionOnSet(g, s \cup {x}) = g[x] + SumFunctionOnSet(g, s)
    BY <1>2, <2>0, SumWith
  <2>3. IsFiniteSet(A \cap s) /\ Cardinality(A \cap s) \in Nat
    BY FS_Subset, FS_CardinalityType
  <2>4. CASE x \in A
    <3>1. A \cap (s \cup {x}) = (A \cap s) \cup {x} /\ x \notin A \cap s
      BY <1>2, <2>4
    <3>2. Cardinality(A \cap (s \cup {x})) = Cardinality(A \cap s) + 1
      BY <2>3, <3>1, FS_AddElement
    <3> QED
      BY <1>2, <2>1, <2>2, <2>3, <2>4, <3>2
  <2>5. CASE x \notin A
    <3>1. A \cap (s \cup {x}) = A \cap s
      BY <2>5
    <3>2. Cardinality(A \cap (s \cup {x})) = Cardinality(A \cap s)
      BY <3>1
    <3> QED
      BY <1>2, <2>1, <2>2, <2>3, <2>5, <3>2
  <2> QED
    BY <2>4, <2>5
<1>3. SUBSET D \subseteq T
  <2> HIDE DEF T
  <2> QED
    BY <1>1, <1>2, FiniteBySteps
<1> QED
  BY <1>3

(* A sum of natural numbers is one. *)
LEMMA SumNat ==
    ASSUME NEW D, IsFiniteSet(D), NEW f, \A x \in D : f[x] \in Nat
    PROVE  SumFunctionOnSet(f, D) \in Nat
<1> DEFINE T == {s \in SUBSET D : SumFunctionOnSet(f, s) \in Nat}
<1>1. {} \in T
  BY SumOfNone
<1>2. ASSUME NEW s \in SUBSET D, NEW x \in D, s \in T, x \notin s PROVE s \cup {x} \in T
  <2>1. SumFunctionOnSet(f, s \cup {x}) = f[x] + SumFunctionOnSet(f, s)
    BY <1>2, SumWith
  <2> QED
    BY <1>2, <2>1
<1>3. SUBSET D \subseteq T
  <2> HIDE DEF T
  <2> QED
    BY <1>1, <1>2, FiniteBySteps
<1> QED
  BY <1>3

(* The sum of sums is the sum of the sums. *)
LEMMA SumPlus ==
    ASSUME NEW D, IsFiniteSet(D), NEW f, NEW g, NEW h,
           \A x \in D : f[x] \in Int /\ g[x] \in Int /\ h[x] = f[x] + g[x]
    PROVE  SumFunctionOnSet(h, D) = SumFunctionOnSet(f, D) + SumFunctionOnSet(g, D)
<1> DEFINE T == {s \in SUBSET D :
                   SumFunctionOnSet(h, s) = SumFunctionOnSet(f, s) + SumFunctionOnSet(g, s)}
<1>1. {} \in T
  BY SumOfNone
<1>2. ASSUME NEW s \in SUBSET D, NEW x \in D, s \in T, x \notin s PROVE s \cup {x} \in T
  <2>0. \A y \in D : h[y] \in Int
    OBVIOUS
  <2>1. /\ SumFunctionOnSet(f, s \cup {x}) = f[x] + SumFunctionOnSet(f, s)
        /\ SumFunctionOnSet(g, s \cup {x}) = g[x] + SumFunctionOnSet(g, s)
        /\ SumFunctionOnSet(f, s) \in Int /\ SumFunctionOnSet(g, s) \in Int
    BY <1>2, SumWith
  <2>2. SumFunctionOnSet(h, s \cup {x}) = h[x] + SumFunctionOnSet(h, s)
    BY <1>2, <2>0, SumWith
  <2> QED
    BY <1>2, <2>1, <2>2
<1>3. SUBSET D \subseteq T
  <2> HIDE DEF T
  <2> QED
    BY <1>1, <1>2, FiniteBySteps
<1> QED
  BY <1>3

(* Counting the places from one instead of zero leaves the sum the same. *)
LEMMA SumShifted ==
    ASSUME NEW n \in Nat, NEW f, NEW g,
           \A i \in 1 .. n : g[i - 1] \in Int /\ f[i] = g[i - 1]
    PROVE  SumFunctionOnSet(f, 1 .. n) = SumFunctionOnSet(g, 0 .. n - 1)
<1> DEFINE T == {m \in Nat : m <= n =>
                   SumFunctionOnSet(f, 1 .. m) = SumFunctionOnSet(g, 0 .. m - 1)}
<1>1. 0 \in T
  <2>1. 1 .. 0 = {} /\ 0 .. 0 - 1 = {}
    OBVIOUS
  <2> QED
    BY <2>1, SumOfNone
<1>2. ASSUME NEW m \in Nat, m \in T PROVE m + 1 \in T
  <2> SUFFICES ASSUME m + 1 <= n
               PROVE  SumFunctionOnSet(f, 1 .. m + 1) = SumFunctionOnSet(g, 0 .. (m + 1) - 1)
    OBVIOUS
  <2>1. /\ 1 .. m + 1 = (1 .. m) \cup {m + 1} /\ m + 1 \notin 1 .. m
        /\ 0 .. (m + 1) - 1 = (0 .. m - 1) \cup {m} /\ m \notin 0 .. m - 1
    OBVIOUS
  <2>2. f[m + 1] = g[m]
    <3>1. m + 1 \in 1 .. n /\ (m + 1) - 1 = m
      OBVIOUS
    <3> QED
      BY <3>1
  <2>3. SumFunctionOnSet(f, (1 .. m) \cup {m + 1}) = f[m + 1] + SumFunctionOnSet(f, 1 .. m)
    <3>1. \A x \in 1 .. n : f[x] \in Int
      OBVIOUS
    <3> DEFINE D == 1 .. n
               s == 1 .. m
               x == m + 1
    <3>2. IsFiniteSet(D) /\ s \in SUBSET D /\ x \in D /\ x \notin s
      BY <2>1, FS_Interval
    <3> HIDE DEF D, s, x
    <3>3. \A y \in D : f[y] \in Int
      BY <3>1 DEF D
    <3>4. SumFunctionOnSet(f, s \cup {x}) = f[x] + SumFunctionOnSet(f, s)
      BY <3>2, <3>3, SumWith
    <3> QED
      BY <3>4 DEF s, x
  <2>4. SumFunctionOnSet(g, (0 .. m - 1) \cup {m}) = g[m] + SumFunctionOnSet(g, 0 .. m - 1)
    <3>1. \A x \in 0 .. n - 1 : g[x] \in Int
      <4>1. \A x \in 0 .. n - 1 : x + 1 \in 1 .. n /\ (x + 1) - 1 = x
        OBVIOUS
      <4> QED
        BY <4>1
    <3> DEFINE D == 0 .. n - 1
               s == 0 .. m - 1
               x == m
    <3>2. IsFiniteSet(D) /\ s \in SUBSET D /\ x \in D /\ x \notin s
      BY <2>1, FS_Interval
    <3> HIDE DEF D, s, x
    <3>3. \A y \in D : g[y] \in Int
      BY <3>1 DEF D
    <3>4. SumFunctionOnSet(g, s \cup {x}) = g[x] + SumFunctionOnSet(g, s)
      BY <3>2, <3>3, SumWith
    <3> QED
      BY <3>4 DEF s, x
  <2>5. SumFunctionOnSet(f, 1 .. m) = SumFunctionOnSet(g, 0 .. m - 1)
    BY <1>2
  <2> QED
    BY <2>1, <2>2, <2>3, <2>4, <2>5, Zenon
<1>3. Nat \subseteq T
  <2> HIDE DEF T
  <2> QED
    BY <1>1, <1>2, NaturalsBySteps
<1> QED
  BY <1>3

-------------------------------------------------------------------------------
(* What joining and leaving the queue of a lock does to those in it. *)

(* Joining the queue adds the caller behind everyone else. *)
LEMMA JoinQueueFacts ==
    ASSUME NEW S, NEW q \in Seq(S), NEW c \in S
    PROVE  /\ JoinQueue(q, c) \in Seq(S)
           /\ Len(JoinQueue(q, c)) = Len(q) + 1
           /\ \A i \in 1 .. Len(q) : JoinQueue(q, c)[i] = q[i]
           /\ JoinQueue(q, c)[Len(q) + 1] = c
           /\ \A d : Holds(q, d) => Holds(JoinQueue(q, c), d)
BY AppendProperties, EmptySeq, HeadTailProperties DEF JoinQueue, Holds

(* Dropping the guard removes the holder and moves everyone else up by one. *)
LEMMA DropGuardFacts ==
    ASSUME NEW S, NEW q \in Seq(S), NEW c, Holds(q, c)
    PROVE  /\ q # <<>> /\ Len(q) > 0 /\ q[1] = c
           /\ DropGuard(q) \in Seq(S)
           /\ Len(DropGuard(q)) = Len(q) - 1
           /\ \A i \in 1 .. Len(q) - 1 : DropGuard(q)[i] = q[i + 1]
BY HeadTailProperties, EmptySeq DEF DropGuard, Holds

(* A queue in which nobody is twice. *)
Distinct(q) == \A i, j \in DOMAIN q : q[i] = q[j] => i = j

LEMMA UnlockedFacts ==
    ASSUME NEW S
    PROVE  /\ Unlocked \in Seq(S) /\ Distinct(Unlocked)
           /\ \A d : ~ Wants(Unlocked, d)
BY DEF Unlocked, Distinct, Wants

(* Whoever holds a lock is in its queue. *)
LEMMA HolderWants ==
    ASSUME NEW S, NEW q \in Seq(S), NEW c, Holds(q, c)
    PROVE  Wants(q, c)
<1>1. Len(q) > 0 /\ q[1] = c
  BY DropGuardFacts
<1>2. 1 \in DOMAIN q
  BY <1>1, LenProperties
<1> QED
  BY <1>1, <1>2 DEF Wants

(* Those who want a lock after one more has joined. *)
LEMMA JoinedWants ==
    ASSUME NEW S, NEW q \in Seq(S), NEW c \in S
    PROVE  /\ \A d : Wants(JoinQueue(q, c), d) <=> Wants(q, d) \/ d = c
           /\ Distinct(q) /\ ~ Wants(q, c) => Distinct(JoinQueue(q, c))
<1> DEFINE n == Len(q)
           r == JoinQueue(q, c)
<1>1. /\ n \in Nat /\ DOMAIN q = 1 .. n /\ DOMAIN r = 1 .. n + 1
      /\ \A i \in 1 .. n : r[i] = q[i]
      /\ r[n + 1] = c
  BY JoinQueueFacts, LenProperties
<1> HIDE DEF n, r
<1>2. \A d : Wants(r, d) <=> Wants(q, d) \/ d = c
  BY <1>1 DEF Wants
<1>3. Distinct(q) /\ ~ Wants(q, c) => Distinct(r)
  BY <1>1 DEF Distinct, Wants
<1> QED
  BY <1>2, <1>3 DEF r

(* Those who want a lock after its holder has dropped the guard. *)
LEMMA DroppedWants ==
    ASSUME NEW S, NEW q \in Seq(S), NEW c, Holds(q, c), Distinct(q)
    PROVE  /\ \A d : Wants(DropGuard(q), d) <=> Wants(q, d) /\ d # c
           /\ Distinct(DropGuard(q))
<1> DEFINE n == Len(q)
           r == DropGuard(q)
<1>1. /\ n \in Nat /\ n > 0 /\ DOMAIN q = 1 .. n /\ DOMAIN r = 1 .. n - 1
      /\ \A i \in 1 .. n - 1 : r[i] = q[i + 1]
      /\ q[1] = c
  BY DropGuardFacts, LenProperties
<1> HIDE DEF n, r
<1>2. ASSUME NEW d PROVE Wants(r, d) <=> Wants(q, d) /\ d # c
  <2>1. ASSUME NEW i \in DOMAIN r, r[i] = d PROVE Wants(q, d) /\ d # c
    <3>1. i + 1 \in DOMAIN q /\ q[i + 1] = d /\ i + 1 # 1 /\ 1 \in DOMAIN q
      BY <1>1, <2>1
    <3> QED
      BY <1>1, <3>1 DEF Wants, Distinct
  <2>2. ASSUME NEW i \in DOMAIN q, q[i] = d, d # c PROVE Wants(r, d)
    <3>1. i - 1 \in DOMAIN r /\ r[i - 1] = d
      BY <1>1, <2>2
    <3> QED
      BY <3>1 DEF Wants
  <2> QED
    BY <2>1, <2>2 DEF Wants
<1>3. Distinct(r)
  <2> SUFFICES ASSUME NEW i \in DOMAIN r, NEW j \in DOMAIN r, r[i] = r[j] PROVE i = j
    BY DEF Distinct
  <2>1. i + 1 \in DOMAIN q /\ j + 1 \in DOMAIN q /\ q[i + 1] = q[j + 1]
    BY <1>1
  <2> QED
    BY <1>1, <2>1 DEF Distinct
<1> QED
  BY <1>2, <1>3 DEF r
===============================================================================
