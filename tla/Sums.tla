-------------------------------- MODULE Sums --------------------------------
(***************************************************************************)
(* Sums over finite sets, as MapThenSumSet of the community modules adds   *)
(* them up: one element chosen after the other.  The lemmas say that the   *)
(* order does not matter, and what becomes of a sum when the set or the    *)
(* figures change.                                                         *)
(*                                                                         *)
(* They are proved by looking at a smallest subset of which they would be  *)
(* false, and not with the induction theorems of the library, which take   *)
(* the property as an operator.                                            *)
(***************************************************************************)
EXTENDS Integers, FiniteSets, FiniteSetsExt, FiniteSetTheorems, WellFoundedInduction, TLAPS

-----------------------------------------------------------------------------
(* Least elements. *)

\* A set of natural numbers that is not empty has a least element.
LEMMA LeastNumber ==
    ASSUME NEW T, T \subseteq Nat, T # {}
    PROVE  \E n \in T : \A m \in T : n <= m
<1> DEFINE R == OpToRel(<, Nat)
<1>1. IsWellFoundedOn(R, Nat)
  BY NatLessThanWellFounded
<1>2. \E n \in T : \A m \in T : ~ (<<m, n>> \in R)
  BY <1>1, WFMin
<1>3. R = {ss \in Nat \X Nat : ss[1] < ss[2]}
  BY DEF OpToRel
<1> HIDE DEF R
<1>4. \A m, n \in Nat : <<m, n>> \in R <=> m < n
  BY <1>3
<1>5. PICK n \in T : \A m \in T : ~ (<<m, n>> \in R)
  BY <1>2
<1>6. ASSUME NEW m \in T
      PROVE  n <= m
  <2>1. m \in Nat /\ n \in Nat /\ ~ (m < n)
    BY <1>4, <1>5
  <2> QED
    BY <2>1
<1> QED
  BY <1>6

\* Of some subsets of a finite set, one is the smallest.
LEMMA SmallestSubset ==
    ASSUME NEW S, IsFiniteSet(S), NEW Z, Z \subseteq SUBSET S, Z # {}
    PROVE  \E s \in Z : \A t \in Z : Cardinality(s) <= Cardinality(t)
<1>1. \A s \in SUBSET S : IsFiniteSet(s) /\ Cardinality(s) \in Nat
  BY FS_Subset, FS_CardinalityType
<1> DEFINE T == {Cardinality(s) : s \in Z}
<1>2. T \subseteq Nat /\ T # {}
  BY <1>1
<1> HIDE DEF T
<1>3. PICK n \in T : \A m \in T : n <= m
  BY <1>2, LeastNumber
<1>4. PICK s \in Z : n = Cardinality(s)
  BY <1>3 DEF T
<1>5. \A t \in Z : Cardinality(t) \in T
  BY DEF T
<1> QED
  BY <1>3, <1>4, <1>5

-----------------------------------------------------------------------------
(* What a sum is. *)

Pick(s) == CHOOSE x \in s : TRUE

\* What is chosen from a set that is not empty is in it.
LEMMA PickIn == ASSUME NEW s, s # {} PROVE Pick(s) \in s
  BY DEF Pick

\* f adds up v over the subsets of S, the way MapThenSumSet goes about it.
AddsUp(f, v, S) ==
    f = [s \in SUBSET S |-> IF s = {} THEN 0 ELSE v[Pick(s)] + f[s \ {Pick(s)}]]

Total(v, S) == (CHOOSE f : AddsUp(f, v, S))[S]

\* Integers can be added up over a finite set.
LEMMA AddingUpIsPossible ==
    ASSUME NEW S, IsFiniteSet(S), NEW v, \A x \in S : v[x] \in Int
    PROVE  \E f \in [SUBSET S -> Int] : AddsUp(f, v, S)
<1>1. \A s \in SUBSET S : IsFiniteSet(s) /\ Cardinality(s) \in Nat
  BY FS_Subset, FS_CardinalityType
<1>2. \A s \in SUBSET S : s # {} =>
         /\ Pick(s) \in s
         /\ s \ {Pick(s)} \in SUBSET S
         /\ Cardinality(s \ {Pick(s)}) = Cardinality(s) - 1
  BY <1>1, PickIn, FS_RemoveElement
<1>3. \A s \in SUBSET S : Cardinality(s) = 0 => s = {}
  BY <1>1, FS_EmptySet
<1> DEFINE Small(n) == {s \in SUBSET S : Cardinality(s) <= n}
           Body(f, s) == IF s = {} THEN 0 ELSE v[Pick(s)] + f[s \ {Pick(s)}]
           Good(n) == \E f \in [Small(n) -> Int] : \A s \in Small(n) : f[s] = Body(f, s)
           Bad == {n \in Nat : ~Good(n)}
<1>4. Good(0)
  <2> DEFINE f == [s \in Small(0) |-> 0]
  <2>1. \A s \in Small(0) : s = {}
    BY <1>1, <1>3
  <2>2. f \in [Small(0) -> Int] /\ \A s \in Small(0) : f[s] = Body(f, s)
    BY <2>1
  <2> QED
    BY <2>2
<1>5. ASSUME NEW n \in Nat, n # 0, Good(n - 1)
      PROVE  Good(n)
  <2>1. PICK f \in [Small(n - 1) -> Int] : \A s \in Small(n - 1) : f[s] = Body(f, s)
    BY <1>5
  <2> DEFINE g == [s \in Small(n) |-> Body(f, s)]
  <2>2. \A s \in Small(n) : s # {} => s \ {Pick(s)} \in Small(n - 1)
    BY <1>1, <1>2
  <2>3. g \in [Small(n) -> Int]
    BY <2>1, <2>2, <1>2
  <2>4. \A s \in Small(n - 1) : s \in Small(n) /\ g[s] = f[s]
    BY <2>1, <1>1
  <2>5. ASSUME NEW s \in Small(n)
        PROVE  g[s] = Body(g, s)
    <3>1. CASE s = {}
      BY <3>1
    <3>2. CASE s # {}
      <4>1. g[s] = v[Pick(s)] + f[s \ {Pick(s)}]
        BY <3>2
      <4>2. g[s \ {Pick(s)}] = f[s \ {Pick(s)}]
        BY <3>2, <2>2, <2>4
      <4> HIDE DEF g
      <4> QED
        BY <3>2, <4>1, <4>2
    <3> QED
      BY <3>1, <3>2
  <2> HIDE DEF g
  <2> QED
    BY <2>3, <2>5
<1> HIDE DEF Good
<1>6. Bad = {}
  <2> SUFFICES ASSUME Bad # {}
               PROVE  FALSE
    OBVIOUS
  <2>1. PICK n \in Bad : \A m \in Bad : n <= m
    BY LeastNumber
  <2>2. n # 0
    BY <1>4
  <2>3. n - 1 \in Nat /\ n - 1 \notin Bad
    BY <2>1, <2>2
  <2> QED
    BY <2>1, <2>2, <2>3, <1>5
<1>7. Good(Cardinality(S))
  BY <1>6, <1>1
<1>8. Small(Cardinality(S)) = SUBSET S
  <2>1. \A s \in SUBSET S : Cardinality(s) <= Cardinality(S)
    BY FS_Subset
  <2> QED
    BY <2>1
<1>9. PICK f \in [SUBSET S -> Int] : \A s \in SUBSET S : f[s] = Body(f, s)
  BY <1>7, <1>8 DEF Good
<1>10. f = [s \in SUBSET S |-> Body(f, s)]
  BY <1>9
<1> QED
  BY <1>10 DEF AddsUp

\* In one way only.
LEMMA AddingUpIsUnique ==
    ASSUME NEW S, IsFiniteSet(S), NEW v, NEW f, AddsUp(f, v, S), NEW g, AddsUp(g, v, S)
    PROVE  f = g
<1> DEFINE Z == {s \in SUBSET S : f[s] # g[s]}
<1>1. Z = {}
  <2> SUFFICES ASSUME Z # {}
               PROVE  FALSE
    OBVIOUS
  <2>1. PICK s \in Z : \A t \in Z : Cardinality(s) <= Cardinality(t)
    BY SmallestSubset
  <2>2. s # {}
    BY DEF AddsUp
  <2>3. Pick(s) \in s /\ s \ {Pick(s)} \in SUBSET S
    BY <2>2, PickIn
  <2>4. Cardinality(s \ {Pick(s)}) = Cardinality(s) - 1 /\ Cardinality(s) \in Nat
    BY <2>3, FS_RemoveElement, FS_Subset, FS_CardinalityType
  <2>5. s \ {Pick(s)} \notin Z
    BY <2>1, <2>4
  <2>6. f[s \ {Pick(s)}] = g[s \ {Pick(s)}]
    BY <2>3, <2>5
  <2> QED
    BY <2>2, <2>6 DEF AddsUp
<1>2. \A s \in SUBSET S : f[s] = g[s]
  BY <1>1
<1>3. f = [s \in SUBSET S |-> f[s]] /\ g = [s \in SUBSET S |-> g[s]]
  BY DEF AddsUp
<1> QED
  BY <1>2, <1>3

\* Any function that adds up v is the total of v.
LEMMA OneTotal ==
    ASSUME NEW S, IsFiniteSet(S), NEW v, NEW f, AddsUp(f, v, S)
    PROVE  \A s \in SUBSET S : f[s] = Total(v, s)
<1> TAKE s \in SUBSET S
<1> DEFINE g == [t \in SUBSET s |-> f[t]]
<1>1. \A t \in SUBSET s : t \in SUBSET S /\ (t # {} => Pick(t) \in t /\ t \ {Pick(t)} \in SUBSET s)
  BY PickIn
<1>2. AddsUp(g, v, s)
  BY <1>1 DEF AddsUp
<1>3. IsFiniteSet(s)
  BY FS_Subset
<1> HIDE DEF g
<1>4. AddsUp(CHOOSE h : AddsUp(h, v, s), v, s)
  BY <1>2
<1>5. (CHOOSE h : AddsUp(h, v, s)) = g
  BY <1>2, <1>3, <1>4, AddingUpIsUnique
<1> QED
  BY <1>5 DEF Total, g

\* A sum is an integer, and what is chosen first plus the sum of the rest.
LEMMA TotalStep ==
    ASSUME NEW S, IsFiniteSet(S), NEW v, \A x \in S : v[x] \in Int
    PROVE  /\ Total(v, S) \in Int
           /\ S = {} => Total(v, S) = 0
           /\ S # {} => /\ Pick(S) \in S
                        /\ Total(v, S) = v[Pick(S)] + Total(v, S \ {Pick(S)})
<1>1. PICK f \in [SUBSET S -> Int] : AddsUp(f, v, S)
  BY AddingUpIsPossible
<1>2. \A s \in SUBSET S : f[s] = Total(v, s)
  BY <1>1, OneTotal
<1>3. S \in SUBSET S /\ S \ {Pick(S)} \in SUBSET S
  OBVIOUS
<1>4. f[S] = IF S = {} THEN 0 ELSE v[Pick(S)] + f[S \ {Pick(S)}]
  BY <1>1, <1>3 DEF AddsUp
<1> QED
  BY <1>1, <1>2, <1>3, <1>4, PickIn

-----------------------------------------------------------------------------
(* What becomes of a sum. *)

\* Any element may be taken out first.
LEMMA TotalRemove ==
    ASSUME NEW S, IsFiniteSet(S), NEW v, \A x \in S : v[x] \in Int, NEW x \in S
    PROVE  Total(v, S) = v[x] + Total(v, S \ {x})
<1> DEFINE Z == {s \in SUBSET S : \E y \in s : Total(v, s) # v[y] + Total(v, s \ {y})}
<1>1. Z = {}
  <2> SUFFICES ASSUME Z # {}
               PROVE  FALSE
    OBVIOUS
  <2>1. PICK s \in Z : \A t \in Z : Cardinality(s) <= Cardinality(t)
    BY SmallestSubset
  <2>2. PICK y \in s : Total(v, s) # v[y] + Total(v, s \ {y})
    BY <2>1
  <2> DEFINE p == Pick(s)
  <2>3. IsFiniteSet(s) /\ IsFiniteSet(s \ {y}) /\ IsFiniteSet(s \ {p})
    BY FS_Subset
  <2>4. p \in s /\ Total(v, s) = v[p] + Total(v, s \ {p})
    BY <2>2, <2>3, TotalStep
  <2> HIDE DEF p
  <2>5. y # p
    BY <2>2, <2>4
  <2>6. \A z \in s : Cardinality(s \ {z}) = Cardinality(s) - 1 /\ Cardinality(s) \in Nat
    BY <2>3, FS_RemoveElement, FS_CardinalityType
  <2>7. s \ {p} \notin Z /\ s \ {y} \notin Z
    <3>1. ASSUME NEW z \in s PROVE s \ {z} \notin Z
      <4>1. ~(Cardinality(s) <= Cardinality(s \ {z}))
        BY <2>6
      <4> HIDE DEF Z
      <4> QED
        BY <2>1, <4>1
    <3> QED
      BY <2>2, <2>4, <3>1
  <2>8. Total(v, s \ {p}) = v[y] + Total(v, (s \ {p}) \ {y})
    BY <2>5, <2>2, <2>7
  <2>9. Total(v, s \ {y}) = v[p] + Total(v, (s \ {y}) \ {p})
    BY <2>4, <2>5, <2>7
  <2>10. (s \ {p}) \ {y} = (s \ {y}) \ {p} /\ IsFiniteSet((s \ {y}) \ {p})
    BY <2>3, FS_Subset
  <2>11. Total(v, (s \ {y}) \ {p}) \in Int
    BY <2>10, TotalStep
  <2>12. v[p] \in Int /\ v[y] \in Int
    BY <2>4
  <2> DEFINE rest == Total(v, (s \ {y}) \ {p})
  <2>13. rest \in Int /\ Total(v, s) = v[p] + (v[y] + rest) /\ Total(v, s \ {y}) = v[p] + rest
    BY <2>4, <2>8, <2>9, <2>10, <2>11
  <2> HIDE DEF rest
  <2>14. v[p] + (v[y] + rest) = v[y] + (v[p] + rest)
    BY <2>12, <2>13
  <2> QED
    BY <2>2, <2>13, <2>14
<1> QED
  BY <1>1

\* An element more is its figure more.
LEMMA TotalAdd ==
    ASSUME NEW S, IsFiniteSet(S), NEW v, NEW x, x \notin S, \A y \in S \cup {x} : v[y] \in Int
    PROVE  Total(v, S \cup {x}) = Total(v, S) + v[x]
<1>1. IsFiniteSet(S \cup {x}) /\ (S \cup {x}) \ {x} = S
  BY FS_AddElement
<1>2. Total(v, S) \in Int
  BY TotalStep
<1>3. Total(v, S \cup {x}) = v[x] + Total(v, (S \cup {x}) \ {x})
  BY <1>1, TotalRemove
<1>4. Total(v, S \cup {x}) = v[x] + Total(v, S) /\ v[x] \in Int
  BY <1>1, <1>3
<1> QED
  BY <1>2, <1>4

\* Sums over the same set of figures that agree on it are the same.
LEMMA TotalSame ==
    ASSUME NEW S, IsFiniteSet(S), NEW v, NEW w, \A x \in S : v[x] \in Int /\ v[x] = w[x]
    PROVE  Total(v, S) = Total(w, S)
<1>1. PICK f \in [SUBSET S -> Int] : AddsUp(f, v, S)
  BY AddingUpIsPossible
<1>2. AddsUp(f, w, S)
  <2>1. \A s \in SUBSET S : s # {} => Pick(s) \in S
    BY PickIn
  <2> QED
    BY <1>1, <2>1 DEF AddsUp
<1> QED
  BY <1>1, <1>2, OneTotal

\* One figure changed is the difference.
LEMMA TotalChanged ==
    ASSUME NEW S, IsFiniteSet(S), NEW v, NEW w, NEW c \in S, \A x \in S : v[x] \in Int,
           w[c] \in Int, \A x \in S \ {c} : w[x] = v[x]
    PROVE  Total(w, S) = Total(v, S) - v[c] + w[c]
<1>1. IsFiniteSet(S \ {c})
  BY FS_Subset
<1>2. Total(v, S \ {c}) = Total(w, S \ {c}) /\ Total(v, S \ {c}) \in Int
  BY <1>1, TotalSame, TotalStep
<1>3. Total(v, S) = v[c] + Total(v, S \ {c}) /\ Total(w, S) = w[c] + Total(w, S \ {c})
  BY TotalRemove
<1> QED
  BY <1>2, <1>3

\* Figures that are not negative do not add up to a negative one.
LEMMA TotalOfNaturals ==
    ASSUME NEW S, IsFiniteSet(S), NEW v, \A x \in S : v[x] \in Nat
    PROVE  Total(v, S) \in Nat
<1> DEFINE Z == {s \in SUBSET S : Total(v, s) \notin Nat}
<1>1. Z = {}
  <2> SUFFICES ASSUME Z # {}
               PROVE  FALSE
    OBVIOUS
  <2>1. PICK s \in Z : \A t \in Z : Cardinality(s) <= Cardinality(t)
    BY SmallestSubset
  <2>2. IsFiniteSet(s)
    BY FS_Subset
  <2>3. s # {} /\ Pick(s) \in s /\ Total(v, s) = v[Pick(s)] + Total(v, s \ {Pick(s)})
    <3>1. \A x \in s : v[x] \in Int
      OBVIOUS
    <3>2. Total(v, {}) = 0
      BY FS_EmptySet, TotalStep
    <3>3. s # {}
      BY <3>2
    <3> QED
      BY <2>2, <3>1, <3>3, TotalStep
  <2>4. Cardinality(s \ {Pick(s)}) = Cardinality(s) - 1 /\ Cardinality(s) \in Nat
    BY <2>2, <2>3, FS_RemoveElement, FS_CardinalityType
  <2>5. s \ {Pick(s)} \notin Z
    BY <2>1, <2>4
  <2> QED
    BY <2>3, <2>5
<1> QED
  BY <1>1

\* Two sets apart are summed apart.
LEMMA TotalSplit ==
    ASSUME NEW S, IsFiniteSet(S), NEW R, IsFiniteSet(R), S \cap R = {},
           NEW v, \A x \in S \cup R : v[x] \in Int
    PROVE  Total(v, S \cup R) = Total(v, S) + Total(v, R)
<1> DEFINE Z == {s \in SUBSET R : Total(v, S \cup s) # Total(v, S) + Total(v, s)}
<1>0. Total(v, S) \in Int
  BY TotalStep
<1>1. Z = {}
  <2> SUFFICES ASSUME Z # {}
               PROVE  FALSE
    OBVIOUS
  <2>1. PICK s \in Z : \A t \in Z : Cardinality(s) <= Cardinality(t)
    BY SmallestSubset
  <2>2. IsFiniteSet(s) /\ IsFiniteSet(S \cup s)
    BY FS_Subset, FS_Union
  <2>3. s # {}
    <3> SUFFICES ASSUME s = {}
                 PROVE  FALSE
      OBVIOUS
    <3>1. Total(v, s) = 0
      BY <2>2, TotalStep
    <3>2. S \cup s = S
      OBVIOUS
    <3>3. Total(v, S \cup s) = Total(v, S)
      BY <3>2
    <3> QED
      BY <1>0, <3>1, <3>3, <2>1
  <2>4. PICK x \in s : TRUE
    BY <2>3
  <2>5. Cardinality(s \ {x}) = Cardinality(s) - 1 /\ Cardinality(s) \in Nat
    BY <2>2, FS_RemoveElement, FS_CardinalityType
  <2>6. s \ {x} \notin Z
    BY <2>1, <2>5
  <2>7. Total(v, S \cup (s \ {x})) = Total(v, S) + Total(v, s \ {x})
    BY <2>6
  <2>8. (S \cup s) \ {x} = S \cup (s \ {x})
    OBVIOUS
  <2>9. Total(v, s) = v[x] + Total(v, s \ {x})
    BY <2>2, TotalRemove
  <2>10. Total(v, S \cup s) = v[x] + Total(v, (S \cup s) \ {x})
    BY <2>2, TotalRemove
  <2>11. Total(v, s \ {x}) \in Int /\ v[x] \in Int
    BY <2>2, FS_Subset, TotalStep
  <2>12. Total(v, S \cup s) = v[x] + (Total(v, S) + Total(v, s \ {x}))
    BY <2>10, <2>8, <2>7
  <2> QED
    BY <2>9, <2>11, <2>12, <1>0, <2>1
<1> QED
  BY <1>1

\* A part of figures that are not negative is no more than the whole.
LEMMA TotalOfPart ==
    ASSUME NEW S, IsFiniteSet(S), NEW R \in SUBSET S, NEW v, \A x \in S : v[x] \in Nat
    PROVE  Total(v, R) <= Total(v, S)
<1>1. IsFiniteSet(R) /\ IsFiniteSet(S \ R) /\ S = R \cup (S \ R)
  BY FS_Subset
<1>2. Total(v, R) \in Nat /\ Total(v, S \ R) \in Nat
  BY <1>1, TotalOfNaturals
<1>3. Total(v, R \cup (S \ R)) = Total(v, R) + Total(v, S \ R)
  BY <1>1, TotalSplit
<1>4. Total(v, S) = Total(v, R) + Total(v, S \ R)
  BY <1>1, <1>3
<1> QED
  BY <1>2, <1>4

\* Figures above zero add up to something.
LEMMA TotalAboveZero ==
    ASSUME NEW S, IsFiniteSet(S), S # {}, NEW v, \A x \in S : v[x] \in Nat \ {0}
    PROVE  Total(v, S) \in Nat \ {0}
<1>1. PICK x \in S : TRUE
  OBVIOUS
<1>2. Total(v, S) = v[x] + Total(v, S \ {x})
  BY TotalRemove
<1>3. Total(v, S \ {x}) \in Nat
  BY FS_Subset, TotalOfNaturals
<1> QED
  BY <1>2, <1>3

\* A sum over no more than before, plus one element whose figure is new.
LEMMA TotalGrows ==
    ASSUME NEW S, IsFiniteSet(S), NEW v, \A x \in S : v[x] \in Int,
           NEW n, n \notin S, NEW w, \A x \in S : w[x] = v[x], w[n] \in Int
    PROVE  Total(w, S \cup {n}) = Total(v, S) + w[n]
<1>1. Total(w, S) = Total(v, S)
  BY TotalSame
<1>2. \A x \in S \cup {n} : w[x] \in Int
  OBVIOUS
<1>3. Total(w, S \cup {n}) = Total(w, S) + w[n]
  BY <1>2, TotalAdd
<1> QED
  BY <1>1, <1>3

\* A sum over all but one element of before.
LEMMA TotalShrinks ==
    ASSUME NEW S, IsFiniteSet(S), NEW v, \A x \in S : v[x] \in Int,
           NEW n \in S, NEW w, \A x \in S \ {n} : w[x] = v[x]
    PROVE  Total(w, S \ {n}) = Total(v, S) - v[n]
<1>1. IsFiniteSet(S \ {n})
  BY FS_RemoveElement
<1>2. Total(w, S \ {n}) = Total(v, S \ {n}) /\ Total(v, S \ {n}) \in Int
  BY <1>1, TotalSame, TotalStep
<1>3. Total(v, S) = v[n] + Total(v, S \ {n}) /\ v[n] \in Int
  BY TotalRemove
<1> QED
  BY <1>2, <1>3

\* Figures that are no greater, one by one, add up to no more.
LEMMA TotalCompared ==
    ASSUME NEW S, IsFiniteSet(S), NEW v, NEW w, \A x \in S : v[x] \in Int /\ w[x] \in Int,
           \A x \in S : v[x] <= w[x]
    PROVE  Total(v, S) <= Total(w, S)
<1> DEFINE Z == {s \in SUBSET S : ~(Total(v, s) <= Total(w, s))}
<1>1. Z = {}
  <2> SUFFICES ASSUME Z # {}
               PROVE  FALSE
    OBVIOUS
  <2>1. PICK s \in Z : \A t \in Z : Cardinality(s) <= Cardinality(t)
    BY SmallestSubset
  <2>2. IsFiniteSet(s)
    BY FS_Subset
  <2>3. s # {}
    <3>1. Total(v, {}) = 0 /\ Total(w, {}) = 0
      BY FS_EmptySet, TotalStep
    <3> QED
      BY <3>1
  <2>4. PICK x \in s : TRUE
    BY <2>3
  <2>5. Cardinality(s \ {x}) = Cardinality(s) - 1 /\ Cardinality(s) \in Nat
    BY <2>2, FS_RemoveElement, FS_CardinalityType
  <2>6. s \ {x} \notin Z
    BY <2>1, <2>5
  <2>7. Total(v, s \ {x}) <= Total(w, s \ {x})
    BY <2>6
  <2>8. /\ Total(v, s) = v[x] + Total(v, s \ {x})
        /\ Total(w, s) = w[x] + Total(w, s \ {x})
    BY <2>2, TotalRemove
  <2>9. Total(v, s \ {x}) \in Int /\ Total(w, s \ {x}) \in Int
    BY <2>2, FS_RemoveElement, TotalStep
  <2> QED
    BY <2>7, <2>8, <2>9
<1> QED
  BY <1>1

\* A sum of sums, figure by figure.
LEMMA TotalOfBoth ==
    ASSUME NEW S, IsFiniteSet(S), NEW v, NEW w, NEW u,
           \A x \in S : v[x] \in Int /\ w[x] \in Int /\ u[x] = v[x] + w[x]
    PROVE  Total(u, S) = Total(v, S) + Total(w, S)
<1> DEFINE Z == {s \in SUBSET S : Total(u, s) # Total(v, s) + Total(w, s)}
<1>1. Z = {}
  <2> SUFFICES ASSUME Z # {}
               PROVE  FALSE
    OBVIOUS
  <2>1. PICK s \in Z : \A t \in Z : Cardinality(s) <= Cardinality(t)
    BY SmallestSubset
  <2>2. IsFiniteSet(s)
    BY FS_Subset
  <2>3. s # {}
    <3>1. Total(v, {}) = 0 /\ Total(w, {}) = 0 /\ Total(u, {}) = 0
      BY FS_EmptySet, TotalStep
    <3>2. {} \notin Z
      BY <3>1
    <3> HIDE DEF Z
    <3> QED
      BY <3>2
  <2>4. PICK x \in s : TRUE
    BY <2>3
  <2>5. Cardinality(s \ {x}) = Cardinality(s) - 1 /\ Cardinality(s) \in Nat
    BY <2>2, FS_RemoveElement, FS_CardinalityType
  <2>6. s \ {x} \notin Z
    BY <2>1, <2>5
  <2>7. Total(u, s \ {x}) = Total(v, s \ {x}) + Total(w, s \ {x})
    BY <2>6
  <2>8. \A y \in s : u[y] \in Int
    OBVIOUS
  <2>9. /\ Total(v, s) = v[x] + Total(v, s \ {x})
        /\ Total(w, s) = w[x] + Total(w, s \ {x})
        /\ Total(u, s) = u[x] + Total(u, s \ {x})
    BY <2>2, <2>8, TotalRemove
  <2>10. Total(v, s \ {x}) \in Int /\ Total(w, s \ {x}) \in Int
    BY <2>2, FS_RemoveElement, TotalStep
  <2>11. u[x] = v[x] + w[x] /\ v[x] \in Int /\ w[x] \in Int
    BY <2>4
  <2> HIDE DEF Z
  <2>12. Total(u, s) = Total(v, s) + Total(w, s)
    BY <2>7, <2>9, <2>10, <2>11
  <2> QED
    BY <2>12 DEF Z
<1> QED
  BY <1>1

\* To sum over a part is to count the others as nothing.
LEMMA TotalOfChosen ==
    ASSUME NEW S, IsFiniteSet(S), NEW R \in SUBSET S, NEW v, \A x \in R : v[x] \in Int
    PROVE  Total(v, R) = Total([x \in S |-> IF x \in R THEN v[x] ELSE 0], S)
<1> DEFINE u == [x \in S |-> IF x \in R THEN v[x] ELSE 0]
<1>1. IsFiniteSet(R) /\ IsFiniteSet(S \ R) /\ S = R \cup (S \ R) /\ R \cap (S \ R) = {}
  BY FS_Subset
<1>2. \A x \in R : u[x] = v[x]
  OBVIOUS
<1>3. \A x \in S \ R : u[x] = 0
  OBVIOUS
<1>4. \A x \in R \cup (S \ R) : u[x] \in Int
  OBVIOUS
<1> HIDE DEF u
<1>5. Total(u, R) = Total(v, R) /\ Total(u, R) \in Int
  BY <1>1, <1>2, TotalSame, TotalStep
<1>6. Total(u, R \cup (S \ R)) = Total(u, R) + Total(u, S \ R)
  BY <1>1, <1>4, TotalSplit
<1>7. Total(u, S \ R) = 0
  <2>1. Total(u, S \ R) \in Nat
    BY <1>1, <1>3, TotalOfNaturals
  <2>2. Total(u, S \ R) = Total(u, S \ R) + Total(u, S \ R)
    BY <1>1, <1>3, TotalOfBoth
  <2>3. \A n \in Nat : n = n + n => n = 0
    OBVIOUS
  <2> QED
    BY <2>1, <2>2, <2>3
<1>8. Total(u, S) = Total(u, R) + Total(u, S \ R)
  BY <1>1, <1>6
<1> QED
  BY <1>5, <1>7, <1>8 DEF u
=============================================================================
