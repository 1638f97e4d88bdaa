--------------------------- MODULE SumTheorems ---------------------------
(***************************************************************************)
(* What the proofs need to know of the sums the models are written with:   *)
(* SumFunctionOnSet (Functions) and, at their uses, MapThenSumSet.  Both   *)
(* are a recursive function on the subsets of a set, so the facts below    *)
(* are inductions on the cardinality of a finite set; each is done by      *)
(* taking a least counterexample.  Then induction on lists, and the same   *)
(* for FlattenSeq.                                                         *)
(***************************************************************************)
EXTENDS Integers, FiniteSets, Functions, SequencesExt, FiniteSetTheorems,
        SequenceTheorems, WellFoundedInduction, TLAPS

\* A nonempty set of naturals has a least element.
LEMMA LeastNat ==
    ASSUME NEW T \in SUBSET Nat, T # {}
    PROVE  \E n \in T : \A m \in T : n <= m
<1>1. IsWellFoundedOn(OpToRel(<, Nat), Nat)
  BY NatLessThanWellFounded
<1>2. \E n \in T : \A m \in T : ~ (<<m, n>> \in OpToRel(<, Nat))
  BY <1>1, WFMin
<1>3. PICK n \in T : \A m \in T : ~ (<<m, n>> \in OpToRel(<, Nat))
  BY <1>2
<1>4. ASSUME NEW m \in T PROVE n <= m
  <2>1. ~ (m < n)
    BY <1>3, <1>4 DEF OpToRel
  <2> QED BY <2>1
<1> QED BY <1>4
-----------------------------------------------------------------------------
(* The recursive function a sum is defined by: Adds(g, f, S) says that g   *)
(* sums f over the subsets of S, Picked being the element taken first.     *)
Picked(s) == CHOOSE x \in s : TRUE

Adds(g, f, D) ==
    g = [s \in D |-> IF s = {} THEN 0 ELSE f[Picked(s)] + g[s \ {Picked(s)}]]

Subsets(S) == SUBSET S

\* The subsets of S with at most n elements.
UpTo(S, n) == {s \in SUBSET S : Cardinality(s) <= n}

LEMMA PickedIn == \A s : s # {} => Picked(s) \in s
  BY DEF Picked

\* SumFunctionOnSet is the value at S of a function that Adds over SUBSET S.
LEMMA SumIsChosen ==
    \A f, S : SumFunctionOnSet(f, S) = (CHOOSE g : Adds(g, f, Subsets(S)))[S]
  BY DEF SumFunctionOnSet, FoldFunctionOnSet, MapThenFoldSet, Adds, Picked, Subsets

\* What Adds says at one set.
LEMMA AddsAt ==
    ASSUME NEW g, NEW f, NEW D, Adds(g, f, D), NEW s \in D
    PROVE  g[s] = IF s = {} THEN 0 ELSE f[Picked(s)] + g[s \ {Picked(s)}]
  BY DEF Adds

\* Removing the picked element.
LEMMA PickedAway ==
    ASSUME NEW S, IsFiniteSet(S), NEW n \in Nat, NEW s \in UpTo(S, n + 1), s # {}
    PROVE  s \ {Picked(s)} \in UpTo(S, n)
<1>1. s \in SUBSET S /\ Cardinality(s) <= n + 1
  BY DEF UpTo
<1>2. IsFiniteSet(s) /\ Cardinality(s) \in Nat
  BY <1>1, FS_Subset, FS_CardinalityType
<1>3. Cardinality(s \ {Picked(s)}) = Cardinality(s) - 1
  BY <1>2, PickedIn, FS_RemoveElement
<1> QED BY <1>1, <1>2, <1>3 DEF UpTo

\* From a function that adds over the sets of n elements to one for n + 1.
LEMMA AddsOneMore ==
    ASSUME NEW f, NEW S, IsFiniteSet(S), NEW n \in Nat,
           NEW g, Adds(g, f, UpTo(S, n))
    PROVE  \E h : Adds(h, f, UpTo(S, n + 1))
<1> DEFINE h == [s \in UpTo(S, n + 1) |->
                   IF s = {} THEN 0 ELSE f[Picked(s)] + g[s \ {Picked(s)}]]
<1>1. ASSUME NEW s \in UpTo(S, n) PROVE s \in UpTo(S, n + 1)
  <2>1. s \in SUBSET S /\ Cardinality(s) <= n
    BY DEF UpTo
  <2>2. Cardinality(s) \in Nat
    BY <2>1, FS_Subset, FS_CardinalityType
  <2> QED BY <2>1, <2>2 DEF UpTo
<1>2. ASSUME NEW s \in UpTo(S, n) PROVE h[s] = g[s]
  <2>1. g[s] = IF s = {} THEN 0 ELSE f[Picked(s)] + g[s \ {Picked(s)}]
    BY AddsAt
  <2> QED BY <1>1, <2>1
<1>3. ASSUME NEW s \in UpTo(S, n + 1), s # {}
      PROVE  g[s \ {Picked(s)}] = h[s \ {Picked(s)}]
  BY <1>2, <1>3, PickedAway
<1>4. h = [s \in UpTo(S, n + 1) |->
             IF s = {} THEN 0 ELSE f[Picked(s)] + h[s \ {Picked(s)}]]
  BY <1>3
<1>5. Adds(h, f, UpTo(S, n + 1))
  BY <1>4 DEF Adds
<1> QED BY <1>5

\* There is such a function for every size.
LEMMA AddsUpTo ==
    ASSUME NEW f, NEW S, IsFiniteSet(S)
    PROVE  \A n \in Nat : \E g : Adds(g, f, UpTo(S, n))
<1> DEFINE Bad == {n \in Nat : ~ \E g : Adds(g, f, UpTo(S, n))}
<1> SUFFICES ASSUME Bad # {} PROVE FALSE
  OBVIOUS
<1>1. PICK n \in Bad : \A m \in Bad : n <= m
  BY LeastNat
<1>2. CASE n = 0
  <2>1. \A s \in UpTo(S, 0) : s = {}
    <3>1. SUFFICES ASSUME NEW s \in UpTo(S, 0) PROVE s = {}
      OBVIOUS
    <3>2. s \in SUBSET S /\ Cardinality(s) <= 0
      BY DEF UpTo
    <3>3. IsFiniteSet(s) /\ Cardinality(s) \in Nat
      BY <3>2, FS_Subset, FS_CardinalityType
    <3> QED BY <3>2, <3>3, FS_EmptySet
  <2> DEFINE g == [s \in UpTo(S, 0) |-> 0]
  <2>2. g = [s \in UpTo(S, 0) |->
               IF s = {} THEN 0 ELSE f[Picked(s)] + g[s \ {Picked(s)}]]
    BY <2>1
  <2>3. Adds(g, f, UpTo(S, 0))
    BY <2>2 DEF Adds
  <2> QED BY <1>2, <2>3
<1>3. CASE n # 0
  <2>1. n - 1 \in Nat /\ n - 1 \notin Bad /\ (n - 1) + 1 = n
    BY <1>1, <1>3
  <2>2. PICK g : Adds(g, f, UpTo(S, n - 1))
    BY <2>1
  <2>3. \E h : Adds(h, f, UpTo(S, (n - 1) + 1))
    BY <2>1, <2>2, AddsOneMore
  <2> QED BY <2>1, <2>3
<1> QED BY <1>2, <1>3

\* So the function a sum is defined by exists when the set is finite.
LEMMA SumAdds ==
    ASSUME NEW f, NEW S, IsFiniteSet(S)
    PROVE  \E g : Adds(g, f, Subsets(S)) /\ SumFunctionOnSet(f, S) = g[S]
<1>1. Cardinality(S) \in Nat
  BY FS_CardinalityType
<1>2. UpTo(S, Cardinality(S)) = Subsets(S)
  BY FS_Subset DEF UpTo, Subsets
<1>3. \E g : Adds(g, f, UpTo(S, Cardinality(S)))
  <2>1. \A n \in Nat : \E g : Adds(g, f, UpTo(S, n))
    BY AddsUpTo
  <2> QED BY <1>1, <2>1
<1> QED BY <1>2, <1>3, SumIsChosen

\* Two functions that add f agree wherever both are defined.
LEMMA AddsUnique ==
    ASSUME NEW f, NEW S, IsFiniteSet(S), NEW T \in SUBSET S,
           NEW g, Adds(g, f, Subsets(S)), NEW h, Adds(h, f, Subsets(T))
    PROVE  g[T] = h[T]
<1> DEFINE Sizes == {n \in Nat : \E s \in SUBSET T : Cardinality(s) = n /\ g[s] # h[s]}
<1>1. IsFiniteSet(T)
  BY FS_Subset
<1>2. SUFFICES ASSUME Sizes # {} PROVE FALSE
  <2>1. Cardinality(T) \in Nat
    BY <1>1, FS_CardinalityType
  <2> QED BY <2>1
<1>3. PICK n \in Sizes : \A m \in Sizes : n <= m
  BY <1>2, LeastNat
<1>4. PICK s \in SUBSET T : Cardinality(s) = n /\ g[s] # h[s]
  BY <1>3
<1>5. g[s] = IF s = {} THEN 0 ELSE f[Picked(s)] + g[s \ {Picked(s)}]
  <2>1. s \in Subsets(S)
    BY <1>4 DEF Subsets
  <2> QED BY <2>1, AddsAt
<1>6. h[s] = IF s = {} THEN 0 ELSE f[Picked(s)] + h[s \ {Picked(s)}]
  <2>1. s \in Subsets(T)
    BY <1>4 DEF Subsets
  <2> QED BY <2>1, AddsAt
<1>7. s # {}
  BY <1>4, <1>5, <1>6
<1> DEFINE r == s \ {Picked(s)}
<1>8. r \in SUBSET T /\ Cardinality(r) = n - 1 /\ Cardinality(r) \in Nat
  <2>1. IsFiniteSet(s) /\ IsFiniteSet(r)
    BY <1>1, <1>4, FS_Subset
  <2>2. Cardinality(r) = Cardinality(s) - 1 /\ Cardinality(r) \in Nat
    BY <1>7, <2>1, PickedIn, FS_RemoveElement, FS_CardinalityType
  <2> QED BY <1>4, <2>2
<1>9. g[r] # h[r]
  BY <1>4, <1>5, <1>6, <1>7
<1>10. Cardinality(r) \in Sizes /\ n \in Nat
  BY <1>8, <1>9
<1> HIDE DEF Sizes, r
<1> QED BY <1>3, <1>8, <1>10
-----------------------------------------------------------------------------
(* The equation of a sum.                                                  *)

LEMMA SumEmpty == \A f : SumFunctionOnSet(f, {}) = 0
<1>1. SUFFICES ASSUME NEW f PROVE SumFunctionOnSet(f, {}) = 0
  OBVIOUS
<1>2. PICK g : Adds(g, f, Subsets({})) /\ SumFunctionOnSet(f, {}) = g[{}]
  BY FS_EmptySet, SumAdds
<1>3. g[{}] = 0
  BY <1>2 DEF Adds, Subsets
<1> QED BY <1>2, <1>3

LEMMA SumPicked ==
    ASSUME NEW f, NEW S, IsFiniteSet(S), S # {}
    PROVE  SumFunctionOnSet(f, S)
             = f[Picked(S)] + SumFunctionOnSet(f, S \ {Picked(S)})
<1> DEFINE T == S \ {Picked(S)}
<1>1. PICK g : Adds(g, f, Subsets(S)) /\ SumFunctionOnSet(f, S) = g[S]
  BY SumAdds
<1>2. IsFiniteSet(T) /\ T \in SUBSET S
  BY FS_RemoveElement
<1>3. PICK h : Adds(h, f, Subsets(T)) /\ SumFunctionOnSet(f, T) = h[T]
  BY <1>2, SumAdds
<1> HIDE DEF T
<1>4. g[S] = f[Picked(S)] + g[T]
  <2>1. g[S] = IF S = {} THEN 0 ELSE f[Picked(S)] + g[S \ {Picked(S)}]
    <3>1. S \in Subsets(S)
      BY DEF Subsets
    <3> QED BY <1>1, <3>1, AddsAt
  <2> QED BY <2>1 DEF T
<1>5. g[T] = h[T]
  BY <1>1, <1>2, <1>3, AddsUnique
<1> QED BY <1>1, <1>3, <1>4, <1>5 DEF T

\* The same equation for any function that adds f: it is the sum.
LEMMA AddsIsSum ==
    ASSUME NEW f, NEW S, IsFiniteSet(S), NEW g, Adds(g, f, Subsets(S))
    PROVE  g[S] = SumFunctionOnSet(f, S)
<1>1. PICK h : Adds(h, f, Subsets(S)) /\ SumFunctionOnSet(f, S) = h[S]
  BY SumAdds
<1>2. S \in SUBSET S
  OBVIOUS
<1> QED BY <1>1, <1>2, AddsUnique

\* A sum of integers is an integer.
THEOREM SumInt ==
    ASSUME NEW f, NEW S, IsFiniteSet(S), \A x \in S : f[x] \in Int
    PROVE  SumFunctionOnSet(f, S) \in Int
<1> DEFINE Sizes == {n \in Nat : \E s \in SUBSET S :
                       Cardinality(s) = n /\ SumFunctionOnSet(f, s) \notin Int}
<1>1. SUFFICES ASSUME Sizes # {} PROVE FALSE
  <2>1. Cardinality(S) \in Nat /\ S \in SUBSET S
    BY FS_CardinalityType
  <2> QED BY <2>1
<1>2. PICK n \in Sizes : \A m \in Sizes : n <= m
  BY <1>1, LeastNat
<1>3. PICK s \in SUBSET S : Cardinality(s) = n /\ SumFunctionOnSet(f, s) \notin Int
  BY <1>2
<1>4. s # {}
  BY <1>3, SumEmpty
<1> DEFINE r == s \ {Picked(s)}
<1>5. IsFiniteSet(s) /\ IsFiniteSet(r)
  BY <1>3, FS_Subset
<1>6. SumFunctionOnSet(f, s) = f[Picked(s)] + SumFunctionOnSet(f, r)
  BY <1>4, <1>5, SumPicked
<1>7. Cardinality(r) = n - 1 /\ Cardinality(r) \in Nat
  BY <1>3, <1>4, <1>5, PickedIn, FS_RemoveElement, FS_CardinalityType
<1>8. f[Picked(s)] \in Int
  BY <1>3, <1>4, PickedIn
<1>9. SumFunctionOnSet(f, r) \notin Int
  BY <1>3, <1>6, <1>8
<1>10. Cardinality(r) \in Sizes /\ n \in Nat
  BY <1>3, <1>7, <1>9
<1> HIDE DEF Sizes, r
<1> QED BY <1>2, <1>7, <1>10

\* Any element may be taken out first: the sum does not depend on the order.
THEOREM SumRemove ==
    ASSUME NEW f, NEW S, IsFiniteSet(S), \A x \in S : f[x] \in Int, NEW y \in S
    PROVE  SumFunctionOnSet(f, S) = f[y] + SumFunctionOnSet(f, S \ {y})
<1> DEFINE Off(s, x) ==
             SumFunctionOnSet(f, s) # f[x] + SumFunctionOnSet(f, s \ {x})
           Sizes == {n \in Nat : \E s \in SUBSET S : \E x \in s :
                       Cardinality(s) = n /\ Off(s, x)}
<1>1. SUFFICES ASSUME Sizes # {} PROVE FALSE
  <2>1. Cardinality(S) \in Nat /\ S \in SUBSET S
    BY FS_CardinalityType
  <2> QED BY <2>1
<1>2. PICK n \in Sizes : \A m \in Sizes : n <= m
  BY <1>1, LeastNat
<1>3. PICK s \in SUBSET S : \E x \in s : Cardinality(s) = n /\ Off(s, x)
  BY <1>2
<1>a. PICK x \in s : Cardinality(s) = n /\ Off(s, x)
  BY <1>3
<1> DEFINE p == Picked(s)
<1>4. p \in s /\ s # {}
  BY <1>a, PickedIn
<1>5. IsFiniteSet(s) /\ IsFiniteSet(s \ {p}) /\ IsFiniteSet(s \ {x})
                    /\ IsFiniteSet((s \ {p}) \ {x})
  BY <1>a, FS_Subset
<1>6. SumFunctionOnSet(f, s) = f[p] + SumFunctionOnSet(f, s \ {p})
  BY <1>4, <1>5, SumPicked
<1> HIDE DEF p
<1>7. p # x
  BY <1>a, <1>6
<1>8. /\ Cardinality(s \ {p}) = n - 1 /\ Cardinality(s \ {p}) \in Nat
      /\ Cardinality(s \ {x}) = n - 1 /\ Cardinality(s \ {x}) \in Nat
  BY <1>a, <1>4, <1>5, FS_RemoveElement, FS_CardinalityType
<1>9. ASSUME NEW q \in s, NEW z \in s \ {q}, Cardinality(s \ {q}) = n - 1,
             Cardinality(s \ {q}) \in Nat
      PROVE  ~ Off(s \ {q}, z)
  <2> SUFFICES ASSUME Off(s \ {q}, z) PROVE FALSE
    OBVIOUS
  <2> HIDE DEF Off
  <2>1. s \ {q} \in SUBSET S
    BY <1>3
  <2>2. n - 1 \in Sizes
    BY <1>9, <2>1
  <2> QED BY <1>2, <2>2
<1>10. SumFunctionOnSet(f, s \ {p}) = f[x] + SumFunctionOnSet(f, (s \ {p}) \ {x})
  BY <1>a, <1>4, <1>7, <1>8, <1>9
<1>11. SumFunctionOnSet(f, s \ {x}) = f[p] + SumFunctionOnSet(f, (s \ {x}) \ {p})
  BY <1>a, <1>4, <1>7, <1>8, <1>9
<1>12. (s \ {x}) \ {p} = (s \ {p}) \ {x}
  OBVIOUS
<1>13. f[x] \in Int /\ f[p] \in Int /\ SumFunctionOnSet(f, (s \ {p}) \ {x}) \in Int
  BY <1>a, <1>4, <1>5, SumInt
<1>14. SumFunctionOnSet(f, s) = f[x] + SumFunctionOnSet(f, s \ {x})
  <2> DEFINE all == SumFunctionOnSet(f, s)
             noP == SumFunctionOnSet(f, s \ {p})
             noX == SumFunctionOnSet(f, s \ {x})
             rest == SumFunctionOnSet(f, (s \ {p}) \ {x})
             fp == f[p]
             fx == f[x]
  <2>1. /\ all = fp + noP /\ noP = fx + rest /\ noX = fp + rest
        /\ fx \in Int /\ fp \in Int /\ rest \in Int
    BY <1>6, <1>10, <1>11, <1>12, <1>13
  <2> HIDE DEF all, noP, noX, rest, fp, fx
  <2>2. all = fx + noX
    BY <2>1
  <2> QED BY <2>2 DEF all, noX, fx
<1> QED BY <1>a, <1>14

\* Adding an element.
THEOREM SumAdd ==
    ASSUME NEW f, NEW S, IsFiniteSet(S), NEW y, y \notin S,
           f[y] \in Int, \A x \in S : f[x] \in Int
    PROVE  SumFunctionOnSet(f, S \cup {y}) = f[y] + SumFunctionOnSet(f, S)
<1>1. IsFiniteSet(S \cup {y}) /\ (S \cup {y}) \ {y} = S
  BY FS_AddElement
<1>2. \A x \in S \cup {y} : f[x] \in Int
  OBVIOUS
<1>3. y \in S \cup {y}
  OBVIOUS
<1>4. SumFunctionOnSet(f, S \cup {y}) = f[y] + SumFunctionOnSet(f, (S \cup {y}) \ {y})
  BY <1>1, <1>2, <1>3, SumRemove
<1> QED BY <1>1, <1>4

\* Functions that agree on a set have the same sum over it.
THEOREM SumEqual ==
    ASSUME NEW S, IsFiniteSet(S), NEW f, NEW g, \A x \in S : f[x] = g[x]
    PROVE  SumFunctionOnSet(f, S) = SumFunctionOnSet(g, S)
<1>1. PICK h : Adds(h, f, Subsets(S)) /\ SumFunctionOnSet(f, S) = h[S]
  BY SumAdds
<1>2. \A s \in SUBSET S : s # {} => f[Picked(s)] = g[Picked(s)]
  BY PickedIn
<1>3. Adds(h, g, Subsets(S))
  BY <1>1, <1>2 DEF Adds, Subsets
<1> QED BY <1>1, <1>3, AddsIsSum
-----------------------------------------------------------------------------
(* Comparing and changing sums.                                            *)

\* A sum of naturals is a natural.
THEOREM SumNat ==
    ASSUME NEW f, NEW S, IsFiniteSet(S), \A x \in S : f[x] \in Nat
    PROVE  SumFunctionOnSet(f, S) \in Nat
<1> DEFINE Sizes == {n \in Nat : \E s \in SUBSET S :
                       Cardinality(s) = n /\ SumFunctionOnSet(f, s) \notin Nat}
<1>1. SUFFICES ASSUME Sizes # {} PROVE FALSE
  <2>1. Cardinality(S) \in Nat /\ S \in SUBSET S
    BY FS_CardinalityType
  <2> QED BY <2>1
<1>2. PICK n \in Sizes : \A m \in Sizes : n <= m
  BY <1>1, LeastNat
<1>3. PICK s \in SUBSET S : Cardinality(s) = n /\ SumFunctionOnSet(f, s) \notin Nat
  BY <1>2
<1>4. s # {}
  BY <1>3, SumEmpty
<1> DEFINE r == s \ {Picked(s)}
<1>5. IsFiniteSet(s) /\ IsFiniteSet(r)
  BY <1>3, FS_Subset
<1>6. SumFunctionOnSet(f, s) = f[Picked(s)] + SumFunctionOnSet(f, r)
  BY <1>4, <1>5, SumPicked
<1>7. Cardinality(r) = n - 1 /\ Cardinality(r) \in Nat
  BY <1>3, <1>4, <1>5, PickedIn, FS_RemoveElement, FS_CardinalityType
<1>8. f[Picked(s)] \in Nat
  BY <1>3, <1>4, PickedIn
<1>9. SumFunctionOnSet(f, r) \notin Nat
  BY <1>3, <1>6, <1>8
<1>10. Cardinality(r) \in Sizes /\ n \in Nat
  BY <1>3, <1>7, <1>9
<1> HIDE DEF Sizes, r
<1> QED BY <1>2, <1>7, <1>10

\* No summand of a sum of naturals is more than the sum.
THEOREM SumAtLeast ==
    ASSUME NEW f, NEW S, IsFiniteSet(S), \A x \in S : f[x] \in Nat, NEW y \in S
    PROVE  f[y] <= SumFunctionOnSet(f, S)
<1>1. SumFunctionOnSet(f, S) = f[y] + SumFunctionOnSet(f, S \ {y})
  BY SumRemove
<1>2. SumFunctionOnSet(f, S \ {y}) \in Nat
  BY FS_RemoveElement, SumNat
<1>3. f[y] \in Nat
  OBVIOUS
<1> HIDE DEF SumFunctionOnSet
<1> QED BY <1>1, <1>2, <1>3

\* A sum in which nothing counts is 0.
THEOREM SumZero ==
    ASSUME NEW f, NEW S, IsFiniteSet(S), \A x \in S : f[x] = 0
    PROVE  SumFunctionOnSet(f, S) = 0
<1> DEFINE g == [s \in SUBSET S |-> 0]
<1>1. g = [s \in SUBSET S |->
             IF s = {} THEN 0 ELSE f[Picked(s)] + g[s \ {Picked(s)}]]
  <2>1. ASSUME NEW s \in SUBSET S, s # {}
        PROVE  f[Picked(s)] + g[s \ {Picked(s)}] = 0
    <3>1. f[Picked(s)] = 0 /\ s \ {Picked(s)} \in SUBSET S
      BY <2>1, PickedIn
    <3>2. g[s \ {Picked(s)}] = 0
      BY <3>1
    <3> HIDE DEF g
    <3> QED BY <3>1, <3>2
  <2>2. \A s \in SUBSET S :
          (IF s = {} THEN 0 ELSE f[Picked(s)] + g[s \ {Picked(s)}]) = 0
    BY <2>1
  <2> DEFINE e(s) == IF s = {} THEN 0 ELSE f[Picked(s)] + g[s \ {Picked(s)}]
  <2>3. \A s \in SUBSET S : e(s) = 0
    BY <2>2
  <2> HIDE DEF e
  <2>4. [s \in SUBSET S |-> 0] = [s \in SUBSET S |-> e(s)]
    BY <2>3
  <2> QED BY <2>4 DEF e
<1>2. Adds(g, f, Subsets(S)) /\ g[S] = 0
  BY <1>1 DEF Adds, Subsets
<1> HIDE DEF g
<1> QED BY <1>2, AddsIsSum

\* Changing a function at one element changes its sum by the difference.
THEOREM SumChange ==
    ASSUME NEW S, IsFiniteSet(S), NEW f, NEW g, NEW y \in S,
           \A x \in S : f[x] \in Int, \A x \in S : g[x] \in Int,
           \A x \in S \ {y} : g[x] = f[x]
    PROVE  SumFunctionOnSet(g, S) = SumFunctionOnSet(f, S) - f[y] + g[y]
<1> DEFINE T == S \ {y}
<1>1. IsFiniteSet(T)
  BY FS_RemoveElement
<1>2. SumFunctionOnSet(g, T) = SumFunctionOnSet(f, T)
  BY <1>1, SumEqual
<1>3. SumFunctionOnSet(f, S) = f[y] + SumFunctionOnSet(f, T)
  BY SumRemove
<1>4. SumFunctionOnSet(g, S) = g[y] + SumFunctionOnSet(g, T)
  BY SumRemove
<1>5. SumFunctionOnSet(f, T) \in Int /\ f[y] \in Int /\ g[y] \in Int
  BY <1>1, SumInt
<1> HIDE DEF T
<1> QED BY <1>2, <1>3, <1>4, <1>5

\* Changing it at two elements.
THEOREM SumChangeTwo ==
    ASSUME NEW S, IsFiniteSet(S), NEW f, NEW g, NEW y \in S, NEW z \in S, y # z,
           \A x \in S : f[x] \in Int, \A x \in S : g[x] \in Int,
           \A x \in S \ {y, z} : g[x] = f[x]
    PROVE  SumFunctionOnSet(g, S)
             = SumFunctionOnSet(f, S) + (g[y] - f[y]) + (g[z] - f[z])
<1> DEFINE T == S \ {y}
<1>1. /\ IsFiniteSet(T) /\ z \in T
      /\ \A x \in T : f[x] \in Int
      /\ \A x \in T : g[x] \in Int
      /\ \A x \in T \ {z} : g[x] = f[x]
  BY FS_RemoveElement
<1>2. SumFunctionOnSet(g, T) = SumFunctionOnSet(f, T) - f[z] + g[z]
  <2> HIDE DEF T
  <2> QED BY <1>1, SumChange
<1>3. SumFunctionOnSet(f, S) = f[y] + SumFunctionOnSet(f, T)
  BY SumRemove
<1>4. SumFunctionOnSet(g, S) = g[y] + SumFunctionOnSet(g, T)
  BY SumRemove
<1>5. /\ SumFunctionOnSet(f, T) \in Int
      /\ f[y] \in Int /\ g[y] \in Int /\ f[z] \in Int /\ g[z] \in Int
  BY <1>1, SumInt
<1> HIDE DEF T
<1> QED BY <1>2, <1>3, <1>4, <1>5

\* A sum is the sum over a part and the sum over the rest.
THEOREM SumSplit ==
    ASSUME NEW f, NEW S, IsFiniteSet(S), \A x \in S : f[x] \in Int,
           NEW T \in SUBSET S
    PROVE  SumFunctionOnSet(f, S) = SumFunctionOnSet(f, T) + SumFunctionOnSet(f, S \ T)
<1> DEFINE Off(s) == SumFunctionOnSet(f, s)
                        # SumFunctionOnSet(f, s \cap T) + SumFunctionOnSet(f, s \ T)
           Sizes == {n \in Nat : \E s \in SUBSET S : Cardinality(s) = n /\ Off(s)}
<1>1. SUFFICES ASSUME Sizes # {} PROVE FALSE
  <2>1. Cardinality(S) \in Nat /\ S \in SUBSET S /\ S \cap T = T
    BY FS_CardinalityType
  <2> QED BY <2>1
<1>2. PICK n \in Sizes : \A m \in Sizes : n <= m
  BY <1>1, LeastNat
<1>3. PICK s \in SUBSET S : Cardinality(s) = n /\ Off(s)
  BY <1>2
<1>4. s # {}
  <2>1. CASE s = {}
    <3>1. s \cap T = {} /\ s \ T = {}
      BY <2>1
    <3> QED BY <1>3, <2>1, <3>1, SumEmpty
  <2> QED BY <2>1
<1>5. PICK y \in s : TRUE
  BY <1>4
<1> DEFINE r == s \ {y}
           A == r \cap T
           B == r \ T
<1>6. /\ IsFiniteSet(s) /\ IsFiniteSet(r) /\ IsFiniteSet(A) /\ IsFiniteSet(B)
      /\ y \notin A /\ y \notin B /\ f[y] \in Int
      /\ \A x \in A : f[x] \in Int
      /\ \A x \in B : f[x] \in Int
  BY <1>3, FS_Subset
<1>7. Cardinality(r) = n - 1 /\ Cardinality(r) \in Nat
  BY <1>3, <1>5, <1>6, FS_RemoveElement, FS_CardinalityType
<1>8. SumFunctionOnSet(f, s) = f[y] + SumFunctionOnSet(f, r)
  BY <1>5, <1>6, SumRemove
<1>9. /\ SumFunctionOnSet(f, A) \in Int /\ SumFunctionOnSet(f, B) \in Int
      /\ SumFunctionOnSet(f, r) \in Int
  BY <1>6, SumInt
<1>10. SumFunctionOnSet(f, s \cap T) + SumFunctionOnSet(f, s \ T)
         = f[y] + (SumFunctionOnSet(f, A) + SumFunctionOnSet(f, B))
  <2>1. CASE y \in T
    <3>1. s \cap T = A \cup {y} /\ s \ T = B
      BY <1>5, <2>1
    <3> HIDE DEF A, B
    <3>2. SumFunctionOnSet(f, A \cup {y}) = f[y] + SumFunctionOnSet(f, A)
      BY <1>6, SumAdd
    <3>3. /\ SumFunctionOnSet(f, s \cap T) = f[y] + SumFunctionOnSet(f, A)
          /\ SumFunctionOnSet(f, s \ T) = SumFunctionOnSet(f, B)
      BY ONLY <3>1, <3>2, Zenon
    <3> QED BY <1>6, <1>9, <3>3
  <2>2. CASE y \notin T
    <3>1. s \ T = B \cup {y} /\ s \cap T = A
      BY <1>5, <2>2
    <3> HIDE DEF A, B
    <3>2. SumFunctionOnSet(f, B \cup {y}) = f[y] + SumFunctionOnSet(f, B)
      BY <1>6, SumAdd
    <3>3. /\ SumFunctionOnSet(f, s \ T) = f[y] + SumFunctionOnSet(f, B)
          /\ SumFunctionOnSet(f, s \cap T) = SumFunctionOnSet(f, A)
      BY ONLY <3>1, <3>2, Zenon
    <3> QED BY <1>6, <1>9, <3>3
  <2> QED BY <2>1, <2>2
<1>11. Off(r)
  <2>1. Off(r) <=> SumFunctionOnSet(f, r) # SumFunctionOnSet(f, A) + SumFunctionOnSet(f, B)
    OBVIOUS
  <2> HIDE DEF r, A, B
  <2> QED BY <1>3, <1>6, <1>8, <1>9, <1>10, <2>1
<1>12. Cardinality(r) \in Sizes /\ n \in Nat
  BY <1>7, <1>11
<1> HIDE DEF Sizes, r
<1> QED BY <1>2, <1>7, <1>12

\* A part of a sum of naturals is at most the sum.
THEOREM SumPart ==
    ASSUME NEW f, NEW S, IsFiniteSet(S), \A x \in S : f[x] \in Nat,
           NEW T \in SUBSET S
    PROVE  SumFunctionOnSet(f, T) <= SumFunctionOnSet(f, S)
<1>1. SumFunctionOnSet(f, S) = SumFunctionOnSet(f, T) + SumFunctionOnSet(f, S \ T)
  BY SumSplit
<1>2. IsFiniteSet(T) /\ IsFiniteSet(S \ T)
  BY FS_Subset
<1>3. SumFunctionOnSet(f, T) \in Nat /\ SumFunctionOnSet(f, S \ T) \in Nat
  BY <1>2, SumNat
<1> QED BY <1>1, <1>3

\* A sum of smaller numbers is not larger.
THEOREM SumMonotone ==
    ASSUME NEW S, IsFiniteSet(S), NEW f, NEW g,
           \A x \in S : f[x] \in Int, \A x \in S : g[x] \in Int,
           \A x \in S : f[x] <= g[x]
    PROVE  SumFunctionOnSet(f, S) <= SumFunctionOnSet(g, S)
<1> DEFINE Sizes == {n \in Nat : \E s \in SUBSET S :
                       /\ Cardinality(s) = n
                       /\ ~ (SumFunctionOnSet(f, s) <= SumFunctionOnSet(g, s))}
<1>1. SUFFICES ASSUME Sizes # {} PROVE FALSE
  <2>1. Cardinality(S) \in Nat /\ S \in SUBSET S
    BY FS_CardinalityType
  <2> QED BY <2>1
<1>2. PICK n \in Sizes : \A m \in Sizes : n <= m
  BY <1>1, LeastNat
<1>3. PICK s \in SUBSET S :
        Cardinality(s) = n /\ ~ (SumFunctionOnSet(f, s) <= SumFunctionOnSet(g, s))
  BY <1>2
<1>4. s # {}
  BY <1>3, SumEmpty
<1> DEFINE r == s \ {Picked(s)}
<1>5. IsFiniteSet(s) /\ IsFiniteSet(r)
  BY <1>3, FS_Subset
<1>6. /\ SumFunctionOnSet(f, s) = f[Picked(s)] + SumFunctionOnSet(f, r)
      /\ SumFunctionOnSet(g, s) = g[Picked(s)] + SumFunctionOnSet(g, r)
  BY <1>4, <1>5, SumPicked
<1>7. Cardinality(r) = n - 1 /\ Cardinality(r) \in Nat
  BY <1>3, <1>4, <1>5, PickedIn, FS_RemoveElement, FS_CardinalityType
<1>8. Picked(s) \in S /\ \A x \in r : x \in S
  BY <1>3, <1>4, PickedIn
<1>9. SumFunctionOnSet(f, r) \in Int /\ SumFunctionOnSet(g, r) \in Int
  BY <1>5, <1>8, SumInt
<1>10. ~ (SumFunctionOnSet(f, r) <= SumFunctionOnSet(g, r))
  <2>1. f[Picked(s)] \in Int /\ g[Picked(s)] \in Int /\ f[Picked(s)] <= g[Picked(s)]
    BY <1>8
  <2> HIDE DEF r, SumFunctionOnSet, Picked
  <2> QED BY <1>3, <1>6, <1>9, <2>1
<1>11. Cardinality(r) \in Sizes /\ n \in Nat
  BY <1>3, <1>7, <1>10
<1> HIDE DEF Sizes, r
<1> QED BY <1>2, <1>7, <1>11

\* Taking a factor out.
LEMMA FactorOut ==
    ASSUME NEW k \in Int, NEW a \in Int, NEW b \in Int
    PROVE  k * a + k * b = k * (a + b)
  OBVIOUS

\* A constant factor of all summands is a factor of the sum.
THEOREM SumScale ==
    ASSUME NEW S, IsFiniteSet(S), NEW k \in Int, NEW f, NEW g,
           \A x \in S : f[x] \in Int, \A x \in S : g[x] = k * f[x]
    PROVE  SumFunctionOnSet(g, S) = k * SumFunctionOnSet(f, S)
<1> DEFINE Off(s) == SumFunctionOnSet(g, s) # k * SumFunctionOnSet(f, s)
           Sizes == {n \in Nat : \E s \in SUBSET S : Cardinality(s) = n /\ Off(s)}
<1>1. SUFFICES ASSUME Sizes # {} PROVE FALSE
  <2>1. Cardinality(S) \in Nat /\ S \in SUBSET S
    BY FS_CardinalityType
  <2> QED BY <2>1
<1>2. PICK n \in Sizes : \A m \in Sizes : n <= m
  BY <1>1, LeastNat
<1>3. PICK s \in SUBSET S : Cardinality(s) = n /\ Off(s)
  BY <1>2
<1>4. s # {}
  <2>1. SumFunctionOnSet(f, {}) = 0 /\ SumFunctionOnSet(g, {}) = 0 /\ k * 0 = 0
    BY SumEmpty
  <2> QED BY <1>3, <2>1
<1> DEFINE r == s \ {Picked(s)}
<1>5. IsFiniteSet(s) /\ IsFiniteSet(r)
  BY <1>3, FS_Subset
<1>6. /\ SumFunctionOnSet(f, s) = f[Picked(s)] + SumFunctionOnSet(f, r)
      /\ SumFunctionOnSet(g, s) = g[Picked(s)] + SumFunctionOnSet(g, r)
  BY <1>4, <1>5, SumPicked
<1>7. Cardinality(r) = n - 1 /\ Cardinality(r) \in Nat
  BY <1>3, <1>4, <1>5, PickedIn, FS_RemoveElement, FS_CardinalityType
<1>8. Picked(s) \in S /\ \A x \in r : x \in S
  BY <1>3, <1>4, PickedIn
<1>9. SumFunctionOnSet(f, r) \in Int
  BY <1>5, <1>8, SumInt
<1>10. Off(r)
  <2>1. f[Picked(s)] \in Int /\ g[Picked(s)] = k * f[Picked(s)]
    BY <1>8
  <2>2. k * f[Picked(s)] + k * SumFunctionOnSet(f, r)
          = k * (f[Picked(s)] + SumFunctionOnSet(f, r))
    BY <1>9, <2>1, FactorOut
  <2>3. SUFFICES ASSUME ~ Off(r) PROVE FALSE
    OBVIOUS
  <2>4. SumFunctionOnSet(g, s) = k * SumFunctionOnSet(f, s)
    BY <1>6, <2>1, <2>2, <2>3, Zenon
  <2> QED BY <1>3, <2>4
<1>11. Cardinality(r) \in Sizes /\ n \in Nat
  BY <1>3, <1>7, <1>10
<1> HIDE DEF Sizes, r
<1> QED BY <1>2, <1>7, <1>11

\* Adding one to each of some summands adds their number to the sum.
THEOREM SumRaised ==
    ASSUME NEW S, IsFiniteSet(S), NEW R, NEW f, NEW g,
           \A x \in S : f[x] \in Int,
           \A x \in S : g[x] = f[x] + IF x \in R THEN 1 ELSE 0
    PROVE  SumFunctionOnSet(g, S) = SumFunctionOnSet(f, S) + Cardinality(R \cap S)
<1> DEFINE Off(s) == SumFunctionOnSet(g, s) # SumFunctionOnSet(f, s) + Cardinality(R \cap s)
           Sizes == {n \in Nat : \E s \in SUBSET S : Cardinality(s) = n /\ Off(s)}
<1>1. SUFFICES ASSUME Sizes # {} PROVE FALSE
  <2>1. Cardinality(S) \in Nat /\ S \in SUBSET S
    BY FS_CardinalityType
  <2> QED BY <2>1
<1>2. PICK n \in Sizes : \A m \in Sizes : n <= m
  BY <1>1, LeastNat
<1>3. PICK s \in SUBSET S : Cardinality(s) = n /\ Off(s)
  BY <1>2
<1>4. s # {}
  <2>1. SumFunctionOnSet(f, {}) = 0 /\ SumFunctionOnSet(g, {}) = 0
    BY SumEmpty
  <2>2. Cardinality({}) = 0 /\ R \cap {} = {}
    BY FS_EmptySet
  <2>3. SUFFICES ASSUME s = {} PROVE FALSE
    OBVIOUS
  <2>4. ~ Off({})
    BY <2>1, <2>2
  <2> QED BY <1>3, <2>3, <2>4
<1> DEFINE p == Picked(s)
           r == s \ {p}
<1>5. IsFiniteSet(s) /\ IsFiniteSet(r) /\ IsFiniteSet(R \cap r)
  BY <1>3, FS_Subset
<1>6. /\ SumFunctionOnSet(f, s) = f[p] + SumFunctionOnSet(f, r)
      /\ SumFunctionOnSet(g, s) = g[p] + SumFunctionOnSet(g, r)
  BY <1>4, <1>5, SumPicked
<1>7. Cardinality(r) = n - 1 /\ Cardinality(r) \in Nat
  BY <1>3, <1>4, <1>5, PickedIn, FS_RemoveElement, FS_CardinalityType
<1>8. p \in s /\ p \in S /\ \A x \in r : x \in S
  BY <1>3, <1>4, PickedIn
<1>9. SumFunctionOnSet(f, r) \in Int
  BY <1>5, <1>8, SumInt
<1>10. /\ Cardinality(R \cap r) \in Nat
       /\ Cardinality(R \cap s) = Cardinality(R \cap r) + IF p \in R THEN 1 ELSE 0
  <2>1. Cardinality(R \cap r) \in Nat
    BY <1>5, FS_CardinalityType
  <2>2. CASE p \in R
    <3>1. R \cap s = (R \cap r) \cup {p} /\ p \notin R \cap r
      BY <1>8, <2>2
    <3> HIDE DEF r, p
    <3> QED BY <1>5, <2>1, <2>2, <3>1, FS_AddElement
  <2>3. CASE p \notin R
    <3>1. R \cap s = R \cap r
      BY <2>3
    <3> HIDE DEF r, p
    <3> QED BY <2>1, <2>3, <3>1
  <2> QED BY <2>1, <2>2, <2>3
<1>11. Off(r)
  <2>1. f[p] \in Int /\ g[p] = f[p] + IF p \in R THEN 1 ELSE 0
    BY <1>8
  <2>2. SUFFICES ASSUME ~ Off(r) PROVE FALSE
    OBVIOUS
  <2>3. SumFunctionOnSet(g, r) = SumFunctionOnSet(f, r) + Cardinality(R \cap r)
    BY <2>2
  <2>4. SumFunctionOnSet(g, s) = SumFunctionOnSet(f, s) + Cardinality(R \cap s)
    <3> HIDE DEF r, p, Off
    <3> QED BY <1>6, <1>9, <1>10, <2>1, <2>3
  <2> QED BY <1>3, <2>4
<1>12. Cardinality(r) \in Sizes /\ n \in Nat
  BY <1>3, <1>7, <1>11
<1> HIDE DEF Sizes, r
<1> QED BY <1>2, <1>7, <1>12

-----------------------------------------------------------------------------
(* Inductions on the length of a list, each by a shortest counterexample.   *)

\* A list is empty, or one shorter with an element behind it.
LEMMA SeqFront ==
    ASSUME NEW S, NEW s \in Seq(S), s # <<>>
    PROVE  \E t \in Seq(S), x \in S : s = Append(t, x) /\ Len(t) = Len(s) - 1
<1> DEFINE t == SubSeq(s, 1, Len(s) - 1)
<1>1. Len(s) \in Nat /\ Len(s) > 0 /\ s[Len(s)] \in S
  OBVIOUS
<1>2. t \in Seq(S) /\ Len(t) = Len(s) - 1 /\ \A i \in 1..(Len(s) - 1) : t[i] = s[i]
  <2>1. PICK k \in Int : k = Len(s) - 1
    BY <1>1
  <2>2. \A i \in 1..k : s[i] \in S
    BY <1>1, <2>1
  <2>3. t = SubSeq(s, 1, k)
    BY <2>1
  <2> HIDE DEF t
  <2>4. 1 \in Int
    OBVIOUS
  <2>5. /\ t \in Seq(S) /\ Len(t) = IF 1 <= k THEN k - 1 + 1 ELSE 0
        /\ \A i \in 1..(k - 1 + 1) : t[i] = s[1 + i - 1]
    BY <2>2, <2>3, <2>4, SubSeqProperties
  <2> QED BY <1>1, <2>1, <2>5
<1> HIDE DEF t
<1>3. s = Append(t, s[Len(s)])
  BY <1>1, <1>2
<1> QED BY <1>1, <1>2, <1>3

\* Induction on lists, for a property given as the set of those that have it.
LEMMA SeqInduction ==
    ASSUME NEW S, NEW P, <<>> \in P, \A t \in Seq(S), x \in S : t \in P => Append(t, x) \in P
    PROVE  Seq(S) \subseteq P
<1> DEFINE Bad == {n \in Nat : \E s \in Seq(S) : Len(s) = n /\ s \notin P}
<1> SUFFICES ASSUME NEW z \in Seq(S), z \notin P PROVE FALSE
  OBVIOUS
<1>1. Len(z) \in Bad
  OBVIOUS
<1>2. PICK n \in Bad : \A m \in Bad : n <= m
  BY <1>1, LeastNat
<1>3. PICK s \in Seq(S) : Len(s) = n /\ s \notin P
  BY <1>2
<1>4. PICK t \in Seq(S), x \in S : s = Append(t, x) /\ Len(t) = Len(s) - 1
  BY <1>3, SeqFront
<1>5. Len(t) \in Bad /\ n \in Nat
  BY <1>2, <1>3, <1>4
<1> HIDE DEF Bad
<1> QED BY <1>2, <1>3, <1>4, <1>5

(***************************************************************************)
(* FlattenSeq (SequencesExt), a recursive function too.                    *)
(***************************************************************************)
Flattens(g, seqs, n) ==
    g = [i \in 1..n |-> IF i = 1 THEN seqs[i] ELSE g[i - 1] \o seqs[i]]

LEMMA FlattenIsChosen ==
    \A seqs : FlattenSeq(seqs) = IF Len(seqs) = 0 THEN seqs
                                 ELSE (CHOOSE g : Flattens(g, seqs, Len(seqs)))[Len(seqs)]
BY DEF FlattenSeq, Flattens

LEMMA FlattensLast ==
    ASSUME NEW g, NEW seqs, NEW n \in Nat, n # 0, Flattens(g, seqs, n)
    PROVE  \A i \in 1..n : g[i] = IF i = 1 THEN seqs[i] ELSE g[i - 1] \o seqs[i]
BY DEF Flattens

LEMMA FlattensOneMore ==
    ASSUME NEW seqs, NEW n \in Nat, NEW g, Flattens(g, seqs, n)
    PROVE  \E h : Flattens(h, seqs, n + 1)
<1> DEFINE h == [i \in 1..(n + 1) |-> IF i = 1 THEN seqs[i] ELSE g[i - 1] \o seqs[i]]
<1>1. ASSUME NEW i \in 1..(n + 1), i # 1 PROVE g[i - 1] = h[i - 1]
  <2>1. i - 1 \in 1..n /\ i - 1 \in 1..(n + 1)
    BY <1>1
  <2> QED BY <2>1 DEF Flattens
<1>2. h = [i \in 1..(n + 1) |-> IF i = 1 THEN seqs[i] ELSE h[i - 1] \o seqs[i]]
  BY <1>1
<1>3. Flattens(h, seqs, n + 1)
  BY <1>2 DEF Flattens
<1> QED BY <1>3

LEMMA FlattensExist ==
    ASSUME NEW seqs
    PROVE  \A n \in Nat : \E g : Flattens(g, seqs, n)
<1> DEFINE Bad == {n \in Nat : ~ \E g : Flattens(g, seqs, n)}
<1> SUFFICES ASSUME Bad # {} PROVE FALSE
  OBVIOUS
<1>1. PICK n \in Bad : \A m \in Bad : n <= m
  BY LeastNat
<1>2. CASE n = 0
  <2> DEFINE g == [i \in 1..0 |-> 0]
  <2>1. g = [i \in 1..0 |-> IF i = 1 THEN seqs[i] ELSE g[i - 1] \o seqs[i]]
    <3>1. \A i \in 1..0 : FALSE
      OBVIOUS
    <3> QED BY <3>1
  <2>2. Flattens(g, seqs, 0)
    BY <2>1 DEF Flattens
  <2> QED BY <1>2, <2>2
<1>3. CASE n # 0
  <2>1. n - 1 \in Nat /\ n - 1 \notin Bad /\ (n - 1) + 1 = n
    BY <1>1, <1>3
  <2>2. PICK g : Flattens(g, seqs, n - 1)
    BY <2>1
  <2>3. \E h : Flattens(h, seqs, (n - 1) + 1)
    BY <2>1, <2>2, FlattensOneMore
  <2> QED BY <2>1, <2>3
<1> QED BY <1>2, <1>3

LEMMA FlattensUnique ==
    ASSUME NEW s, NEW t, NEW n \in Nat, NEW m \in Nat, n # 0, n <= m,
           \A i \in 1..n : s[i] = t[i],
           NEW g, Flattens(g, s, n), NEW h, Flattens(h, t, m)
    PROVE  g[n] = h[n]
<1> DEFINE Bad == {i \in Nat : i \in 1..n /\ g[i] # h[i]}
<1> SUFFICES ASSUME Bad # {} PROVE FALSE
  BY DEF Bad
<1>1. PICK i \in Bad : \A j \in Bad : i <= j
  BY LeastNat
<1>2. i \in 1..n /\ i \in 1..m /\ g[i] # h[i]
  BY <1>1
<1>3. g[i] = IF i = 1 THEN s[i] ELSE g[i - 1] \o s[i]
  BY <1>2 DEF Flattens
<1>4. h[i] = IF i = 1 THEN t[i] ELSE h[i - 1] \o t[i]
  BY <1>2 DEF Flattens
<1>5. i # 1 /\ g[i - 1] # h[i - 1]
  <2>1. s[i] = t[i]
    BY <1>2
  <2> QED BY <1>2, <1>3, <1>4, <2>1
<1>6. i - 1 \in Bad
  BY <1>2, <1>5
<1> HIDE DEF Bad
<1> QED BY <1>1, <1>2, <1>6

\* Small facts about sequences, each of which the provers need on its own.
LEMMA NoLength == ASSUME NEW S, NEW s \in Seq(S), Len(s) = 0 PROVE s = <<>>
OBVIOUS

LEMMA ConcatTyped ==
    ASSUME NEW S, NEW s \in Seq(S), NEW t \in Seq(S)
    PROVE  s \o t \in Seq(S) /\ <<>> \o t = t
OBVIOUS

LEMMA FlattenNone == FlattenSeq(<<>>) = <<>>
<1>1. Len(<<>>) = 0
  OBVIOUS
<1> QED BY <1>1, FlattenIsChosen

LEMMA FlattenValue ==
    ASSUME NEW seqs, NEW n \in Nat \ {0}, Len(seqs) = n
    PROVE  \E g : Flattens(g, seqs, n) /\ FlattenSeq(seqs) = g[n]
<1>1. \E g : Flattens(g, seqs, n)
  BY FlattensExist
<1>2. FlattenSeq(seqs) = (CHOOSE g : Flattens(g, seqs, n))[n]
  BY FlattenIsChosen
<1> QED BY <1>1, <1>2

LEMMA FlattenOneMore ==
    ASSUME NEW S, NEW s \in Seq(Seq(S)), NEW x \in Seq(S)
    PROVE  FlattenSeq(Append(s, x)) = FlattenSeq(s) \o x
<1> DEFINE t == Append(s, x)
<1>1. PICK n \in Nat : n = Len(s)
  OBVIOUS
<1>2. PICK k \in Nat \ {0} : k = n + 1
  BY <1>1
<1>3. Len(t) = k /\ t[k] = x /\ \A i \in 1..n : s[i] = t[i]
  BY <1>1, <1>2
<1> HIDE DEF t
<1>4. PICK h : Flattens(h, t, k) /\ FlattenSeq(t) = h[k]
  BY <1>2, <1>3, FlattenValue
<1>5. h[k] = IF k = 1 THEN t[k] ELSE h[k - 1] \o t[k]
  <2>1. k \in 1..k
    BY <1>2
  <2>2. \A i \in 1..k : h[i] = IF i = 1 THEN t[i] ELSE h[i - 1] \o t[i]
    BY <1>2, <1>4, FlattensLast
  <2> QED BY <2>1, <2>2
<1>6. CASE n = 0
  <2>1. s = <<>>
    BY <1>1, <1>6, NoLength
  <2>2. FlattenSeq(t) = x
    BY <1>2, <1>3, <1>4, <1>5, <1>6
  <2>3. <<>> \o x = x
    BY ConcatTyped
  <2> QED BY <2>1, <2>2, <2>3, FlattenNone DEF t
<1>7. CASE n # 0
  <2>1. PICK g : Flattens(g, s, n) /\ FlattenSeq(s) = g[n]
    <3>1. n \in Nat \ {0} /\ Len(s) = n
      BY <1>1, <1>7
    <3> QED BY <3>1, FlattenValue
  <2>2. n <= k
    BY <1>1, <1>2
  <2>3. g[n] = h[n]
    <3>1. n \in Nat /\ n # 0 /\ k \in Nat
      BY <1>1, <1>2, <1>7
    <3>2. \A i \in 1..n : s[i] = t[i]
      BY <1>3
    <3>3. Flattens(g, s, n) /\ Flattens(h, t, k)
      BY <1>4, <2>1
    <3> QED BY <2>2, <3>1, <3>2, <3>3, FlattensUnique
  <2>4. k # 1 /\ k - 1 = n
    BY <1>1, <1>2, <1>7
  <2> QED BY <1>3, <1>4, <1>5, <2>1, <2>3, <2>4 DEF t
<1> QED BY <1>6, <1>7

LEMMA FlattenTyped ==
    ASSUME NEW S
    PROVE  \A s \in Seq(Seq(S)) : FlattenSeq(s) \in Seq(S)
<1> DEFINE P == {s \in Seq(Seq(S)) : FlattenSeq(s) \in Seq(S)}
<1>1. <<>> \in P
  <2>1. <<>> \in Seq(Seq(S)) /\ <<>> \in Seq(S)
    OBVIOUS
  <2> QED BY <2>1, FlattenNone
<1>2. ASSUME NEW t \in Seq(Seq(S)), NEW x \in Seq(S), t \in P PROVE Append(t, x) \in P
  <2>1. Append(t, x) \in Seq(Seq(S)) /\ FlattenSeq(Append(t, x)) = FlattenSeq(t) \o x
    BY FlattenOneMore
  <2>2. FlattenSeq(t) \in Seq(S)
    BY <1>2
  <2>3. FlattenSeq(t) \o x \in Seq(S)
    BY <2>2, ConcatTyped
  <2> QED BY <2>1, <2>3
<1> HIDE DEF P
<1>3. Seq(Seq(S)) \subseteq P
  BY <1>1, <1>2, SeqInduction
<1> QED BY <1>3 DEF P

=============================================================================
