------------------------------- MODULE SumProofs ------------------------------
(***************************************************************************)
(* Lemmas about sums over finite sets, SumFunctionOnSet of the community   *)
(* modules.  A sum is a fold, defined by recursion over subsets; induction *)
(* is here the choice of a least counterexample, as strict inclusion of    *)
(* finite sets is well founded.                                            *)
(***************************************************************************)
EXTENDS FiniteSetsExt, FiniteSetTheorems, WellFoundedInduction, TLAPS

-------------------------------------------------------------------------------
(* Induction over the subsets of a finite set.                             *)

(* If there is a subset in Bad there is one with no strict subset in Bad.  *)
LEMMA LeastSubset ==
  ASSUME NEW S, IsFiniteSet(S), NEW Bad \in SUBSET SUBSET S, Bad # {}
  PROVE  \E T \in Bad : \A U \in Bad : ~(U \subseteq T /\ U # T)
<1>1. IsWellFoundedOn(StrictSubsetOrdering(S), FiniteSubsetsOf(S))
  BY FS_StrictSubsetOrderingWellFounded
<1>2. FiniteSubsetsOf(S) = SUBSET S
  BY FS_FiniteSubsetsOfFinite
<1>3. PICK T \in Bad : \A U \in Bad : ~(<<U, T>> \in StrictSubsetOrdering(S))
  BY <1>1, <1>2, WFMin
<1>4. ASSUME NEW U \in Bad, U \subseteq T, U # T
      PROVE  FALSE
  <2>1. <<U, T>> \in StrictSubsetOrdering(S)
    BY <1>4 DEF StrictSubsetOrdering
  <2> QED
    BY <1>3, <2>1
<1> QED
  BY <1>4

-------------------------------------------------------------------------------
(* The recursion is well defined.                                          *)

Pick(S) == CHOOSE x \in S : TRUE

(* A set without the element the fold takes first.                         *)
Rest(S) == S \ {Pick(S)}

(* What is left is a strict subset.                                        *)
LEMMA RestIsLess ==
  ASSUME NEW S, S # {}
  PROVE  Pick(S) \in S /\ Rest(S) \subseteq S /\ Rest(S) # S
BY DEF Pick, Rest

(* g gives the sum of f over each subset of S.                             *)
Sums(f, S, g) ==
  g = [s \in SUBSET S |-> IF s = {} THEN 0 ELSE f[Pick(s)] + g[Rest(s)]]

(* The fold is the value such a g has on the whole set.                    *)
LEMMA SumIsSums ==
  ASSUME NEW f, NEW S
  PROVE  SumFunctionOnSet(f, S) = (CHOOSE g : Sums(f, S, g))[S]
BY DEF SumFunctionOnSet, FoldFunctionOnSet, MapThenFoldSet, Sums, Pick, Rest

(* Sums over the subsets of two sets agree where both are defined.         *)
LEMMA SumsAgree ==
  ASSUME NEW f, NEW S, IsFiniteSet(S), NEW g, Sums(f, S, g),
         NEW T \in SUBSET S, NEW h, Sums(f, T, h)
  PROVE  \A s \in SUBSET T : g[s] = h[s]
<1> DEFINE Bad == {s \in SUBSET T : g[s] # h[s]}
<1>1. SUFFICES ASSUME Bad # {}
               PROVE  FALSE
  OBVIOUS
<1>2. IsFiniteSet(T)
  BY FS_Subset
<1>3. PICK s \in Bad : \A u \in Bad : ~(u \subseteq s /\ u # s)
  <2>1. Bad \in SUBSET SUBSET T
    OBVIOUS
  <2> HIDE DEF Bad
  <2> QED
    BY <1>1, <1>2, <2>1, LeastSubset
<1>4. s \subseteq T /\ s \subseteq S /\ g[s] # h[s]
  BY <1>3
<1>5. /\ g[s] = IF s = {} THEN 0 ELSE f[Pick(s)] + g[Rest(s)]
      /\ h[s] = IF s = {} THEN 0 ELSE f[Pick(s)] + h[Rest(s)]
  BY <1>4 DEF Sums
<1>6. s # {}
  BY <1>4, <1>5
<1>7. Rest(s) \subseteq s /\ Rest(s) # s
  BY <1>6, RestIsLess
<1>8. g[Rest(s)] = h[Rest(s)]
  BY <1>3, <1>4, <1>7
<1> QED
  BY <1>4, <1>5, <1>8

(* A least set without such a g would get one from those of its subsets.   *)
LEMMA SumsExist ==
  ASSUME NEW f, NEW S, IsFiniteSet(S)
  PROVE  \E g : Sums(f, S, g)
<1> DEFINE Bad == {T \in SUBSET S : ~\E g : Sums(f, T, g)}
<1>1. SUFFICES ASSUME Bad # {}
               PROVE  FALSE
  OBVIOUS
<1>2. PICK T \in Bad : \A U \in Bad : ~(U \subseteq T /\ U # T)
  <2>1. Bad \in SUBSET SUBSET S
    OBVIOUS
  <2> HIDE DEF Bad
  <2> QED
    BY <1>1, <2>1, LeastSubset
<1> DEFINE H(U) == CHOOSE g : Sums(f, U, g)
           g    == [s \in SUBSET T |-> IF s = {} THEN 0
                                       ELSE f[Pick(s)] + H(Rest(s))[Rest(s)]]
<1>3. ASSUME NEW U, U \subseteq T, U # T
      PROVE  Sums(f, U, H(U)) /\ IsFiniteSet(U)
  <2>1. T \subseteq S
    BY <1>2
  <2>2. U \in SUBSET S
    BY <1>3, <2>1
  <2>3. \E k : Sums(f, U, k)
    BY <1>2, <1>3, <2>2
  <2> QED
    BY <2>2, <2>3, FS_Subset
<1>4. ASSUME NEW s \in SUBSET T, s # {}
      PROVE  g[Rest(s)] = H(Rest(s))[Rest(s)]
  <2> DEFINE u == Rest(s)
  <2>1. u \subseteq s /\ u # s /\ s \subseteq T
    BY <1>4, RestIsLess
  <2>2. u \subseteq T /\ u # T
    BY <2>1
  <2>3. Sums(f, u, H(u)) /\ IsFiniteSet(u)
    BY <1>3, <2>2
  <2> HIDE DEF u, H
  <2>4. H(u)[u] = IF u = {} THEN 0 ELSE f[Pick(u)] + H(u)[Rest(u)]
    BY <2>3 DEF Sums
  <2>5. g[u] = IF u = {} THEN 0 ELSE f[Pick(u)] + H(Rest(u))[Rest(u)]
    BY <2>2
  <2>6. ASSUME u # {}
        PROVE  H(Rest(u))[Rest(u)] = H(u)[Rest(u)]
    <3>1. Rest(u) \subseteq u /\ Rest(u) \subseteq T /\ Rest(u) # T
      BY <2>2, <2>6, RestIsLess
    <3>2. Sums(f, Rest(u), H(Rest(u)))
      BY <1>3, <3>1
    <3> QED
      BY <2>3, <3>1, <3>2, SumsAgree
  <2>7. g[u] = H(u)[u]
    BY <2>4, <2>5, <2>6
  <2> QED
    BY <2>7 DEF u
<1>5. Sums(f, T, g)
  <2> HIDE DEF H
  <2>1. g = [s \in SUBSET T |-> IF s = {} THEN 0 ELSE f[Pick(s)] + g[Rest(s)]]
    BY <1>4
  <2> QED
    BY <2>1 DEF Sums
<1> QED
  BY <1>2, <1>5

-------------------------------------------------------------------------------
(* Sums, one element at a time.                                            *)

Sum(f, S) == SumFunctionOnSet(f, S)

(* Any such g gives the sum.                                               *)
LEMMA SumValue ==
  ASSUME NEW f, NEW S, IsFiniteSet(S), NEW g, Sums(f, S, g)
  PROVE  Sum(f, S) = g[S]
<1> DEFINE h == CHOOSE k : Sums(f, S, k)
<1>1. Sums(f, S, h)
  BY SumsExist
<1>2. Sum(f, S) = h[S]
  BY SumIsSums DEF Sum
<1> HIDE DEF h
<1>3. h[S] = g[S]
  BY <1>1, SumsAgree
<1> QED
  BY <1>2, <1>3

(* The sum of nothing.                                                     *)
LEMMA SumEmpty ==
  ASSUME NEW f
  PROVE  Sum(f, {}) = 0
<1>1. IsFiniteSet({})
  BY FS_EmptySet
<1>2. PICK g : Sums(f, {}, g)
  BY <1>1, SumsExist
<1>3. g[{}] = 0
  BY <1>2 DEF Sums
<1> QED
  BY <1>1, <1>2, <1>3, SumValue

(* The fold takes the chosen element and sums the rest.                    *)
LEMMA SumFirst ==
  ASSUME NEW f, NEW S, IsFiniteSet(S), S # {}
  PROVE  Sum(f, S) = f[Pick(S)] + Sum(f, Rest(S))
<1>1. PICK g : Sums(f, S, g)
  BY SumsExist
<1>2. Rest(S) \subseteq S /\ IsFiniteSet(Rest(S))
  BY RestIsLess, FS_Subset
<1>3. PICK h : Sums(f, Rest(S), h)
  BY <1>2, SumsExist
<1>4. g[S] = f[Pick(S)] + g[Rest(S)]
  BY <1>1 DEF Sums
<1>5. g[Rest(S)] = h[Rest(S)]
  BY <1>1, <1>2, <1>3, SumsAgree
<1> QED
  BY <1>1, <1>2, <1>3, <1>4, <1>5, SumValue

(* A sum of natural numbers is one.                                        *)
LEMMA SumNat ==
  ASSUME NEW f, NEW S, IsFiniteSet(S), \A x \in S : f[x] \in Nat
  PROVE  Sum(f, S) \in Nat
<1> DEFINE Bad == {T \in SUBSET S : Sum(f, T) \notin Nat}
<1>1. SUFFICES ASSUME Bad # {}
               PROVE  FALSE
  OBVIOUS
<1>2. PICK T \in Bad : \A U \in Bad : ~(U \subseteq T /\ U # T)
  <2>1. Bad \in SUBSET SUBSET S
    OBVIOUS
  <2> HIDE DEF Bad
  <2> QED
    BY <1>1, <2>1, LeastSubset
<1>3. T \subseteq S /\ Sum(f, T) \notin Nat /\ IsFiniteSet(T)
  BY <1>2, FS_Subset
<1>4. T # {}
  BY <1>3, SumEmpty
<1>5. Pick(T) \in T /\ Rest(T) \subseteq T /\ Rest(T) # T
  BY <1>4, RestIsLess
<1>6. Sum(f, Rest(T)) \in Nat
  BY <1>2, <1>3, <1>5
<1>7. f[Pick(T)] \in Nat
  BY <1>3, <1>5
<1>8. Sum(f, T) = f[Pick(T)] + Sum(f, Rest(T))
  BY <1>3, <1>4, SumFirst
<1> QED
  BY <1>3, <1>6, <1>7, <1>8

(* Any element can be taken out first.                                     *)
LEMMA SumTake ==
  ASSUME NEW f, NEW S, IsFiniteSet(S), \A y \in S : f[y] \in Nat, NEW x \in S
  PROVE  Sum(f, S) = f[x] + Sum(f, S \ {x})
<1> DEFINE Takes(T) == \A e \in T : Sum(f, T) = f[e] + Sum(f, T \ {e})
           Bad      == {T \in SUBSET S : ~Takes(T)}
<1>1. SUFFICES ASSUME Bad # {}
               PROVE  FALSE
  OBVIOUS
<1>2. PICK T \in Bad : \A U \in Bad : ~(U \subseteq T /\ U # T)
  <2>1. Bad \in SUBSET SUBSET S
    OBVIOUS
  <2> HIDE DEF Bad
  <2> QED
    BY <1>1, <2>1, LeastSubset
<1>3. T \subseteq S /\ IsFiniteSet(T) /\ ~Takes(T)
  BY <1>2, FS_Subset
<1>4. PICK e \in T : Sum(f, T) # f[e] + Sum(f, T \ {e})
  BY <1>3
<1> DEFINE c == Pick(T)
           U == T \ {c}
           V == T \ {e}
<1>5. c \in T /\ Sum(f, T) = f[c] + Sum(f, U)
  BY <1>3, <1>4, RestIsLess, SumFirst DEF Rest
<1> HIDE DEF c
<1>6. c # e
  BY <1>4, <1>5
<1>7. \A W \in SUBSET T : W # T => Takes(W)
  BY <1>2, <1>3
<1>8. e \in U /\ U \in SUBSET T /\ U # T /\ c \in V /\ V \in SUBSET T /\ V # T
  BY <1>4, <1>5, <1>6
<1> HIDE DEF U, V
<1>9. Takes(U) /\ Takes(V)
  BY <1>7, <1>8
<1> HIDE DEF Takes
<1>10. /\ Sum(f, U) = f[e] + Sum(f, U \ {e})
       /\ Sum(f, V) = f[c] + Sum(f, V \ {c})
  BY <1>8, <1>9 DEF Takes
<1>11. U \ {e} = V \ {c}
  BY DEF U, V
<1>12. f[c] \in Nat /\ f[e] \in Nat /\ Sum(f, U \ {e}) \in Nat
  <2>1. U \ {e} \subseteq S
    BY <1>3 DEF U
  <2>2. IsFiniteSet(U \ {e}) /\ \A y \in U \ {e} : f[y] \in Nat
    BY <2>1, FS_Subset
  <2>3. Sum(f, U \ {e}) \in Nat
    BY <2>2, SumNat
  <2> QED
    BY <1>3, <1>4, <1>5, <2>3
<1>13. Sum(f, T) # f[e] + Sum(f, V)
  BY <1>4 DEF V
<1> QED
  BY <1>5, <1>10, <1>11, <1>12, <1>13

(* A set with one more element.                                            *)
LEMMA SumAdd ==
  ASSUME NEW f, NEW S, IsFiniteSet(S), NEW x, x \notin S, \A y \in S \cup {x} : f[y] \in Nat
  PROVE  Sum(f, S \cup {x}) = f[x] + Sum(f, S)
<1>1. IsFiniteSet(S \cup {x})
  BY FS_AddElement
<1>2. (S \cup {x}) \ {x} = S
  OBVIOUS
<1> QED
  BY <1>1, <1>2, SumTake

(* Only the values on the set count.                                       *)
LEMMA SumSame ==
  ASSUME NEW f, NEW g, NEW S, IsFiniteSet(S), \A x \in S : f[x] = g[x]
  PROVE  Sum(f, S) = Sum(g, S)
<1> DEFINE Bad == {T \in SUBSET S : Sum(f, T) # Sum(g, T)}
<1>1. SUFFICES ASSUME Bad # {}
               PROVE  FALSE
  OBVIOUS
<1>2. PICK T \in Bad : \A U \in Bad : ~(U \subseteq T /\ U # T)
  <2>1. Bad \in SUBSET SUBSET S
    OBVIOUS
  <2> HIDE DEF Bad
  <2> QED
    BY <1>1, <2>1, LeastSubset
<1>3. T \subseteq S /\ IsFiniteSet(T) /\ Sum(f, T) # Sum(g, T)
  BY <1>2, FS_Subset
<1>4. T # {}
  BY <1>3, SumEmpty
<1>5. Pick(T) \in T /\ Rest(T) \subseteq T /\ Rest(T) # T
  BY <1>4, RestIsLess
<1>6. Sum(f, Rest(T)) = Sum(g, Rest(T)) /\ f[Pick(T)] = g[Pick(T)]
  BY <1>2, <1>3, <1>5
<1> QED
  BY <1>3, <1>4, <1>6, SumFirst

(* Two sets without a common element.                                      *)
LEMMA SumUnion ==
  ASSUME NEW f, NEW S, IsFiniteSet(S), NEW R, IsFiniteSet(R), S \cap R = {},
         \A x \in S \cup R : f[x] \in Nat
  PROVE  Sum(f, S \cup R) = Sum(f, S) + Sum(f, R)
<1> DEFINE Bad == {T \in SUBSET R : Sum(f, S \cup T) # Sum(f, S) + Sum(f, T)}
<1>1. SUFFICES ASSUME Bad # {}
               PROVE  FALSE
  OBVIOUS
<1>2. PICK T \in Bad : \A U \in Bad : ~(U \subseteq T /\ U # T)
  <2>1. Bad \in SUBSET SUBSET R
    OBVIOUS
  <2> HIDE DEF Bad
  <2> QED
    BY <1>1, <2>1, LeastSubset
<1>3. T \subseteq R /\ IsFiniteSet(T) /\ Sum(f, S \cup T) # Sum(f, S) + Sum(f, T)
  BY <1>2, FS_Subset
<1>4. Sum(f, S) \in Nat
  BY SumNat
<1>5. T # {}
  <2>1. S \cup {} = S /\ Sum(f, {}) = 0
    BY SumEmpty
  <2> QED
    BY <1>3, <1>4, <2>1
<1>6. PICK x \in T : TRUE
  BY <1>5
<1> DEFINE U == T \ {x}
<1>7. U \subseteq T /\ U # T /\ U \in SUBSET R /\ x \notin U /\ x \notin S
  BY <1>3, <1>6
<1>8. Sum(f, S \cup U) = Sum(f, S) + Sum(f, U)
  BY <1>2, <1>7
<1>9. IsFiniteSet(U) /\ IsFiniteSet(S \cup U)
  BY <1>3, <1>7, FS_Subset, FS_Union
<1>10. S \cup T = (S \cup U) \cup {x} /\ T = U \cup {x}
  BY <1>6
<1>11. Sum(f, U) \in Nat /\ f[x] \in Nat
  BY <1>3, <1>6, <1>7, <1>9, SumNat
<1> HIDE DEF U
<1>12. Sum(f, T) = f[x] + Sum(f, U)
  BY <1>3, <1>7, <1>9, <1>10, SumAdd
<1>13. Sum(f, S \cup T) = f[x] + Sum(f, S \cup U)
  <2>1. \A y \in (S \cup U) \cup {x} : f[y] \in Nat
    BY <1>3, <1>10
  <2>2. x \notin S \cup U
    BY <1>7
  <2> QED
    BY <1>9, <1>10, <2>1, <2>2, SumAdd
<1> QED
  BY <1>3, <1>4, <1>8, <1>11, <1>12, <1>13

(* Where the values are zero nothing is added.                             *)
LEMMA SumZero ==
  ASSUME NEW f, NEW S, IsFiniteSet(S), \A x \in S : f[x] = 0
  PROVE  Sum(f, S) = 0
<1> DEFINE Bad == {T \in SUBSET S : Sum(f, T) # 0}
<1>1. SUFFICES ASSUME Bad # {}
               PROVE  FALSE
  OBVIOUS
<1>2. PICK T \in Bad : \A U \in Bad : ~(U \subseteq T /\ U # T)
  <2>1. Bad \in SUBSET SUBSET S
    OBVIOUS
  <2> HIDE DEF Bad
  <2> QED
    BY <1>1, <2>1, LeastSubset
<1>3. T \subseteq S /\ IsFiniteSet(T) /\ Sum(f, T) # 0
  BY <1>2, FS_Subset
<1>4. T # {}
  BY <1>3, SumEmpty
<1>5. Pick(T) \in T /\ Rest(T) \subseteq T /\ Rest(T) # T
  BY <1>4, RestIsLess
<1>6. Sum(f, Rest(T)) = 0 /\ f[Pick(T)] = 0
  BY <1>2, <1>3, <1>5
<1> QED
  BY <1>3, <1>4, <1>6, SumFirst

(* Elements without a value may be left out.                               *)
LEMMA SumSupport ==
  ASSUME NEW f, NEW S, IsFiniteSet(S), \A x \in S : f[x] \in Nat,
         NEW T \in SUBSET S, \A x \in S \ T : f[x] = 0
  PROVE  Sum(f, S) = Sum(f, T)
<1>1. IsFiniteSet(T) /\ IsFiniteSet(S \ T)
  BY FS_Subset
<1>2. S = T \cup (S \ T) /\ T \cap (S \ T) = {}
  OBVIOUS
<1> DEFINE R == S \ T
<1>3. \A x \in T \cup R : f[x] \in Nat
  BY <1>2
<1>4. Sum(f, R) = 0
  BY <1>1, SumZero
<1>5. Sum(f, T) \in Nat
  BY <1>1, SumNat
<1> HIDE DEF R
<1>6. Sum(f, T \cup R) = Sum(f, T) + Sum(f, R)
  BY <1>1, <1>2, <1>3, SumUnion DEF R
<1>7. S = T \cup R
  BY DEF R
<1> QED
  BY <1>4, <1>5, <1>6, <1>7

(* A set has as many elements as there are ones to add up.                 *)
LEMMA SumOnes ==
  ASSUME NEW f, NEW S, IsFiniteSet(S), \A x \in S : f[x] = 1
  PROVE  Sum(f, S) = Cardinality(S)
<1> DEFINE Bad == {T \in SUBSET S : Sum(f, T) # Cardinality(T)}
<1>1. SUFFICES ASSUME Bad # {}
               PROVE  FALSE
  OBVIOUS
<1>2. PICK T \in Bad : \A U \in Bad : ~(U \subseteq T /\ U # T)
  <2>1. Bad \in SUBSET SUBSET S
    OBVIOUS
  <2> HIDE DEF Bad
  <2> QED
    BY <1>1, <2>1, LeastSubset
<1>3. T \subseteq S /\ IsFiniteSet(T) /\ Sum(f, T) # Cardinality(T)
  BY <1>2, FS_Subset
<1>4. T # {}
  BY <1>3, SumEmpty, FS_EmptySet
<1>5. Pick(T) \in T /\ Rest(T) \subseteq T /\ Rest(T) # T
  BY <1>4, RestIsLess
<1>6. Sum(f, Rest(T)) = Cardinality(Rest(T)) /\ f[Pick(T)] = 1
  BY <1>2, <1>3, <1>5
<1>7. Cardinality(Rest(T)) = Cardinality(T) - 1 /\ Cardinality(T) \in Nat
  BY <1>3, <1>5, FS_RemoveElement, FS_CardinalityType DEF Rest
<1> QED
  BY <1>3, <1>4, <1>6, <1>7, SumFirst

(* The same sum under other names: h maps S one to one onto R.             *)
LEMMA SumRenamed ==
  ASSUME NEW f, NEW S, IsFiniteSet(S), NEW g, NEW R, NEW h,
         R = {h[x] : x \in S},
         \A x, y \in S : h[x] = h[y] => x = y,
         \A x \in S : f[x] = g[h[x]] /\ f[x] \in Nat
  PROVE  Sum(f, S) = Sum(g, R)
<1> DEFINE Of(T) == {h[x] : x \in T}
           Bad   == {T \in SUBSET S : ~(IsFiniteSet(Of(T)) /\ Sum(f, T) = Sum(g, Of(T)))}
<1>1. SUFFICES ASSUME Bad # {}
               PROVE  FALSE
  <2>1. S \notin Bad
    BY <1>1
  <2> QED
    BY <2>1
<1>2. PICK T \in Bad : \A U \in Bad : ~(U \subseteq T /\ U # T)
  <2>1. Bad \in SUBSET SUBSET S
    OBVIOUS
  <2> HIDE DEF Bad
  <2> QED
    BY <1>1, <2>1, LeastSubset
<1>3. T \subseteq S /\ IsFiniteSet(T) /\ ~(IsFiniteSet(Of(T)) /\ Sum(f, T) = Sum(g, Of(T)))
  BY <1>2, FS_Subset
<1>4. T # {}
  <2>1. SUFFICES ASSUME T = {}
                 PROVE  FALSE
    OBVIOUS
  <2>2. Of(T) = {}
    BY <2>1
  <2> QED
    BY <1>3, <2>1, <2>2, SumEmpty, FS_EmptySet
<1>5. PICK x \in T : TRUE
  BY <1>4
<1> DEFINE U == T \ {x}
<1>6. U \subseteq T /\ U # T /\ U \in SUBSET S /\ x \notin U /\ T = U \cup {x}
  BY <1>3, <1>5
<1>7. IsFiniteSet(U) /\ IsFiniteSet(Of(U)) /\ Sum(f, U) = Sum(g, Of(U))
  BY <1>2, <1>3, <1>6, FS_Subset
<1> HIDE DEF U
<1>8. Of(T) = Of(U) \cup {h[x]} /\ h[x] \notin Of(U)
  BY <1>3, <1>5, <1>6
<1>9. \A z \in Of(T) : g[z] \in Nat
  BY <1>3
<1> HIDE DEF Of
<1>10. IsFiniteSet(Of(T))
  BY <1>7, <1>8, FS_AddElement
<1>11. Sum(g, Of(T)) = g[h[x]] + Sum(g, Of(U))
  BY <1>7, <1>8, <1>9, SumAdd
<1>12. Sum(f, T) = f[x] + Sum(f, U)
  <2>1. \A y \in U \cup {x} : f[y] \in Nat
    BY <1>3, <1>6
  <2> QED
    BY <1>6, <1>7, <2>1, SumAdd
<1>13. f[x] = g[h[x]]
  BY <1>3, <1>5
<1> QED
  BY <1>3, <1>7, <1>10, <1>11, <1>12, <1>13

(* A part is not more than the whole.                                      *)
LEMMA SumPart ==
  ASSUME NEW f, NEW S, IsFiniteSet(S), \A x \in S : f[x] \in Nat, NEW T \in SUBSET S
  PROVE  Sum(f, T) \in Nat /\ Sum(f, T) <= Sum(f, S) /\ IsFiniteSet(T)
<1> DEFINE R == S \ T
<1>1. IsFiniteSet(T) /\ IsFiniteSet(R) /\ T \cup R = S /\ T \cap R = {}
  BY FS_Subset
<1>2. (\A x \in T : f[x] \in Nat) /\ (\A x \in R : f[x] \in Nat)
  OBVIOUS
<1> HIDE DEF R
<1>3. Sum(f, T) \in Nat /\ Sum(f, R) \in Nat
  BY <1>1, <1>2, SumNat
<1>4. Sum(f, T \cup R) = Sum(f, T) + Sum(f, R)
  <2>1. \A x \in T \cup R : f[x] \in Nat
    BY <1>2
  <2> QED
    BY <1>1, <2>1, SumUnion
<1>5. Sum(f, S) = Sum(f, T) + Sum(f, R)
  BY <1>1, <1>4
<1> QED
  BY <1>1, <1>3, <1>5

(* Adding up by groups: h tells the group an element belongs to.           *)
Groups(h, S)   == {h[x] : x \in S}
Group(h, S, k) == {x \in S : h[x] = k}

(* The sums of the groups add up to the sum.                               *)
LEMMA SumGroups ==
  ASSUME NEW f, NEW S, IsFiniteSet(S), \A x \in S : f[x] \in Nat, NEW h
  PROVE  /\ IsFiniteSet(Groups(h, S))
         /\ Sum([k \in Groups(h, S) |-> Sum(f, Group(h, S, k))], Groups(h, S)) = Sum(f, S)
<1> DEFINE Parts(T) == [k \in Groups(h, T) |-> Sum(f, Group(h, T, k))]
           Good(T)  == /\ IsFiniteSet(Groups(h, T))
                       /\ Sum(Parts(T), Groups(h, T)) = Sum(f, T)
           Bad      == {T \in SUBSET S : ~Good(T)}
<1>1. SUFFICES ASSUME Bad # {}
               PROVE  FALSE
  <2>1. S \notin Bad
    BY <1>1
  <2> QED
    BY <2>1
<1>2. PICK T \in Bad : \A U \in Bad : ~(U \subseteq T /\ U # T)
  <2>1. Bad \in SUBSET SUBSET S
    OBVIOUS
  <2> HIDE DEF Bad
  <2> QED
    BY <1>1, <2>1, LeastSubset
<1>3. T \subseteq S /\ IsFiniteSet(T) /\ ~Good(T) /\ \A x \in T : f[x] \in Nat
  BY <1>2, FS_Subset
<1>4. \A U \in SUBSET T : U # T => Good(U)
  BY <1>2, <1>3
<1> HIDE DEF Bad
<1>5. T # {}
  <2>1. SUFFICES ASSUME T = {}
                 PROVE  FALSE
    OBVIOUS
  <2>2. Groups(h, T) = {}
    BY <2>1 DEF Groups
  <2> HIDE DEF Parts
  <2>3. IsFiniteSet({}) /\ Sum(Parts(T), {}) = 0 /\ Sum(f, {}) = 0
    BY SumEmpty, FS_EmptySet
  <2> QED
    BY <1>3, <2>1, <2>2, <2>3
<1>6. PICK x \in T : TRUE
  BY <1>5
<1> DEFINE k == h[x]
           U == {y \in T : h[y] # k}
           G == Group(h, T, k)
           L == Groups(h, U)
<1>7. /\ U \in SUBSET T /\ U # T /\ T = U \cup G /\ U \cap G = {}
      /\ Groups(h, T) = L \cup {k} /\ k \notin L
      /\ \A j \in L : Group(h, T, j) = Group(h, U, j)
  BY <1>6 DEF Group, Groups
<1>8. IsFiniteSet(L) /\ Sum(Parts(U), L) = Sum(f, U)
  BY <1>4, <1>7
<1>9. /\ IsFiniteSet(U) /\ IsFiniteSet(G)
      /\ Sum(f, U) \in Nat /\ Sum(f, G) \in Nat /\ Sum(f, T) = Sum(f, U) + Sum(f, G)
  <2>1. IsFiniteSet(U) /\ IsFiniteSet(G) /\ (\A y \in U \cup G : f[y] \in Nat)
    BY <1>3, <1>7, FS_Subset
  <2> HIDE DEF U, G
  <2> QED
    BY <1>7, <2>1, SumNat, SumUnion
<1>10. \A j \in Groups(h, T) : Parts(T)[j] = Sum(f, Group(h, T, j)) /\ Parts(T)[j] \in Nat
  <2>1. ASSUME NEW j \in Groups(h, T)
        PROVE  Sum(f, Group(h, T, j)) \in Nat
    <3>1. Group(h, T, j) \in SUBSET T
      BY DEF Group
    <3> QED
      BY <1>3, <3>1, SumPart
  <2> QED
    BY <2>1
<1>11. \A j \in L : Parts(U)[j] = Sum(f, Group(h, U, j))
  OBVIOUS
<1> HIDE DEF Parts, U, G, L, k
<1>12. Sum(Parts(T), L \cup {k}) = Parts(T)[k] + Sum(Parts(T), L)
  BY <1>7, <1>8, <1>10, SumAdd
<1>13. Sum(Parts(T), L) = Sum(Parts(U), L)
  <2>1. \A j \in L : Parts(T)[j] = Parts(U)[j]
    BY <1>7, <1>10, <1>11
  <2> QED
    BY <1>8, <2>1, SumSame
<1>14. Parts(T)[k] = Sum(f, G)
  BY <1>7, <1>10 DEF G
<1>15. IsFiniteSet(Groups(h, T))
  <2>1. IsFiniteSet(L \cup {k})
    BY <1>8, FS_AddElement
  <2> QED
    BY <1>7, <2>1
<1> QED
  BY <1>3, <1>7, <1>8, <1>9, <1>12, <1>13, <1>14, <1>15

(* The same when the sums come under names: n names the groups, g has the  *)
(* sum of each under its name.                                             *)
LEMMA SumNamedGroups ==
  ASSUME NEW f, NEW S, IsFiniteSet(S), \A x \in S : f[x] \in Nat, NEW h,
         NEW n, NEW R, R = {n[k] : k \in Groups(h, S)},
         \A j, k \in Groups(h, S) : n[j] = n[k] => j = k,
         NEW g, \A k \in Groups(h, S) : g[n[k]] = Sum(f, Group(h, S, k))
  PROVE  Sum(g, R) = Sum(f, S)
<1> DEFINE K     == Groups(h, S)
           parts == [k \in K |-> Sum(f, Group(h, S, k))]
<1>1. IsFiniteSet(K) /\ Sum(parts, K) = Sum(f, S)
  BY SumGroups
<1>2. \A k \in K : parts[k] = g[n[k]] /\ parts[k] \in Nat
  <2>1. ASSUME NEW k \in K
        PROVE  Sum(f, Group(h, S, k)) \in Nat
    <3>1. Group(h, S, k) \in SUBSET S
      BY DEF Group
    <3> QED
      BY <3>1, SumPart
  <2> QED
    BY <2>1
<1> HIDE DEF parts, K
<1>3. R = {n[x] : x \in K} /\ \A x, y \in K : n[x] = n[y] => x = y
  BY DEF K
<1>4. \A x \in K : parts[x] = g[n[x]] /\ parts[x] \in Nat
  BY <1>2
<1>5. Sum(parts, K) = Sum(g, R)
  BY <1>1, <1>3, <1>4, SumRenamed
<1> QED
  BY <1>1, <1>5

(* The values of a function on a finite set are finitely many, and no more *)
(* than its elements.                                                      *)
LEMMA FiniteImage ==
  ASSUME NEW S, IsFiniteSet(S), NEW h
  PROVE  /\ IsFiniteSet({h[x] : x \in S})
         /\ Cardinality({h[x] : x \in S}) <= Cardinality(S)
<1> DEFINE T == {h[x] : x \in S}
           g == [x \in S |-> h[x]]
<1>1. g \in Surjection(S, T)
  BY DEF Surjection
<1> HIDE DEF T, g
<1>2. IsFiniteSet(T) /\ Cardinality(T) <= Cardinality(S)
  BY <1>1, FS_Surjection
<1> QED
  BY <1>2 DEF T

(* A finite set of numbers has a least and a greatest one.                 *)
LEMMA Extremes ==
  ASSUME NEW S, IsFiniteSet(S), S # {}, \A x \in S : x \in Nat
  PROVE  /\ Min(S) \in S /\ Max(S) \in S
         /\ \A x \in S : Min(S) <= x /\ x <= Max(S)
<1> DEFINE Has(T) == \E m, n \in T : \A x \in T : m <= x /\ x <= n
           Bad    == {T \in SUBSET S : T # {} /\ ~Has(T)}
<1>1. Has(S)
  <2>1. SUFFICES ASSUME Bad # {}
                 PROVE  FALSE
    OBVIOUS
  <2>2. PICK T \in Bad : \A U \in Bad : ~(U \subseteq T /\ U # T)
    <3>1. Bad \in SUBSET SUBSET S
      OBVIOUS
    <3> HIDE DEF Bad, Has
    <3> QED
      BY <2>1, <3>1, LeastSubset
  <2>3. T \in SUBSET S /\ T # {} /\ ~Has(T) /\ \A y \in T : y \in Nat
    BY <2>2
  <2>4. PICK x \in T : TRUE
    BY <2>3
  <2> DEFINE U == T \ {x}
  <2>5. U # {}
    <3>1. SUFFICES ASSUME U = {}
                   PROVE  FALSE
      OBVIOUS
    <3>2. \A y \in T : y = x /\ x \in Nat
      BY <2>3, <3>1
    <3>3. \A y \in T : x <= y /\ y <= x
      BY <3>2
    <3> QED
      BY <2>3, <2>4, <3>3
  <2>6. U \in SUBSET S /\ U \subseteq T /\ U # T
    BY <2>3, <2>4
  <2>7. Has(U)
    <3> HIDE DEF Has, U
    <3> QED
      BY <2>2, <2>5, <2>6
  <2>8. PICK m, n \in U : \A y \in U : m <= y /\ y <= n
    BY <2>7
  <2>9. /\ x \in Nat /\ m \in Nat /\ n \in Nat /\ m \in T /\ n \in T
        /\ \A y \in T : y \in Nat /\ (y = x \/ (m <= y /\ y <= n))
    BY <2>3, <2>4, <2>8
  <2>10. PICK a \in T : \A y \in T : a <= y
    <3>1. CASE x <= m
      <4>1. \A y \in T : x <= y
        BY <2>9, <3>1
      <4> QED
        BY <2>4, <4>1
    <3>2. CASE m <= x
      <4>1. \A y \in T : m <= y
        BY <2>9, <3>2
      <4> QED
        BY <2>9, <4>1
    <3> QED
      BY <2>9, <3>1, <3>2
  <2>11. PICK b \in T : \A y \in T : y <= b
    <3>1. CASE n <= x
      <4>1. \A y \in T : y <= x
        BY <2>9, <3>1
      <4> QED
        BY <2>4, <4>1
    <3>2. CASE x <= n
      <4>1. \A y \in T : y <= n
        BY <2>9, <3>2
      <4> QED
        BY <2>9, <4>1
    <3> QED
      BY <2>9, <3>1, <3>2
  <2> QED
    BY <2>3, <2>10, <2>11
<1>2. PICK m, n \in S : \A x \in S : m <= x /\ x <= n
  BY <1>1
<1>3. Min(S) \in S /\ \A x \in S : Min(S) <= x
  BY <1>2 DEF Min
<1>4. Max(S) \in S /\ \A x \in S : Max(S) >= x
  BY <1>2 DEF Max
<1> QED
  BY <1>3, <1>4
===============================================================================
