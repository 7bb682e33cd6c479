---------------------------- MODULE SumTheorems ----------------------------
(***************************************************************************)
(* What SumFunctionOnSet(f, S), the sum of f over a finite set S, is for   *)
(* every f and S: it does not depend on the order in which the elements    *)
(* are taken, elements can be added and removed, and it grows with S when  *)
(* f is nowhere negative.  The sum is a recursive function on the subsets  *)
(* of S, so each of these is shown for a smallest set for which it would   *)
(* fail (SmallestSet).  That and LeastNumber are for other recursive       *)
(* functions too.                                                          *)
(***************************************************************************)
EXTENDS Integers, FiniteSetsExt, FiniteSetTheorems, WellFoundedInduction, TLAPS

\* Among finite sets there is one that has no other inside it.
LEMMA SmallestSet ==
  ASSUME NEW S, IsFiniteSet(S), NEW T \in SUBSET SUBSET S, T # {}
  PROVE  \E X \in T : \A Y \in T : Y \subseteq X => Y = X
<1>1. IsWellFoundedOn(StrictSubsetOrdering(S), FiniteSubsetsOf(S))
  BY FS_StrictSubsetOrderingWellFounded, Zenon
<1>2. T \subseteq FiniteSubsetsOf(S)
  BY FS_FiniteSubsetsOfFinite
<1>3. \E X \in T : \A Y \in T : <<Y, X>> \notin StrictSubsetOrdering(S)
  BY <1>1, <1>2, WFMin, Zenon
<1> QED
  BY <1>3 DEF StrictSubsetOrdering

\* Every set of numbers that has one has a least one.
LEMMA LeastNumber ==
  ASSUME NEW T \in SUBSET Nat, T # {}
  PROVE  \E x \in T : \A y \in T : x <= y
<1>1. \E x \in T : \A y \in T : <<y, x>> \notin OpToRel(<, Nat)
  BY WFMin, NatLessThanWellFounded, Zenon
<1>2. PICK x \in T : \A y \in T : <<y, x>> \notin OpToRel(<, Nat)
  BY <1>1, Zenon
<1>3. \A y \in T : ~(y < x)
  BY <1>2, Zenon DEF OpToRel
<1> QED
  BY <1>3

-----------------------------------------------------------------------------
(* The recursive function of which the sum is a value.                      *)

Chosen(s) == CHOOSE x \in s : TRUE

SumsOver(g, f, S) ==
  g = [s \in SUBSET S |-> IF s = {} THEN 0 ELSE f[Chosen(s)] + g[s \ {Chosen(s)}]]

\* The definition of the community module, with a name for its parts.
LEMMA SumUnfolded ==
  ASSUME NEW f, NEW S
  PROVE  SumFunctionOnSet(f, S) = (CHOOSE g : SumsOver(g, f, S))[S]
BY DEF SumFunctionOnSet, FoldFunctionOnSet, MapThenFoldSet, SumsOver, Chosen

LEMMA ChosenIn ==
  ASSUME NEW s, s # {}
  PROVE  Chosen(s) \in s
BY DEF Chosen

\* One function at most is as the recursion says.
LEMMA SumsOverUnique ==
  ASSUME NEW S, IsFiniteSet(S), NEW f, NEW g, NEW h, SumsOver(g, f, S), SumsOver(h, f, S)
  PROVE  g = h
<1>1. g = [s \in SUBSET S |-> g[s]] /\ h = [s \in SUBSET S |-> h[s]]
  BY DEF SumsOver
<1>2. ASSUME NEW s \in SUBSET S
      PROVE  /\ g[s] = IF s = {} THEN 0 ELSE f[Chosen(s)] + g[s \ {Chosen(s)}]
             /\ h[s] = IF s = {} THEN 0 ELSE f[Chosen(s)] + h[s \ {Chosen(s)}]
  BY DEF SumsOver
<1> DEFINE Differ == {s \in SUBSET S : g[s] # h[s]}
<1>3. SUFFICES ASSUME Differ # {} PROVE FALSE
  BY <1>1
<1>4. PICK s \in Differ : \A t \in Differ : t \subseteq s => t = s
  <2>1. Differ \in SUBSET SUBSET S
    OBVIOUS
  <2> HIDE DEF Differ
  <2> QED
    BY <1>3, <2>1, SmallestSet
<1>5. s # {}
  BY <1>2
<1>6. s \ {Chosen(s)} \in SUBSET S /\ s \ {Chosen(s)} # s /\ s \ {Chosen(s)} \subseteq s
  BY <1>5, ChosenIn
<1>7. g[s \ {Chosen(s)}] = h[s \ {Chosen(s)}]
  BY <1>4, <1>6
<1> QED
  BY <1>2, <1>5, <1>7

\* Cut down to the subsets of a subset, it is the function of that.
LEMMA SumsOverSubset ==
  ASSUME NEW S, NEW T \in SUBSET S, NEW f, NEW g, SumsOver(g, f, S)
  PROVE  SumsOver([s \in SUBSET T |-> g[s]], f, T)
<1>1. ASSUME NEW s \in SUBSET T
      PROVE  g[s] = IF s = {} THEN 0 ELSE f[Chosen(s)] + g[s \ {Chosen(s)}]
  BY DEF SumsOver
<1> QED
  BY <1>1 DEF SumsOver

\* There is such a function.
LEMMA SumsOverExists ==
  ASSUME NEW S, IsFiniteSet(S), NEW f
  PROVE  \E g : SumsOver(g, f, S)
<1> DEFINE Lacking == {T \in SUBSET S : ~ \E g : SumsOver(g, f, T)}
           Partial(u) == CHOOSE g : SumsOver(g, f, u)
           Value(u) == Partial(u)[u]
<1>1. SUFFICES ASSUME Lacking # {} PROVE FALSE
  OBVIOUS
<1>2. PICK T \in Lacking : \A U \in Lacking : U \subseteq T => U = T
  <2>1. Lacking \in SUBSET SUBSET S
    OBVIOUS
  <2> HIDE DEF Lacking
  <2> QED
    BY <1>1, <2>1, SmallestSet
<1>3. ASSUME NEW u \in SUBSET T, u # T
      PROVE  SumsOver(Partial(u), f, u) /\ IsFiniteSet(u)
  <2>1. u \in SUBSET S /\ u \notin Lacking
    BY <1>2, <1>3
  <2>2. \E g : SumsOver(g, f, u)
    BY <2>1
  <2>3. IsFiniteSet(u)
    BY <2>1, FS_Subset
  <2> QED
    BY <2>2, <2>3
<1>4. ASSUME NEW u \in SUBSET T, u # T
      PROVE  Value(u) = IF u = {} THEN 0 ELSE f[Chosen(u)] + Value(u \ {Chosen(u)})
  <2>1. SumsOver(Partial(u), f, u) /\ IsFiniteSet(u)
    BY <1>3, <1>4
  <2>2. Value(u) = IF u = {} THEN 0 ELSE f[Chosen(u)] + Partial(u)[u \ {Chosen(u)}]
    BY <2>1 DEF SumsOver
  <2>3. ASSUME u # {} PROVE Partial(u)[u \ {Chosen(u)}] = Value(u \ {Chosen(u)})
    <3> DEFINE v == u \ {Chosen(u)}
               cut == [s \in SUBSET v |-> Partial(u)[s]]
    <3>1. v \in SUBSET u /\ v \in SUBSET T /\ v # T
      BY <1>4, <2>3, ChosenIn
    <3>2. SumsOver(cut, f, v)
      <4> HIDE DEF Partial, v
      <4> QED
        BY <2>1, <3>1, SumsOverSubset
    <3>3. SumsOver(Partial(v), f, v) /\ IsFiniteSet(v)
      BY <1>3, <3>1
    <3>4. cut = Partial(v)
      <4> HIDE DEF cut, v, Partial
      <4> QED
        BY <3>2, <3>3, SumsOverUnique
    <3>5. cut[v] = Partial(u)[v]
      OBVIOUS
    <3> QED
      BY <3>4, <3>5
  <2> QED
    BY <2>2, <2>3
<1> DEFINE G == [s \in SUBSET T |-> IF s = {} THEN 0 ELSE f[Chosen(s)] + Value(s \ {Chosen(s)})]
<1> HIDE DEF Value
<1>5. ASSUME NEW u \in SUBSET T, u # T PROVE G[u] = Value(u)
  BY <1>4, <1>5
<1>6. ASSUME NEW s \in SUBSET T, s # {}
      PROVE  Value(s \ {Chosen(s)}) = G[s \ {Chosen(s)}]
  <2>1. s \ {Chosen(s)} \in SUBSET T /\ s \ {Chosen(s)} # T
    BY <1>6, ChosenIn
  <2> HIDE DEF G
  <2> QED
    BY <1>5, <2>1
<1>7. SumsOver(G, f, T)
  BY <1>6 DEF SumsOver
<1> QED
  BY <1>2, <1>7

-----------------------------------------------------------------------------
(* The sum.                                                                 *)

\* Some element is taken out, and then the rest.
LEMMA SumRecursion ==
  ASSUME NEW S, IsFiniteSet(S), NEW f
  PROVE  SumFunctionOnSet(f, S) =
           IF S = {} THEN 0 ELSE f[Chosen(S)] + SumFunctionOnSet(f, S \ {Chosen(S)})
<1> DEFINE Partial(u) == CHOOSE g : SumsOver(g, f, u)
           rest == S \ {Chosen(S)}
<1>1. SumsOver(Partial(S), f, S)
  BY SumsOverExists
<1>2. Partial(S)[S] = IF S = {} THEN 0 ELSE f[Chosen(S)] + Partial(S)[rest]
  BY <1>1 DEF SumsOver
<1>3. IsFiniteSet(rest) /\ rest \in SUBSET S
  BY FS_Subset
<1>4. SumsOver(Partial(rest), f, rest)
  BY <1>3, SumsOverExists
<1> DEFINE cut == [s \in SUBSET rest |-> Partial(S)[s]]
<1>5. SumsOver(cut, f, rest)
  <2> HIDE DEF Partial, rest
  <2> QED
    BY <1>1, <1>3, SumsOverSubset
<1>6. cut = Partial(rest)
  <2> HIDE DEF cut, rest, Partial
  <2> QED
    BY <1>3, <1>4, <1>5, SumsOverUnique
<1>7. Partial(rest)[rest] = Partial(S)[rest]
  BY <1>6
<1>8. SumFunctionOnSet(f, S) = Partial(S)[S] /\ SumFunctionOnSet(f, rest) = Partial(rest)[rest]
  BY SumUnfolded
<1> QED
  BY <1>2, <1>7, <1>8

\* The sum of no elements.
LEMMA SumEmpty ==
  ASSUME NEW f
  PROVE  SumFunctionOnSet(f, {}) = 0
BY SumRecursion, FS_EmptySet

\* The sum of integers is one.
LEMMA SumType ==
  ASSUME NEW S, IsFiniteSet(S), NEW f, \A x \in S : f[x] \in Int
  PROVE  SumFunctionOnSet(f, S) \in Int
<1> DEFINE Bad == {T \in SUBSET S : SumFunctionOnSet(f, T) \notin Int}
<1>1. SUFFICES ASSUME Bad # {} PROVE FALSE
  OBVIOUS
<1>2. PICK T \in Bad : \A U \in Bad : U \subseteq T => U = T
  <2>1. Bad \in SUBSET SUBSET S
    OBVIOUS
  <2> HIDE DEF Bad
  <2> QED
    BY <1>1, <2>1, SmallestSet
<1>3. T \in SUBSET S /\ IsFiniteSet(T)
  BY FS_Subset
<1>4. T # {}
  BY SumEmpty
<1>5. Chosen(T) \in T
  BY <1>4, ChosenIn
<1>6. SumFunctionOnSet(f, T \ {Chosen(T)}) \in Int
  BY <1>2, <1>3, <1>5
<1>7. SumFunctionOnSet(f, T) = f[Chosen(T)] + SumFunctionOnSet(f, T \ {Chosen(T)})
  BY <1>3, <1>4, SumRecursion
<1> QED
  BY <1>3, <1>5, <1>6, <1>7

\* Any element may be taken out first.
LEMMA SumRemove ==
  ASSUME NEW S, IsFiniteSet(S), NEW f, \A x \in S : f[x] \in Int, NEW x \in S
  PROVE  SumFunctionOnSet(f, S) = f[x] + SumFunctionOnSet(f, S \ {x})
<1> DEFINE Bad == {T \in SUBSET S : \E y \in T : SumFunctionOnSet(f, T) # f[y] + SumFunctionOnSet(f, T \ {y})}
<1>1. SUFFICES ASSUME Bad # {} PROVE FALSE
  OBVIOUS
<1>2. PICK T \in Bad : \A U \in Bad : U \subseteq T => U = T
  <2>1. Bad \in SUBSET SUBSET S
    OBVIOUS
  <2> HIDE DEF Bad
  <2> QED
    BY <1>1, <2>1, SmallestSet
<1>3. PICK y \in T : SumFunctionOnSet(f, T) # f[y] + SumFunctionOnSet(f, T \ {y})
  BY <1>2
<1>4. T \in SUBSET S /\ IsFiniteSet(T) /\ y \in S
  BY FS_Subset
<1> DEFINE c == Chosen(T)
           A == T \ {c}
           B == T \ {y}
           C == T \ {c, y}
<1>5. c \in T
  BY ChosenIn
<1>6. SumFunctionOnSet(f, T) = f[c] + SumFunctionOnSet(f, A)
  BY <1>4, <1>5, SumRecursion
<1>7. c # y
  BY <1>3, <1>6
<1>8. /\ A \in SUBSET S /\ A \subseteq T /\ A # T /\ y \in A /\ A \ {y} = C
      /\ B \in SUBSET S /\ B \subseteq T /\ B # T /\ c \in B /\ B \ {c} = C
  BY <1>4, <1>5, <1>7
<1>9. SumFunctionOnSet(f, A) = f[y] + SumFunctionOnSet(f, C)
  <2>1. A \notin Bad
    BY <1>2, <1>8
  <2> QED
    BY <1>8, <2>1
<1>10. SumFunctionOnSet(f, B) = f[c] + SumFunctionOnSet(f, C)
  <2>1. B \notin Bad
    BY <1>2, <1>8
  <2> QED
    BY <1>8, <2>1
<1>11. SumFunctionOnSet(f, C) \in Int
  <2>1. C \in SUBSET S
    BY <1>4
  <2>2. IsFiniteSet(C)
    BY <2>1, FS_Subset
  <2> QED
    BY <2>1, <2>2, SumType
<1>12. f[c] \in Int /\ f[y] \in Int
  BY <1>4, <1>5
<1>13. SumFunctionOnSet(f, T) = f[y] + SumFunctionOnSet(f, B)
  BY <1>6, <1>9, <1>10, <1>11, <1>12
<1> QED
  BY <1>3, <1>13

\* Adding an element adds its value.
LEMMA SumAdd ==
  ASSUME NEW S, IsFiniteSet(S), NEW f, NEW x, x \notin S, \A y \in S \cup {x} : f[y] \in Int
  PROVE  SumFunctionOnSet(f, S \cup {x}) = SumFunctionOnSet(f, S) + f[x]
<1>1. IsFiniteSet(S \cup {x}) /\ (S \cup {x}) \ {x} = S
  BY FS_AddElement
<1>2. SumFunctionOnSet(f, S \cup {x}) = f[x] + SumFunctionOnSet(f, (S \cup {x}) \ {x})
  BY <1>1, SumRemove
<1>3. SumFunctionOnSet(f, S) \in Int /\ f[x] \in Int
  BY SumType
<1>4. SumFunctionOnSet(f, S \cup {x}) = f[x] + SumFunctionOnSet(f, S)
  BY <1>1, <1>2, Zenon
<1> QED
  BY <1>3, <1>4

\* Only the values on the set matter.
LEMMA SumSame ==
  ASSUME NEW S, IsFiniteSet(S), NEW f, NEW g, \A x \in S : f[x] = g[x]
  PROVE  SumFunctionOnSet(f, S) = SumFunctionOnSet(g, S)
<1> DEFINE Bad == {T \in SUBSET S : SumFunctionOnSet(f, T) # SumFunctionOnSet(g, T)}
<1>1. SUFFICES ASSUME Bad # {} PROVE FALSE
  OBVIOUS
<1>2. PICK T \in Bad : \A U \in Bad : U \subseteq T => U = T
  <2>1. Bad \in SUBSET SUBSET S
    OBVIOUS
  <2> HIDE DEF Bad
  <2> QED
    BY <1>1, <2>1, SmallestSet
<1>3. T \in SUBSET S /\ IsFiniteSet(T)
  BY FS_Subset
<1>4. T # {}
  BY SumEmpty
<1>5. Chosen(T) \in T
  BY <1>4, ChosenIn
<1>6. SumFunctionOnSet(f, T \ {Chosen(T)}) = SumFunctionOnSet(g, T \ {Chosen(T)})
  BY <1>2, <1>3, <1>5
<1>7. /\ SumFunctionOnSet(f, T) = f[Chosen(T)] + SumFunctionOnSet(f, T \ {Chosen(T)})
      /\ SumFunctionOnSet(g, T) = g[Chosen(T)] + SumFunctionOnSet(g, T \ {Chosen(T)})
  BY <1>3, <1>4, SumRecursion
<1> QED
  BY <1>3, <1>5, <1>6, <1>7

\* With values that are not negative the sum grows with the set; elements of value zero may
\* be left out.
LEMMA SumGrows ==
  ASSUME NEW S, IsFiniteSet(S), NEW R \in SUBSET S, NEW f, \A x \in S : f[x] \in Nat
  PROVE  /\ SumFunctionOnSet(f, S) \in Nat
         /\ SumFunctionOnSet(f, R) <= SumFunctionOnSet(f, S)
         /\ (\A x \in S \ R : f[x] = 0) => SumFunctionOnSet(f, R) = SumFunctionOnSet(f, S)
<1> DEFINE Good(T) ==
             /\ SumFunctionOnSet(f, T) \in Nat
             /\ SumFunctionOnSet(f, T \cap R) \in Nat
             /\ SumFunctionOnSet(f, T \cap R) <= SumFunctionOnSet(f, T)
             /\ (\A x \in T \ R : f[x] = 0) => SumFunctionOnSet(f, T \cap R) = SumFunctionOnSet(f, T)
           Bad == {T \in SUBSET S : ~Good(T)}
<1>1. SUFFICES ASSUME Bad # {} PROVE FALSE
  <2>1. Good(S) /\ S \cap R = R /\ S \ R = S \ R
    BY <1>1
  <2> QED
    BY <2>1
<1>2. PICK T \in Bad : \A U \in Bad : U \subseteq T => U = T
  <2>1. Bad \in SUBSET SUBSET S
    OBVIOUS
  <2> HIDE DEF Bad
  <2> QED
    BY <1>1, <2>1, SmallestSet
<1>3. T \in SUBSET S /\ IsFiniteSet(T)
  BY FS_Subset
<1>4. T # {}
  <2>1. {} \cap R = {} /\ {} \ R = {}
    OBVIOUS
  <2> QED
    BY <2>1, SumEmpty, <1>2
<1>5. PICK x \in T : TRUE
  BY <1>4
<1> DEFINE U == T \ {x}
<1>6. Good(U)
  BY <1>2, <1>3, <1>5
<1>7. SumFunctionOnSet(f, T) = f[x] + SumFunctionOnSet(f, U)
  BY <1>3, SumRemove
<1>8. f[x] \in Nat
  BY <1>3
<1>9. CASE x \in R
  <2>1. IsFiniteSet(T \cap R) /\ T \cap R \in SUBSET S /\ x \in T \cap R /\ (T \cap R) \ {x} = U \cap R
    BY <1>3, <1>9, FS_Subset
  <2>2. SumFunctionOnSet(f, T \cap R) = f[x] + SumFunctionOnSet(f, U \cap R)
    BY <2>1, SumRemove
  <2>3. T \ R = U \ R
    BY <1>9
  <2> HIDE DEF U
  <2>4. /\ SumFunctionOnSet(f, T) \in Nat
        /\ SumFunctionOnSet(f, T \cap R) \in Nat
        /\ SumFunctionOnSet(f, T \cap R) <= SumFunctionOnSet(f, T)
    BY <1>6, <1>7, <1>8, <2>2
  <2>5. ASSUME \A y \in T \ R : f[y] = 0
        PROVE  SumFunctionOnSet(f, T \cap R) = SumFunctionOnSet(f, T)
    <3>1. SumFunctionOnSet(f, U \cap R) = SumFunctionOnSet(f, U)
      BY <1>6, <2>3, <2>5, Zenon
    <3> QED
      BY <3>1, <1>7, <2>2, Zenon
  <2> QED
    BY <1>2, <2>4, <2>5
<1>10. CASE x \notin R
  <2>1. U \ R = {y \in T \ R : y # x} /\ x \in T \ R
    BY <1>5, <1>10
  <2>2. SumFunctionOnSet(f, T \cap R) = SumFunctionOnSet(f, U \cap R)
    <3>1. T \cap R = U \cap R
      BY <1>10
    <3> QED
      BY <3>1, Zenon
  <2> HIDE DEF U
  <2>3. /\ SumFunctionOnSet(f, T) \in Nat
        /\ SumFunctionOnSet(f, T \cap R) \in Nat
        /\ SumFunctionOnSet(f, T \cap R) <= SumFunctionOnSet(f, T)
    BY <1>6, <1>7, <1>8, <2>2
  <2>4. ASSUME \A y \in T \ R : f[y] = 0
        PROVE  SumFunctionOnSet(f, T \cap R) = SumFunctionOnSet(f, T)
    <3>1. SumFunctionOnSet(f, U \cap R) = SumFunctionOnSet(f, U)
      BY <1>6, <2>1, <2>4
    <3>2. f[x] = 0
      BY <2>1, <2>4
    <3>3. SumFunctionOnSet(f, T) = SumFunctionOnSet(f, U)
      BY <3>2, <1>6, <1>7
    <3> QED
      BY <3>1, <3>3, <2>2, Zenon
  <2> QED
    BY <1>2, <2>3, <2>4
<1> QED
  BY <1>9, <1>10
=============================================================================
