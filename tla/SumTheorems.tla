------------------------------ MODULE SumTheorems ------------------------------
(***************************************************************************)
(* What the proofs about money and stock use of SumFunctionOnSet, the sum  *)
(* of a function's values over a finite set.  The fold it stands for is a  *)
(* function on the subsets of the set, defined by recursion; that there is *)
(* one, and only one, is shown with a smallest subset for which it would   *)
(* fail.  The proofs about relays use that last lemma too.                 *)
(***************************************************************************)
EXTENDS Integers, FiniteSets, Functions, FiniteSetTheorems, WellFoundedInduction, TLAPS

Picked(s) == CHOOSE x \in s : TRUE
Others(s) == s \ {Picked(s)}

(* g sums f over every subset of S. *)
Adds(f, S, g) ==
  g = [s \in SUBSET S |-> IF s = {} THEN 0 ELSE f[Picked(s)] + g[Others(s)]]

Adder(f, S) == CHOOSE g : Adds(f, S, g)

-----------------------------------------------------------------------------
(* The fold *)

(* The sum is read off the function the fold defines. *)
LEMMA SumIsFold ==
  ASSUME NEW f, NEW S
  PROVE  SumFunctionOnSet(f, S) = Adder(f, S)[S]
  BY DEF SumFunctionOnSet, FoldFunctionOnSet, MapThenFoldSet, Adder, Adds, Others, Picked

LEMMA RestIsSmaller ==
  ASSUME NEW s, s # {}
  PROVE  Picked(s) \in s /\ Others(s) \subseteq s /\ Others(s) # s
  BY DEF Picked, Others

(* A nonempty set of subsets of a finite set has a smallest one. *)
LEMMA SmallestSubset ==
  ASSUME NEW S, IsFiniteSet(S), NEW Bad, Bad \subseteq SUBSET S, Bad # {}
  PROVE  \E s \in Bad : \A t \in Bad : t \subseteq s => t = s
<1>1. IsWellFoundedOn(StrictSubsetOrdering(S), SUBSET S)
  BY FS_StrictSubsetOrderingWellFounded, FS_FiniteSubsetsOfFinite
<1>2. \E s \in Bad : \A t \in Bad : <<t, s>> \notin StrictSubsetOrdering(S)
  BY <1>1, WFMin
<1> QED BY <1>2 DEF StrictSubsetOrdering

(* Two sums of f agree where both are defined. *)
LEMMA AddersAgree ==
  ASSUME NEW f, NEW S, NEW T, NEW g, NEW h, IsFiniteSet(S), T \subseteq S,
         Adds(f, S, g), Adds(f, T, h), NEW u \in SUBSET T
  PROVE  g[u] = h[u]
<1> DEFINE Bad == {s \in SUBSET T : g[s] # h[s]}
<1> SUFFICES ASSUME Bad # {} PROVE FALSE
  OBVIOUS
<1>1. PICK s \in Bad : \A t \in Bad : t \subseteq s => t = s
  <2>1. IsFiniteSet(T) /\ Bad \subseteq SUBSET T
    BY FS_Subset
  <2> HIDE DEF Bad
  <2> QED BY <2>1, SmallestSubset
<1>2. /\ g[s] = IF s = {} THEN 0 ELSE f[Picked(s)] + g[Others(s)]
      /\ h[s] = IF s = {} THEN 0 ELSE f[Picked(s)] + h[Others(s)]
  BY Zenon DEF Adds
<1>3. s # {}
  BY <1>1, <1>2
<1>4. Others(s) \in SUBSET T /\ Others(s) \notin Bad
  BY <1>1, <1>3, RestIsSmaller
<1>5. g[Others(s)] = h[Others(s)]
  BY <1>4
<1> QED BY <1>1, <1>2, <1>5, Zenon

(* There is one. *)
LEMMA AdderExists ==
  ASSUME NEW f, NEW S, IsFiniteSet(S)
  PROVE  Adds(f, S, Adder(f, S))
<1> DEFINE Bad == {s \in SUBSET S : ~ Adds(f, s, Adder(f, s))}
<1> SUFFICES ASSUME Bad # {} PROVE FALSE
  OBVIOUS
<1>1. PICK s \in Bad : \A t \in Bad : t \subseteq s => t = s
  <2>1. Bad \subseteq SUBSET S
    OBVIOUS
  <2> HIDE DEF Bad
  <2> QED BY <2>1, SmallestSubset
<1>2. \A t \in SUBSET s : t # s => Adds(f, t, Adder(f, t))
  BY <1>1
<1>3. IsFiniteSet(s)
  BY FS_Subset
<1> DEFINE g == [t \in SUBSET s |-> IF t = {} THEN 0 ELSE f[Picked(t)] + Adder(f, Others(t))[Others(t)]]
<1>4. ASSUME NEW t \in SUBSET s, t # {} PROVE g[Others(t)] = Adder(f, Others(t))[Others(t)]
  <2> DEFINE u == Others(t)
  <2>1. u \in SUBSET s /\ u # s
    BY <1>4, RestIsSmaller
  <2>2. Adds(f, u, Adder(f, u))
    BY <1>2, <2>1
  <2>3. Adder(f, u)[u] = IF u = {} THEN 0 ELSE f[Picked(u)] + Adder(f, u)[Others(u)]
    <3> HIDE DEF u
    <3> QED BY <2>2, Zenon DEF Adds
  <2>4. g[u] = IF u = {} THEN 0 ELSE f[Picked(u)] + Adder(f, Others(u))[Others(u)]
    <3> HIDE DEF u
    <3> QED BY <2>1, Zenon
  <2>5. u # {} => Adder(f, u)[Others(u)] = Adder(f, Others(u))[Others(u)]
    <3> SUFFICES ASSUME u # {} PROVE Adder(f, u)[Others(u)] = Adder(f, Others(u))[Others(u)]
      OBVIOUS
    <3> HIDE DEF u
    <3>1. Others(u) \subseteq u /\ Others(u) \in SUBSET s /\ Others(u) # s
      BY <2>1, RestIsSmaller
    <3>2. Adds(f, Others(u), Adder(f, Others(u))) /\ IsFiniteSet(u)
      BY <1>2, <1>3, <2>1, <3>1, FS_Subset
    <3>3. Others(u) \in SUBSET Others(u)
      OBVIOUS
    <3> QED BY <2>2, <3>1, <3>2, <3>3, AddersAgree
  <2> HIDE DEF g
  <2> QED BY <2>3, <2>4, <2>5
<1>5. Adds(f, s, g)
  <2>1. \A t \in SUBSET s : (IF t = {} THEN 0 ELSE f[Picked(t)] + Adder(f, Others(t))[Others(t)])
                            = (IF t = {} THEN 0 ELSE f[Picked(t)] + g[Others(t)])
    <3> HIDE DEF g
    <3> QED BY <1>4
  <2> QED BY <2>1, Zenon DEF Adds
<1>6. Adds(f, s, Adder(f, s))
  <2> HIDE DEF g
  <2> QED BY <1>5 DEF Adder
<1> QED BY <1>1, <1>6

(* The sum takes the chosen element out. *)
LEMMA SumStep ==
  ASSUME NEW f, NEW S, IsFiniteSet(S)
  PROVE  SumFunctionOnSet(f, S) =
           IF S = {} THEN 0 ELSE f[Picked(S)] + SumFunctionOnSet(f, Others(S))
<1>1. Adder(f, S)[S] = IF S = {} THEN 0 ELSE f[Picked(S)] + Adder(f, S)[Others(S)]
  <2>1. Adds(f, S, Adder(f, S)) /\ S \in SUBSET S
    BY AdderExists
  <2> QED BY <2>1, Zenon DEF Adds
<1>2. ASSUME S # {} PROVE Adder(f, S)[Others(S)] = Adder(f, Others(S))[Others(S)]
  <2>1. Others(S) \subseteq S
    BY <1>2, RestIsSmaller
  <2>2. Adds(f, S, Adder(f, S))
    BY AdderExists
  <2>3. Adds(f, Others(S), Adder(f, Others(S)))
    BY <2>1, FS_Subset, AdderExists
  <2>4. Others(S) \in SUBSET Others(S)
    OBVIOUS
  <2> QED BY <2>1, <2>2, <2>3, <2>4, AddersAgree
<1> QED BY <1>1, <1>2, SumIsFold

-----------------------------------------------------------------------------
(* Sums of integers *)

(* Over nothing it is zero. *)
LEMMA SumOverNothing ==
  ASSUME NEW f
  PROVE  SumFunctionOnSet(f, {}) = 0
  BY SumStep, FS_EmptySet

LEMMA SumIsInt ==
  ASSUME NEW f, NEW S, IsFiniteSet(S), \A x \in S : f[x] \in Int
  PROVE  SumFunctionOnSet(f, S) \in Int
<1> DEFINE Bad == {s \in SUBSET S : SumFunctionOnSet(f, s) \notin Int}
<1> SUFFICES ASSUME Bad # {} PROVE FALSE
  OBVIOUS
<1>1. PICK s \in Bad : \A t \in Bad : t \subseteq s => t = s
  <2>1. Bad \subseteq SUBSET S
    OBVIOUS
  <2> HIDE DEF Bad
  <2> QED BY <2>1, SmallestSubset
<1>2. IsFiniteSet(s)
  BY FS_Subset
<1>3. s # {}
  <2>1. SumFunctionOnSet(f, {}) \in Int
    BY SumOverNothing
  <2>2. SumFunctionOnSet(f, s) \notin Int
    OBVIOUS
  <2> QED BY <2>1, <2>2, Zenon
<1>4. Picked(s) \in S /\ Others(s) \in SUBSET S /\ Others(s) \notin Bad
  BY <1>1, <1>3, RestIsSmaller
<1>5. SumFunctionOnSet(f, Others(s)) \in Int /\ f[Picked(s)] \in Int
  BY <1>4
<1>6. SumFunctionOnSet(f, s) = f[Picked(s)] + SumFunctionOnSet(f, Others(s))
  BY <1>2, <1>3, SumStep
<1> QED BY <1>1, <1>5, <1>6

(* Any element may be taken out, not only the one the fold chooses. *)
LEMMA SumTakes ==
  ASSUME NEW f, NEW S, IsFiniteSet(S), \A x \in S : f[x] \in Int, NEW x \in S
  PROVE  SumFunctionOnSet(f, S) = f[x] + SumFunctionOnSet(f, S \ {x})
<1> DEFINE Bad == {s \in SUBSET S :
                    \E e \in s : SumFunctionOnSet(f, s) # f[e] + SumFunctionOnSet(f, s \ {e})}
<1> SUFFICES ASSUME Bad # {} PROVE FALSE
  OBVIOUS
<1>1. PICK s \in Bad : \A t \in Bad : t \subseteq s => t = s
  <2>1. Bad \subseteq SUBSET S
    OBVIOUS
  <2> HIDE DEF Bad
  <2> QED BY <2>1, SmallestSubset
<1>2. PICK e \in s : SumFunctionOnSet(f, s) # f[e] + SumFunctionOnSet(f, s \ {e})
  BY <1>1
<1> DEFINE c == Picked(s)
<1>3. c \in s /\ IsFiniteSet(s)
  BY <1>2, RestIsSmaller, FS_Subset
<1>4. SumFunctionOnSet(f, s) = f[c] + SumFunctionOnSet(f, s \ {c})
  BY <1>2, <1>3, SumStep DEF Others
<1>5. c # e
  BY <1>2, <1>4
<1> HIDE DEF c
<1>6. s \ {c} \notin Bad /\ s \ {e} \notin Bad
  BY <1>1, <1>2, <1>3
<1>7. SumFunctionOnSet(f, s \ {c}) = f[e] + SumFunctionOnSet(f, (s \ {c}) \ {e})
  BY <1>2, <1>5, <1>6
<1>8. SumFunctionOnSet(f, s \ {e}) = f[c] + SumFunctionOnSet(f, (s \ {e}) \ {c})
  BY <1>3, <1>5, <1>6
<1>9. (s \ {c}) \ {e} = (s \ {e}) \ {c}
  OBVIOUS
<1>10. SumFunctionOnSet(f, (s \ {c}) \ {e}) \in Int
  BY <1>3, FS_Subset, SumIsInt
<1>11. f[c] \in Int /\ f[e] \in Int
  BY <1>1, <1>2, <1>3
<1>12. \A p, q, r \in Int : p + (q + r) = q + (p + r)
  OBVIOUS
<1>13. f[c] + (f[e] + SumFunctionOnSet(f, (s \ {c}) \ {e}))
         = f[e] + (f[c] + SumFunctionOnSet(f, (s \ {c}) \ {e}))
  BY <1>10, <1>11, <1>12, Zenon
<1> QED BY <1>2, <1>4, <1>7, <1>8, <1>9, <1>13, Zenon

(* A new element adds its value. *)
LEMMA SumGrows ==
  ASSUME NEW f, NEW S, IsFiniteSet(S), NEW x, x \notin S, \A y \in S \cup {x} : f[y] \in Int
  PROVE  SumFunctionOnSet(f, S \cup {x}) = SumFunctionOnSet(f, S) + f[x]
<1>1. IsFiniteSet(S \cup {x}) /\ (S \cup {x}) \ {x} = S
  BY FS_AddElement
<1>2. SumFunctionOnSet(f, S) \in Int
  BY SumIsInt
<1> QED BY <1>1, <1>2, SumTakes

(* Values decide it. *)
LEMMA SumOfSame ==
  ASSUME NEW f, NEW g, NEW S, IsFiniteSet(S), \A x \in S : f[x] = g[x]
  PROVE  SumFunctionOnSet(f, S) = SumFunctionOnSet(g, S)
<1> DEFINE Bad == {s \in SUBSET S : SumFunctionOnSet(f, s) # SumFunctionOnSet(g, s)}
<1> SUFFICES ASSUME Bad # {} PROVE FALSE
  OBVIOUS
<1>1. PICK s \in Bad : \A t \in Bad : t \subseteq s => t = s
  <2>1. Bad \subseteq SUBSET S
    OBVIOUS
  <2> HIDE DEF Bad
  <2> QED BY <2>1, SmallestSubset
<1>2. IsFiniteSet(s)
  BY FS_Subset
<1>3. s # {}
  <2>1. SumFunctionOnSet(f, {}) = SumFunctionOnSet(g, {})
    BY SumOverNothing
  <2>2. SumFunctionOnSet(f, s) # SumFunctionOnSet(g, s)
    OBVIOUS
  <2> QED BY <2>1, <2>2, Zenon
<1>4. Picked(s) \in S /\ Others(s) \in SUBSET S /\ Others(s) \notin Bad
  BY <1>1, <1>3, RestIsSmaller
<1>5. SumFunctionOnSet(f, Others(s)) = SumFunctionOnSet(g, Others(s))
  BY <1>4
<1>6. /\ SumFunctionOnSet(f, s) = f[Picked(s)] + SumFunctionOnSet(f, Others(s))
      /\ SumFunctionOnSet(g, s) = g[Picked(s)] + SumFunctionOnSet(g, Others(s))
  BY <1>2, <1>3, SumStep
<1> QED BY <1>1, <1>4, <1>5, <1>6

(* Changing one value changes the sum by as much. *)
LEMMA SumOfChanged ==
  ASSUME NEW f, NEW g, NEW S, IsFiniteSet(S), NEW x \in S,
         \A y \in S : f[y] \in Int /\ g[y] \in Int,
         \A y \in S \ {x} : g[y] = f[y]
  PROVE  SumFunctionOnSet(g, S) = SumFunctionOnSet(f, S) - f[x] + g[x]
<1>1. IsFiniteSet(S \ {x})
  BY FS_RemoveElement
<1>2. SumFunctionOnSet(f, S \ {x}) = SumFunctionOnSet(g, S \ {x})
  BY <1>1, SumOfSame
<1>3. SumFunctionOnSet(f, S \ {x}) \in Int
  BY <1>1, SumIsInt
<1>4. /\ SumFunctionOnSet(f, S) = f[x] + SumFunctionOnSet(f, S \ {x})
      /\ SumFunctionOnSet(g, S) = g[x] + SumFunctionOnSet(g, S \ {x})
  BY SumTakes
<1> QED BY <1>2, <1>3, <1>4

(* Sums add up. *)
LEMMA SumOfSums ==
  ASSUME NEW f, NEW g, NEW h, NEW S, IsFiniteSet(S),
         \A x \in S : f[x] \in Int /\ g[x] \in Int /\ h[x] = f[x] + g[x]
  PROVE  SumFunctionOnSet(h, S) = SumFunctionOnSet(f, S) + SumFunctionOnSet(g, S)
<1> DEFINE Bad == {s \in SUBSET S : SumFunctionOnSet(h, s)
                                    # SumFunctionOnSet(f, s) + SumFunctionOnSet(g, s)}
<1> SUFFICES ASSUME Bad # {} PROVE FALSE
  OBVIOUS
<1>1. PICK s \in Bad : \A t \in Bad : t \subseteq s => t = s
  <2>1. Bad \subseteq SUBSET S
    OBVIOUS
  <2> HIDE DEF Bad
  <2> QED BY <2>1, SmallestSubset
<1>2. IsFiniteSet(s)
  BY FS_Subset
<1>3. s # {}
  <2>1. SumFunctionOnSet(h, {}) = SumFunctionOnSet(f, {}) + SumFunctionOnSet(g, {})
    BY SumOverNothing
  <2>2. SumFunctionOnSet(h, s) # SumFunctionOnSet(f, s) + SumFunctionOnSet(g, s)
    OBVIOUS
  <2> QED BY <2>1, <2>2, Zenon
<1>4. Picked(s) \in S /\ Others(s) \in SUBSET S /\ Others(s) \notin Bad
  BY <1>1, <1>3, RestIsSmaller
<1>5. SumFunctionOnSet(h, Others(s)) = SumFunctionOnSet(f, Others(s)) + SumFunctionOnSet(g, Others(s))
  BY <1>4
<1>6. /\ SumFunctionOnSet(f, s) = f[Picked(s)] + SumFunctionOnSet(f, Others(s))
      /\ SumFunctionOnSet(g, s) = g[Picked(s)] + SumFunctionOnSet(g, Others(s))
      /\ SumFunctionOnSet(h, s) = h[Picked(s)] + SumFunctionOnSet(h, Others(s))
  BY <1>2, <1>3, SumStep
<1>7. IsFiniteSet(Others(s))
  BY <1>4, FS_Subset
<1>8. SumFunctionOnSet(f, Others(s)) \in Int /\ SumFunctionOnSet(g, Others(s)) \in Int
  BY <1>4, <1>7, SumIsInt
<1>9. f[Picked(s)] \in Int /\ g[Picked(s)] \in Int /\ h[Picked(s)] = f[Picked(s)] + g[Picked(s)]
  BY <1>4
<1>10. SumFunctionOnSet(h, s) = SumFunctionOnSet(f, s) + SumFunctionOnSet(g, s)
  <2> HIDE DEF Bad
  <2> QED BY <1>5, <1>6, <1>8, <1>9
<1> QED BY <1>1, <1>10

(* Sums of smaller values are smaller. *)
LEMMA SumOfSmaller ==
  ASSUME NEW f, NEW g, NEW S, IsFiniteSet(S),
         \A x \in S : f[x] \in Int /\ g[x] \in Int /\ f[x] <= g[x]
  PROVE  SumFunctionOnSet(f, S) <= SumFunctionOnSet(g, S)
<1> DEFINE Bad == {s \in SUBSET S : ~ SumFunctionOnSet(f, s) <= SumFunctionOnSet(g, s)}
<1> SUFFICES ASSUME Bad # {} PROVE FALSE
  OBVIOUS
<1>1. PICK s \in Bad : \A t \in Bad : t \subseteq s => t = s
  <2>1. Bad \subseteq SUBSET S
    OBVIOUS
  <2> HIDE DEF Bad
  <2> QED BY <2>1, SmallestSubset
<1>2. IsFiniteSet(s)
  BY FS_Subset
<1>3. s # {}
  <2>1. SumFunctionOnSet(f, {}) <= SumFunctionOnSet(g, {})
    BY SumOverNothing
  <2>2. ~ SumFunctionOnSet(f, s) <= SumFunctionOnSet(g, s)
    OBVIOUS
  <2> QED BY <2>1, <2>2, Zenon
<1>4. Picked(s) \in S /\ Others(s) \in SUBSET S /\ Others(s) \notin Bad
  BY <1>1, <1>3, RestIsSmaller
<1>5. SumFunctionOnSet(f, Others(s)) <= SumFunctionOnSet(g, Others(s))
  BY <1>4
<1>6. /\ SumFunctionOnSet(f, s) = f[Picked(s)] + SumFunctionOnSet(f, Others(s))
      /\ SumFunctionOnSet(g, s) = g[Picked(s)] + SumFunctionOnSet(g, Others(s))
  BY <1>2, <1>3, SumStep
<1>7. IsFiniteSet(Others(s))
  BY <1>4, FS_Subset
<1>8. SumFunctionOnSet(f, Others(s)) \in Int /\ SumFunctionOnSet(g, Others(s)) \in Int
  BY <1>4, <1>7, SumIsInt
<1>9. f[Picked(s)] \in Int /\ g[Picked(s)] \in Int /\ f[Picked(s)] <= g[Picked(s)]
  BY <1>4
<1>10. SumFunctionOnSet(f, s) <= SumFunctionOnSet(g, s)
  <2> HIDE DEF Bad
  <2> QED BY <1>5, <1>6, <1>8, <1>9
<1> QED BY <1>1, <1>10

(* Zeros add nothing. *)
LEMMA SumOfZeros ==
  ASSUME NEW f, NEW S, IsFiniteSet(S), \A x \in S : f[x] = 0
  PROVE  SumFunctionOnSet(f, S) = 0
<1> DEFINE g == [x \in S |-> f[x] + f[x]]
<1>1. SumFunctionOnSet(f, S) = SumFunctionOnSet(g, S)
  BY SumOfSame
<1>2. SumFunctionOnSet(g, S) = SumFunctionOnSet(f, S) + SumFunctionOnSet(f, S)
  BY SumOfSums
<1>3. SumFunctionOnSet(f, S) \in Int
  BY SumIsInt
<1> HIDE DEF g
<1> QED BY <1>1, <1>2, <1>3, SMTT(30)

LEMMA SumIsNat ==
  ASSUME NEW f, NEW S, IsFiniteSet(S), \A x \in S : f[x] \in Nat
  PROVE  SumFunctionOnSet(f, S) \in Nat
<1> DEFINE z == [x \in S |-> 0]
<1>1. SumFunctionOnSet(z, S) = 0
  BY SumOfZeros
<1>2. SumFunctionOnSet(z, S) <= SumFunctionOnSet(f, S)
  BY SumOfSmaller
<1>3. SumFunctionOnSet(f, S) \in Int
  BY SumIsInt
<1> HIDE DEF z
<1> QED BY <1>1, <1>2, <1>3

(* One value alone is the sum. *)
LEMMA SumOfOne ==
  ASSUME NEW f, NEW S, IsFiniteSet(S), NEW x \in S, f[x] \in Int,
         \A y \in S \ {x} : f[y] = 0
  PROVE  SumFunctionOnSet(f, S) = f[x]
<1>1. SumFunctionOnSet(f, S) = f[x] + SumFunctionOnSet(f, S \ {x})
  <2>1. \A y \in S : f[y] \in Int
    OBVIOUS
  <2> QED BY <2>1, SumTakes
<1>2. SumFunctionOnSet(f, S \ {x}) = 0
  BY FS_RemoveElement, SumOfZeros
<1> QED BY <1>1, <1>2

-----------------------------------------------------------------------------
(* Sums over parts of a set *)

LEMMA SumOfUnion ==
  ASSUME NEW f, NEW S, NEW T, IsFiniteSet(S), IsFiniteSet(T), S \cap T = {},
         \A x \in S \cup T : f[x] \in Int
  PROVE  SumFunctionOnSet(f, S \cup T) = SumFunctionOnSet(f, S) + SumFunctionOnSet(f, T)
<1> DEFINE Bad == {s \in SUBSET T : SumFunctionOnSet(f, S \cup s)
                                    # SumFunctionOnSet(f, S) + SumFunctionOnSet(f, s)}
<1> SUFFICES ASSUME Bad # {} PROVE FALSE
  OBVIOUS
<1>1. PICK s \in Bad : \A t \in Bad : t \subseteq s => t = s
  <2>1. Bad \subseteq SUBSET T
    OBVIOUS
  <2> HIDE DEF Bad
  <2> QED BY <2>1, SmallestSubset
<1>2. IsFiniteSet(s) /\ IsFiniteSet(S \cup s)
  BY FS_Subset, FS_Union
<1>3. SumFunctionOnSet(f, S) \in Int
  BY SumIsInt
<1>4. s # {}
  <2>1. SumFunctionOnSet(f, S \cup {}) = SumFunctionOnSet(f, S) + SumFunctionOnSet(f, {})
    <3>1. S \cup {} = S /\ SumFunctionOnSet(f, {}) = 0
      BY SumOverNothing
    <3> QED BY <1>3, <3>1
  <2>2. SumFunctionOnSet(f, S \cup s) # SumFunctionOnSet(f, S) + SumFunctionOnSet(f, s)
    OBVIOUS
  <2> QED BY <2>1, <2>2, Zenon
<1>5. PICK x \in s : TRUE
  BY <1>4
<1>6. s \ {x} \in SUBSET T /\ s \ {x} \notin Bad /\ IsFiniteSet(s \ {x})
  <2>1. IsFiniteSet(s \ {x})
    BY <1>2, FS_RemoveElement
  <2>2. s \ {x} \subseteq s /\ s \ {x} # s
    BY <1>5
  <2> QED BY <1>1, <2>1, <2>2
<1>7. SumFunctionOnSet(f, S \cup (s \ {x}))
        = SumFunctionOnSet(f, S) + SumFunctionOnSet(f, s \ {x})
  BY <1>6
<1>8. (S \cup s) \ {x} = S \cup (s \ {x})
  BY <1>5
<1>9. /\ SumFunctionOnSet(f, S \cup s) = f[x] + SumFunctionOnSet(f, S \cup (s \ {x}))
      /\ SumFunctionOnSet(f, s) = f[x] + SumFunctionOnSet(f, s \ {x})
  <2>1. \A y \in S \cup s : f[y] \in Int
    OBVIOUS
  <2> QED BY <1>2, <1>5, <1>8, <2>1, SumTakes
<1>10. SumFunctionOnSet(f, s \ {x}) \in Int /\ f[x] \in Int
  BY <1>5, <1>6, SumIsInt
<1>11. SumFunctionOnSet(f, S \cup s) = SumFunctionOnSet(f, S) + SumFunctionOnSet(f, s)
  <2> HIDE DEF Bad
  <2> QED BY <1>3, <1>7, <1>9, <1>10
<1> QED BY <1>11

(* A function that is f on a part and zero elsewhere sums to f's sum over the part. *)
LEMMA SumOfPart ==
  ASSUME NEW f, NEW g, NEW S, NEW T, IsFiniteSet(S), T \subseteq S,
         \A x \in T : f[x] \in Int /\ g[x] = f[x], \A x \in S \ T : g[x] = 0
  PROVE  SumFunctionOnSet(g, S) = SumFunctionOnSet(f, T)
<1>1. IsFiniteSet(T) /\ IsFiniteSet(S \ T) /\ T \cup (S \ T) = S /\ T \cap (S \ T) = {}
  BY FS_Subset, FS_Difference
<1>2. SumFunctionOnSet(g, S) = SumFunctionOnSet(g, T) + SumFunctionOnSet(g, S \ T)
  <2>1. \A x \in T \cup (S \ T) : g[x] \in Int
    OBVIOUS
  <2>2. SumFunctionOnSet(g, T \cup (S \ T)) = SumFunctionOnSet(g, T) + SumFunctionOnSet(g, S \ T)
    BY <1>1, <2>1, SumOfUnion
  <2> QED BY <1>1, <2>2
<1>3. SumFunctionOnSet(g, S \ T) = 0
  BY <1>1, SumOfZeros
<1>4. SumFunctionOnSet(g, T) = SumFunctionOnSet(f, T) /\ SumFunctionOnSet(f, T) \in Int
  BY <1>1, SumOfSame, SumIsInt
<1> QED BY <1>2, <1>3, <1>4

LEMMA SumOfNegated ==
  ASSUME NEW f, NEW g, NEW S, IsFiniteSet(S), \A x \in S : f[x] \in Int /\ g[x] = -f[x]
  PROVE  SumFunctionOnSet(g, S) = -SumFunctionOnSet(f, S)
<1> DEFINE z == [x \in S |-> 0]
<1>1. SumFunctionOnSet(z, S) = 0
  BY SumOfZeros
<1>2. SumFunctionOnSet(z, S) = SumFunctionOnSet(f, S) + SumFunctionOnSet(g, S)
  BY SumOfSums
<1>3. SumFunctionOnSet(f, S) \in Int /\ SumFunctionOnSet(g, S) \in Int
  BY SumIsInt
<1> HIDE DEF z
<1> QED BY <1>1, <1>2, <1>3

(* What of S is linked to t, and to any of T. *)
Linked(S, link, t) == {x \in S : link[x] = t}
LinkedInto(S, link, T) == {x \in S : link[x] \in T}

(* Adding up per target what is linked to it is adding up all that is linked to one. *)
LEMMA SumByTarget ==
  ASSUME NEW f, NEW link, NEW S, NEW T, IsFiniteSet(S), IsFiniteSet(T), \A x \in S : f[x] \in Int
  PROVE  SumFunctionOnSet([t \in T |-> SumFunctionOnSet(f, Linked(S, link, t))], T)
           = SumFunctionOnSet(f, LinkedInto(S, link, T))
<1> DEFINE To(t) == {x \in S : link[x] = t}
           Into(s) == {x \in S : link[x] \in s}
           g == [t \in T |-> SumFunctionOnSet(f, Linked(S, link, t))]
           Bad == {s \in SUBSET T : SumFunctionOnSet(g, s) # SumFunctionOnSet(f, Into(s))}
<1> SUFFICES ASSUME Bad # {} PROVE FALSE
  BY DEF LinkedInto
<1>1. PICK s \in Bad : \A t \in Bad : t \subseteq s => t = s
  <2>1. Bad \subseteq SUBSET T
    OBVIOUS
  <2> HIDE DEF Bad
  <2> QED BY <2>1, SmallestSubset
<1>2. IsFiniteSet(s)
  BY FS_Subset
<1>3. s # {}
  <2>1. SumFunctionOnSet(g, {}) = SumFunctionOnSet(f, Into({}))
    <3>1. Into({}) = {}
      OBVIOUS
    <3> QED BY <3>1, SumOverNothing
  <2>2. SumFunctionOnSet(g, s) # SumFunctionOnSet(f, Into(s))
    OBVIOUS
  <2> HIDE DEF Bad, g, Into
  <2> QED BY <2>1, <2>2, Zenon
<1>4. PICK t \in s : TRUE
  BY <1>3
<1>5. s \ {t} \in SUBSET T /\ s \ {t} \notin Bad
  BY <1>1, <1>4
<1>6. SumFunctionOnSet(g, s \ {t}) = SumFunctionOnSet(f, Into(s \ {t}))
  <2> HIDE DEF g, Into
  <2> QED BY <1>5
<1>7. \A u \in s : g[u] \in Int
  <2>1. \A u \in s : SumFunctionOnSet(f, Linked(S, link, u)) \in Int
    BY FS_Subset, SumIsInt DEF Linked
  <2> QED BY <2>1
<1>8. SumFunctionOnSet(g, s) = SumFunctionOnSet(f, To(t)) + SumFunctionOnSet(g, s \ {t})
  <2>1. g[t] = SumFunctionOnSet(f, To(t))
    BY <1>4 DEF Linked
  <2> HIDE DEF g
  <2> QED BY <1>2, <1>4, <1>7, <2>1, SumTakes
<1>9. SumFunctionOnSet(f, Into(s)) = SumFunctionOnSet(f, To(t)) + SumFunctionOnSet(f, Into(s \ {t}))
  <2>1. Into(s) = To(t) \cup Into(s \ {t}) /\ To(t) \cap Into(s \ {t}) = {}
    BY <1>4
  <2>2. IsFiniteSet(To(t)) /\ IsFiniteSet(Into(s \ {t}))
    BY FS_Subset
  <2>3. \A x \in To(t) \cup Into(s \ {t}) : f[x] \in Int
    OBVIOUS
  <2> HIDE DEF To, Into
  <2>4. SumFunctionOnSet(f, To(t) \cup Into(s \ {t}))
          = SumFunctionOnSet(f, To(t)) + SumFunctionOnSet(f, Into(s \ {t}))
    BY <2>1, <2>2, <2>3, SumOfUnion
  <2> QED BY <2>1, <2>4, Zenon
<1>10. SumFunctionOnSet(g, s) = SumFunctionOnSet(f, Into(s))
  <2> HIDE DEF Bad, g, To, Into
  <2> QED BY <1>6, <1>8, <1>9
<1> QED BY <1>10

(* Between values f and g, linked as from and to, only x changes, and it counts
   for t or not at all. *)
OneCounts(S, x, t, f, from, g, to) ==
  /\ IsFiniteSet(S) /\ x \in S
  /\ \A y \in S : f[y] \in Int /\ g[y] \in Int
  /\ \A y \in S \ {x} : g[y] = f[y] /\ to[y] = from[y]
  /\ f[x] = 0 \/ from[x] = t
  /\ g[x] = 0 \/ to[x] = t

(* Its target's sum changes by as much as it does, the other sums do not. *)
LEMMA SumOfLinked ==
  ASSUME NEW f, NEW g, NEW from, NEW to, NEW S, NEW x, NEW t, OneCounts(S, x, t, f, from, g, to),
         NEW u
  PROVE  SumFunctionOnSet(g, Linked(S, to, u))
           = SumFunctionOnSet(f, Linked(S, from, u)) + (IF u = t THEN g[x] - f[x] ELSE 0)
<1> USE DEF OneCounts
<1> DEFINE F == [y \in S |-> IF from[y] = u THEN f[y] ELSE 0]
           G == [y \in S |-> IF to[y] = u THEN g[y] ELSE 0]
<1>1. SumFunctionOnSet(F, S) = SumFunctionOnSet(f, Linked(S, from, u))
  BY SumOfPart DEF Linked
<1>2. SumFunctionOnSet(G, S) = SumFunctionOnSet(g, Linked(S, to, u))
  BY SumOfPart DEF Linked
<1>3. \A y \in S : F[y] \in Int /\ G[y] \in Int
  OBVIOUS
<1>4. \A y \in S \ {x} : G[y] = F[y]
  OBVIOUS
<1>5. G[x] - F[x] = IF u = t THEN g[x] - f[x] ELSE 0
  OBVIOUS
<1>6. SumFunctionOnSet(F, S) \in Int
  <2> HIDE DEF F
  <2> QED BY <1>3, SumIsInt
<1> HIDE DEF F, G
<1>7. SumFunctionOnSet(G, S) = SumFunctionOnSet(F, S) - F[x] + G[x]
  BY <1>3, <1>4, SumOfChanged
<1>8. SumFunctionOnSet(G, S) = SumFunctionOnSet(F, S) + (G[x] - F[x])
  BY <1>3, <1>6, <1>7
<1> QED BY <1>1, <1>2, <1>5, <1>8
=============================================================================
