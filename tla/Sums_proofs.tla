----------------------------- MODULE Sums_proofs -----------------------------
(***************************************************************************)
(* What SumFunctionOnSet of the community modules computes on a finite set *)
(* of quantities: the stock ledgers are sums over the confirmed orders.    *)
(*                                                                         *)
(* The operator folds the set by a recursive function over its subsets,    *)
(* which takes out one CHOOSEn element at a time.  Whether such a function *)
(* exists, and that the order of the elements does not matter, are         *)
(* inductions on finite sets: each is proved from a minimal exception.     *)
(***************************************************************************)
EXTENDS Functions, FiniteSetTheorems, TLAPS

\* The element the fold takes out of s first.
Pick(s) == CHOOSE x \in s : TRUE

\* One unfolding of the recursive function g that sums f over subsets of S.
Unfold(f, S, g) ==
  [s \in SUBSET S |-> IF s = {} THEN 0 ELSE f[Pick(s)] + g[s \ {Pick(s)}]]

Sums(f, S, g) == g = Unfold(f, S, g)

LEMMA SumIsAChoice ==
  ASSUME NEW f, NEW S
  PROVE  SumFunctionOnSet(f, S) = (CHOOSE g : Sums(f, S, g))[S]
BY DEF SumFunctionOnSet, FoldFunctionOnSet, MapThenFoldSet, Unfold, Pick, Sums

\* A set of subsets of a finite set has a minimal element.
LEMMA MinimalException ==
  ASSUME NEW S, IsFiniteSet(S), NEW Exceptions \in SUBSET SUBSET S,
         Exceptions # {}
  PROVE  \E T \in Exceptions : \A U \in Exceptions : U \subseteq T => U = T
<1>1. Exceptions \subseteq FiniteSubsetsOf(S)
  BY FS_FiniteSubsetsOfFinite
<1>2. PICK T \in Exceptions :
        \A U \in Exceptions : <<U, T>> \notin StrictSubsetOrdering(S)
  BY <1>1, FS_StrictSubsetOrderingWellFounded, WFMin, Zenon
<1>3. ASSUME NEW U \in Exceptions, U \subseteq T, U # T
      PROVE  FALSE
  <2>1. <<U, T>> \in StrictSubsetOrdering(S)
    BY <1>3 DEF StrictSubsetOrdering
  <2> QED BY <2>1, <1>2
<1> QED BY <1>3

LEMMA PickIsIn ==
  ASSUME NEW s, s # {}
  PROVE  /\ Pick(s) \in s
         /\ s \ {Pick(s)} \subseteq s
         /\ s \ {Pick(s)} # s
<1>1. Pick(s) \in s
  BY DEF Pick
<1> QED BY <1>1

LEMMA SumsAt ==
  ASSUME NEW f, NEW S, NEW g, Sums(f, S, g)
  PROVE  \A s \in SUBSET S :
           g[s] = IF s = {} THEN 0 ELSE f[Pick(s)] + g[s \ {Pick(s)}]
BY DEF Sums, Unfold

\* Two such functions agree where both are defined.
LEMMA SumsAgree ==
  ASSUME NEW f, NEW S, IsFiniteSet(S), NEW T, NEW g, NEW h,
         Sums(f, S, g), Sums(f, T, h), NEW U \in SUBSET S, U \subseteq T
  PROVE  g[U] = h[U]
<1> DEFINE Exceptions == {s \in SUBSET S : s \subseteq T /\ g[s] # h[s]}
<1>1. SUFFICES ASSUME Exceptions # {} PROVE FALSE
  OBVIOUS
<1>2. Exceptions \in SUBSET SUBSET S
  OBVIOUS
<1> HIDE DEF Exceptions
<1>3. PICK s \in Exceptions : \A u \in Exceptions : u \subseteq s => u = s
  BY <1>1, <1>2, MinimalException
<1>4. s \in SUBSET S /\ s \in SUBSET T /\ g[s] # h[s]
  BY <1>3 DEF Exceptions
<1>5. g[s] = IF s = {} THEN 0 ELSE f[Pick(s)] + g[s \ {Pick(s)}]
  <2>1. \A u \in SUBSET S :
           g[u] = IF u = {} THEN 0 ELSE f[Pick(u)] + g[u \ {Pick(u)}]
    BY SumsAt
  <2> QED BY <1>4, <2>1
<1>6. h[s] = IF s = {} THEN 0 ELSE f[Pick(s)] + h[s \ {Pick(s)}]
  BY <1>4, SumsAt
<1>7. s # {}
  BY <1>4, <1>5, <1>6
<1>8. g[s \ {Pick(s)}] = h[s \ {Pick(s)}]
  BY <1>3, <1>4, <1>7, PickIsIn DEF Exceptions
<1> QED BY <1>4, <1>5, <1>6, <1>7, <1>8

\* The recursion defines a function on the subsets of a finite set: if T is
\* a minimal set on which it does not, putting together the functions of its
\* proper subsets gives one on T.
LEMMA SumsExist ==
  ASSUME NEW f, NEW S, IsFiniteSet(S)
  PROVE  \E g : Sums(f, S, g)
<1> DEFINE Exceptions == {s \in SUBSET S : ~ \E g : Sums(f, s, g)}
<1>1. SUFFICES ASSUME Exceptions # {} PROVE FALSE
  OBVIOUS
<1>2. Exceptions \in SUBSET SUBSET S
  OBVIOUS
<1> HIDE DEF Exceptions
<1>3. PICK T \in Exceptions : \A u \in Exceptions : u \subseteq T => u = T
  BY <1>1, <1>2, MinimalException
<1>4. T \in SUBSET S /\ ~ \E g : Sums(f, T, g)
  BY <1>3 DEF Exceptions
<1> DEFINE Below(s) == CHOOSE g : Sums(f, s, g)
           Total == Below(T \ {Pick(T)})
           G == [s \in SUBSET T |->
                   IF s = {} THEN 0
                   ELSE f[Pick(s)] + Below(s \ {Pick(s)})[s \ {Pick(s)}]]
<1>5. ASSUME NEW s \in SUBSET T, s # T
      PROVE  Sums(f, s, Below(s))
  <2>1. \E g : Sums(f, s, g)
    BY <1>3, <1>4, <1>5 DEF Exceptions
  <2> QED BY <2>1
<1> HIDE DEF Below
<1>6. ASSUME NEW s \in SUBSET T, s # {}
      PROVE  G[s \ {Pick(s)}] = Below(s \ {Pick(s)})[s \ {Pick(s)}]
  <2> DEFINE u == s \ {Pick(s)}
             v == u \ {Pick(u)}
  <2>1. u \in SUBSET T /\ u # T /\ IsFiniteSet(u)
    BY <1>4, <1>6, PickIsIn, FS_Subset
  <2> HIDE DEF u
  <2>2. Sums(f, u, Below(u))
    BY <2>1, <1>5
  <2>3. Below(u)[u] = IF u = {} THEN 0 ELSE f[Pick(u)] + Below(u)[v]
    BY <2>1, <2>2, SumsAt
  <2>4. G[u] = IF u = {} THEN 0 ELSE f[Pick(u)] + Below(v)[v]
    BY <2>1
  <2>5. CASE u = {}
    BY <2>5, <2>3, <2>4 DEF u
  <2>6. CASE u # {}
    <3>1. v \in SUBSET T /\ v # T /\ v \subseteq u /\ IsFiniteSet(v)
      BY <2>1, <2>6, PickIsIn, FS_Subset
    <3> HIDE DEF v
    <3>2. Sums(f, v, Below(v))
      BY <3>1, <1>5
    <3>3. Below(u)[v] = Below(v)[v]
      BY <3>1, <3>2, <2>1, <2>2, SumsAgree
    <3> QED BY <2>3, <2>4, <2>6, <3>3 DEF u
  <2> QED BY <2>5, <2>6
<1>7. \A s \in SUBSET T :
         G[s] = IF s = {} THEN 0 ELSE f[Pick(s)] + G[s \ {Pick(s)}]
  BY <1>6
<1>8. G = Unfold(f, T, G)
  BY <1>7 DEF Unfold
<1> QED BY <1>4, <1>8 DEF Sums

LEMMA SumIsSums ==
  ASSUME NEW f, NEW S, IsFiniteSet(S)
  PROVE  \E g : Sums(f, S, g) /\ SumFunctionOnSet(f, S) = g[S]
BY SumsExist, SumIsAChoice

-----------------------------------------------------------------------------
\* Over the subsets of S the sums of natural numbers are natural numbers.
LEMMA SumsAreNat ==
  ASSUME NEW f, NEW S, IsFiniteSet(S), \A x \in S : f[x] \in Nat,
         NEW g, Sums(f, S, g), NEW U \in SUBSET S
  PROVE  g[U] \in Nat
<1> DEFINE Exceptions == {s \in SUBSET S : g[s] \notin Nat}
<1>1. SUFFICES ASSUME Exceptions # {} PROVE FALSE
  OBVIOUS
<1>2. Exceptions \in SUBSET SUBSET S
  OBVIOUS
<1> HIDE DEF Exceptions
<1>3. PICK s \in Exceptions : \A u \in Exceptions : u \subseteq s => u = s
  BY <1>1, <1>2, MinimalException
<1>4. s \in SUBSET S /\ g[s] \notin Nat
  BY <1>3 DEF Exceptions
<1>5. g[s] = IF s = {} THEN 0 ELSE f[Pick(s)] + g[s \ {Pick(s)}]
  <2>1. \A u \in SUBSET S :
           g[u] = IF u = {} THEN 0 ELSE f[Pick(u)] + g[u \ {Pick(u)}]
    BY SumsAt
  <2> QED BY <1>4, <2>1
<1>6. s # {}
  BY <1>4, <1>5
<1>7. Pick(s) \in S
  BY <1>4, <1>6, PickIsIn
<1>8. f[Pick(s)] \in Nat
  BY <1>7
<1>9. g[s \ {Pick(s)}] \in Nat
  BY <1>3, <1>4, <1>6, PickIsIn DEF Exceptions
<1> QED BY <1>4, <1>5, <1>6, <1>8, <1>9

\* Any element may be taken out first.
LEMMA AnyElementFirst ==
  ASSUME NEW f, NEW S, IsFiniteSet(S), \A x \in S : f[x] \in Nat,
         NEW g, Sums(f, S, g), NEW U \in SUBSET S, NEW y \in U
  PROVE  g[U] = f[y] + g[U \ {y}]
<1> DEFINE Fits(s, z) == g[s] = f[z] + g[s \ {z}]
           Exceptions == {s \in SUBSET S : \E z \in s : ~ Fits(s, z)}
<1>1. SUFFICES ASSUME Exceptions # {} PROVE FALSE
  OBVIOUS
<1>2. Exceptions \in SUBSET SUBSET S
  OBVIOUS
<1> HIDE DEF Exceptions
<1>3. PICK s \in Exceptions : \A u \in Exceptions : u \subseteq s => u = s
  BY <1>1, <1>2, MinimalException
<1>4. s \in SUBSET S
  BY <1>3 DEF Exceptions
<1>5. PICK z \in s : ~ Fits(s, z)
  BY <1>3 DEF Exceptions
<1> DEFINE x == Pick(s)
           rest == s \ {x, z}
<1>6. x \in s /\ x \in S /\ z \in S
  BY <1>4, <1>5, PickIsIn
<1>7. g[s] = f[x] + g[s \ {x}]
  <2>1. s # {}
    BY <1>5
  <2> QED BY <2>1, <1>4, SumsAt
<1>8. x # z
  BY <1>5, <1>7
<1>9. g[s \ {x}] = f[z] + g[rest]
  <2>1. s \ {x} \in SUBSET S /\ s \ {x} \subseteq s /\ s \ {x} # s
    BY <1>4, <1>6
  <2>2. s \ {x} \notin Exceptions
    BY <2>1, <1>3
  <2>3. z \in s \ {x} /\ (s \ {x}) \ {z} = rest
    BY <1>5, <1>8
  <2> HIDE DEF rest, x
  <2> QED BY <2>1, <2>2, <2>3 DEF Exceptions
<1>10. g[s \ {z}] = f[x] + g[rest]
  <2>1. s \ {z} \in SUBSET S /\ s \ {z} \subseteq s /\ s \ {z} # s
    BY <1>4, <1>5
  <2>2. s \ {z} \notin Exceptions
    BY <2>1, <1>3
  <2>3. x \in s \ {z} /\ (s \ {z}) \ {x} = rest
    BY <1>6, <1>8
  <2> HIDE DEF rest, x
  <2> QED BY <2>1, <2>2, <2>3 DEF Exceptions
<1>11. f[x] \in Nat /\ f[z] \in Nat /\ g[rest] \in Nat
  <2>1. rest \in SUBSET S
    BY <1>4
  <2> HIDE DEF rest, x
  <2> QED BY <2>1, <1>6, SumsAreNat
<1> HIDE DEF x, rest
<1>12. Fits(s, z)
  BY <1>7, <1>9, <1>10, <1>11
<1> QED BY <1>5, <1>12

-----------------------------------------------------------------------------
\* Nothing sums to nothing.
LEMMA SumOverNone ==
  ASSUME NEW f
  PROVE  SumFunctionOnSet(f, {}) = 0
<1>1. PICK g : Sums(f, {}, g) /\ SumFunctionOnSet(f, {}) = g[{}]
  BY SumIsSums, FS_EmptySet
<1> QED BY <1>1, SumsAt

\* A sum of natural numbers is one.
LEMMA SumIsNat ==
  ASSUME NEW f, NEW S, IsFiniteSet(S), \A x \in S : f[x] \in Nat
  PROVE  SumFunctionOnSet(f, S) \in Nat
<1>1. PICK g : Sums(f, S, g) /\ SumFunctionOnSet(f, S) = g[S]
  BY SumIsSums
<1> QED BY <1>1, SumsAreNat

\* A further element adds its quantity, whatever was chosen first.
LEMMA SumOfOneMore ==
  ASSUME NEW f, NEW S, IsFiniteSet(S), NEW y, y \notin S,
         \A x \in S \cup {y} : f[x] \in Nat
  PROVE  SumFunctionOnSet(f, S \cup {y}) = SumFunctionOnSet(f, S) + f[y]
<1> DEFINE T == S \cup {y}
<1>1. IsFiniteSet(T) /\ y \in T /\ T \ {y} = S /\ S \in SUBSET T
  BY FS_AddElement
<1> HIDE DEF T
<1>2. PICK g : Sums(f, T, g) /\ SumFunctionOnSet(f, T) = g[T]
  BY <1>1, SumIsSums
<1>3. PICK h : Sums(f, S, h) /\ SumFunctionOnSet(f, S) = h[S]
  BY SumIsSums
<1>4. \A x \in T : f[x] \in Nat
  BY DEF T
<1>5. g[T] = f[y] + g[S]
  BY <1>1, <1>2, <1>4, AnyElementFirst
<1>6. g[S] = h[S]
  BY <1>1, <1>2, <1>3, SumsAgree
<1>7. g[S] \in Nat /\ f[y] \in Nat
  BY <1>1, <1>2, <1>4, SumsAreNat
<1>8. SumFunctionOnSet(f, T) = SumFunctionOnSet(f, S) + f[y]
  BY <1>2, <1>3, <1>5, <1>6, <1>7
<1> QED BY <1>8 DEF T

==============================================================================
