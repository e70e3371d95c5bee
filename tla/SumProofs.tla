------------------------------ MODULE SumProofs ------------------------------
(* Sums over finite sets, of any size.  SumFunctionOnSet is defined by     *)
(* recursion on the subsets of the set, so each fact is proved by a least  *)
(* counterexample.                                                         *)
EXTENDS Integers, FiniteSets, Functions, FiniteSetTheorems, TLAPS

Some(s) == CHOOSE x \in s : TRUE

\* g is the sum of w over each subset of S, as SumFunctionOnSet goes through them.
Sums(g, w, S) ==
    g = [s \in SUBSET S |-> IF s = {} THEN 0 ELSE w[Some(s)] + g[s \ {Some(s)}]]

LEMMA SomeIn == ASSUME NEW s, s # {} PROVE Some(s) \in s
BY DEF Some

(* A family of subsets of a finite set has one that is minimal in it.      *)
LEMMA MinimalSubset ==
    ASSUME NEW S, IsFiniteSet(S), NEW T, T \subseteq SUBSET S, T # {}
    PROVE  \E s \in T : \A t \in SUBSET s : t # s => t \notin T
<1>1. IsWellFoundedOn(StrictSubsetOrdering(S), SUBSET S)
    BY FS_StrictSubsetOrderingWellFounded, FS_FiniteSubsetsOfFinite
<1>2. PICK s \in T : \A t \in T : <<t, s>> \notin StrictSubsetOrdering(S)
    BY <1>1, WFMin
<1>3. \A t \in SUBSET s : t # s => t \notin T
    BY <1>2 DEF StrictSubsetOrdering
<1>. QED BY <1>3

(* Two such functions agree where both are defined.                        *)
LEMMA SumsUnique ==
    ASSUME NEW w, NEW S, NEW T, NEW f, NEW g, Sums(f, w, S), Sums(g, w, T),
           NEW U, IsFiniteSet(U), U \subseteq S, U \subseteq T
    PROVE  f[U] = g[U]
<1> DEFINE Bad == {s \in SUBSET U : f[s] # g[s]}
<1>1. SUFFICES ASSUME Bad # {} PROVE FALSE
    OBVIOUS
<1>2. PICK s \in Bad : \A t \in SUBSET s : t # s => t \notin Bad
  <2> HIDE DEF Bad
  <2>1. Bad \subseteq SUBSET U
    BY DEF Bad
  <2>. QED BY <1>1, <2>1, MinimalSubset
<1>3. CASE s = {}
    BY <1>3, <1>2 DEF Sums
<1>4. CASE s # {}
  <2> DEFINE t == s \ {Some(s)}
  <2>1. t \in SUBSET s /\ t # s
    BY <1>4, SomeIn
  <2>2. f[t] = g[t]
    BY <1>2, <2>1
  <2>3. s \in SUBSET S /\ s \in SUBSET T
    BY <1>2
  <2>4. f[s] = w[Some(s)] + f[t] /\ g[s] = w[Some(s)] + g[t]
    <3> HIDE DEF t
    <3>1. f[s] = w[Some(s)] + f[s \ {Some(s)}]
      BY <1>4, <2>3 DEF Sums
    <3>2. g[s] = w[Some(s)] + g[s \ {Some(s)}]
      BY <1>4, <2>3 DEF Sums
    <3>. QED BY <3>1, <3>2 DEF t
  <2>. QED BY <1>2, <2>2, <2>4
<1>. QED BY <1>3, <1>4

LEMMA SumsExist ==
    ASSUME NEW w, NEW S, IsFiniteSet(S)
    PROVE  \E g : Sums(g, w, S)
<1> DEFINE Bad == {s \in SUBSET S : ~ \E g : Sums(g, w, s)}
<1>1. SUFFICES ASSUME Bad # {} PROVE FALSE
    OBVIOUS
<1>2. PICK s \in Bad : \A t \in SUBSET s : t # s => t \notin Bad
  <2> HIDE DEF Bad
  <2>1. Bad \subseteq SUBSET S
    BY DEF Bad
  <2>. QED BY <1>1, <2>1, MinimalSubset
<1> DEFINE h(t) == CHOOSE g : Sums(g, w, t)
           g == [t \in SUBSET s |-> IF t = {} THEN 0
                                    ELSE w[Some(t)] + h(t \ {Some(t)})[t \ {Some(t)}]]
<1>3. ASSUME NEW t, t \in SUBSET s, t # s PROVE Sums(h(t), w, t)
  <2>1. \E f : Sums(f, w, t)
    BY <1>2, <1>3
  <2>. QED BY <2>1
<1>4. ASSUME NEW t, t \in SUBSET s, t # {}
      PROVE  h(t \ {Some(t)})[t \ {Some(t)}] = g[t \ {Some(t)}]
  <2> DEFINE u == t \ {Some(t)}
             v == u \ {Some(u)}
  <2>0. u \in SUBSET s /\ u # s /\ Some(t) \in t
    BY <1>4, SomeIn
  <2>1. Sums(h(u), w, u)
    BY <2>0, <1>3
  <2>2. CASE u = {}
    <3> HIDE DEF u, h
    <3>1. h(u)[u] = 0
      BY <2>1, <2>2 DEF Sums
    <3>2. g[u] = 0
      BY <2>2, <2>0
    <3>. QED BY <3>1, <3>2 DEF u
  <2>3. CASE u # {}
    <3>1. v \in SUBSET s /\ v # s /\ v \in SUBSET u
      BY <2>0, <2>3, SomeIn
    <3>2. Sums(h(v), w, v)
      BY <3>1, <1>3
    <3>3. h(u)[v] = h(v)[v]
      <4>1. IsFiniteSet(v)
        BY <3>1, FS_Subset
      <4> HIDE DEF h, v, u
      <4>. QED BY <3>1, <3>2, <2>1, <4>1, SumsUnique
    <3>4. h(u)[u] = w[Some(u)] + h(u)[v]
      <4>1. u \in SUBSET u
        OBVIOUS
      <4> HIDE DEF h, u
      <4>. QED BY <2>1, <2>3, <4>1 DEF Sums
    <3>5. g[u] = w[Some(u)] + h(v)[v]
      <4> HIDE DEF h, u
      <4>. QED BY <2>0, <2>3
    <3>. QED BY <3>3, <3>4, <3>5
  <2>. QED BY <2>2, <2>3
<1>5. Sums(g, w, s)
  <2> DEFINE F == [t \in SUBSET s |-> IF t = {} THEN 0 ELSE w[Some(t)] + g[t \ {Some(t)}]]
  <2>1. \A t \in SUBSET s : g[t] = F[t]
    <3> SUFFICES ASSUME NEW t \in SUBSET s PROVE g[t] = F[t]
      OBVIOUS
    <3>1. CASE t = {}
      BY <3>1
    <3>2. CASE t # {}
      <4> DEFINE u == t \ {Some(t)}
      <4>1. h(u)[u] = g[u]
          BY <3>2, <1>4
      <4> HIDE DEF h
      <4>2. g[t] = w[Some(t)] + h(u)[u]
          BY <3>2
      <4> HIDE DEF g
      <4>3. F[t] = w[Some(t)] + g[u]
          BY <3>2
      <4>. QED BY <4>1, <4>2, <4>3
    <3>. QED BY <3>1, <3>2
  <2>2. g = F
    <3>1. g = [t \in SUBSET s |-> g[t]] /\ F = [t \in SUBSET s |-> F[t]]
      OBVIOUS
    <3> HIDE DEF g, F
    <3>. QED BY <2>1, <3>1
  <2>. QED BY <2>2 DEF Sums
<1>. QED BY <1>2, <1>5

LEMMA SumIs ==
    ASSUME NEW w, NEW S, IsFiniteSet(S)
    PROVE  \E g : Sums(g, w, S) /\ SumFunctionOnSet(w, S) = g[S]
<1> DEFINE g == CHOOSE g : g = [s \in SUBSET S |->
                      IF s = {} THEN 0
                      ELSE w[CHOOSE x \in s : TRUE] + g[s \ {CHOOSE x \in s : TRUE}]]
<1>1. SumFunctionOnSet(w, S) = g[S]
    BY DEF SumFunctionOnSet, FoldFunctionOnSet, MapThenFoldSet
<1>2. PICK f : Sums(f, w, S)
    BY SumsExist
<1>3. f = [s \in SUBSET S |-> IF s = {} THEN 0 ELSE w[Some(s)] + f[s \ {Some(s)}]]
    BY <1>2, Zenon DEF Sums
<1>4. Sums(g, w, S)
    BY <1>3, Zenon DEF Sums, Some
<1>. QED BY <1>1, <1>4

LEMMA SumEmpty == ASSUME NEW w PROVE SumFunctionOnSet(w, {}) = 0
<1>1. PICK g : Sums(g, w, {}) /\ SumFunctionOnSet(w, {}) = g[{}]
    BY SumIs, FS_EmptySet
<1>. QED BY <1>1 DEF Sums

LEMMA SumStep ==
    ASSUME NEW w, NEW S, IsFiniteSet(S), S # {}
    PROVE  SumFunctionOnSet(w, S) = w[Some(S)] + SumFunctionOnSet(w, S \ {Some(S)})
<1> DEFINE T == S \ {Some(S)}
<1>1. PICK f : Sums(f, w, S) /\ SumFunctionOnSet(w, S) = f[S]
    BY SumIs
<1>2. IsFiniteSet(T) /\ T \subseteq S
    BY FS_Subset
<1>3. PICK g : Sums(g, w, T) /\ SumFunctionOnSet(w, T) = g[T]
    BY <1>2, SumIs
<1> HIDE DEF T
<1>4. f[T] = g[T]
    BY <1>1, <1>2, <1>3, SumsUnique
<1>5. f[S] = w[Some(S)] + f[T]
    BY <1>1 DEF Sums, T
<1>. QED BY <1>1, <1>3, <1>4, <1>5 DEF T

(* The sum of integers is an integer, ...                                  *)
LEMMA SumIsInt ==
    ASSUME NEW w, NEW S, IsFiniteSet(S), \A x \in S : w[x] \in Int
    PROVE  SumFunctionOnSet(w, S) \in Int
<1> DEFINE Bad == {s \in SUBSET S : SumFunctionOnSet(w, s) \notin Int}
<1> SUFFICES ASSUME Bad # {} PROVE FALSE
    OBVIOUS
<1>1. PICK s \in Bad : \A t \in SUBSET s : t # s => t \notin Bad
  <2>1. Bad \subseteq SUBSET S
      OBVIOUS
  <2> HIDE DEF Bad
  <2>. QED BY <2>1, MinimalSubset
<1>2. s # {}
    BY SumEmpty
<1>3. IsFiniteSet(s) /\ s \ {Some(s)} \in SUBSET s /\ s \ {Some(s)} # s
    BY <1>2, SomeIn, FS_Subset
<1>4. SumFunctionOnSet(w, s \ {Some(s)}) \in Int
    BY <1>1, <1>3
<1>5. w[Some(s)] \in Int
    BY <1>2, SomeIn
<1>. QED BY <1>1, <1>2, <1>3, <1>4, <1>5, SumStep

(* ... depends on what is summed only, ...                                 *)
LEMMA SumOfSame ==
    ASSUME NEW w, NEW v, NEW S, IsFiniteSet(S), \A x \in S : w[x] = v[x]
    PROVE  SumFunctionOnSet(w, S) = SumFunctionOnSet(v, S)
<1> DEFINE Bad == {s \in SUBSET S : SumFunctionOnSet(w, s) # SumFunctionOnSet(v, s)}
<1> SUFFICES ASSUME Bad # {} PROVE FALSE
    OBVIOUS
<1>1. PICK s \in Bad : \A t \in SUBSET s : t # s => t \notin Bad
  <2>1. Bad \subseteq SUBSET S
      OBVIOUS
  <2> HIDE DEF Bad
  <2>. QED BY <2>1, MinimalSubset
<1>2. s # {}
    BY SumEmpty
<1>3. IsFiniteSet(s) /\ s \ {Some(s)} \in SUBSET s /\ s \ {Some(s)} # s
    BY <1>2, SomeIn, FS_Subset
<1>4. SumFunctionOnSet(w, s \ {Some(s)}) = SumFunctionOnSet(v, s \ {Some(s)})
    BY <1>1, <1>3
<1>5. w[Some(s)] = v[Some(s)]
    BY <1>2, SomeIn
<1>. QED BY <1>1, <1>2, <1>3, <1>4, <1>5, SumStep

(* ... and may be taken in any order.                                      *)
LEMMA SumWithout ==
    ASSUME NEW w, NEW S, IsFiniteSet(S), \A y \in S : w[y] \in Int, NEW x \in S
    PROVE  SumFunctionOnSet(w, S) = w[x] + SumFunctionOnSet(w, S \ {x})
<1> DEFINE Sum(s) == SumFunctionOnSet(w, s)
           Any(s) == \A y \in s : Sum(s) = w[y] + Sum(s \ {y})
           Bad == {s \in SUBSET S : ~Any(s)}
<1> SUFFICES ASSUME Bad # {} PROVE FALSE
    OBVIOUS
<1>1. PICK s \in Bad : \A t \in SUBSET s : t # s => t \notin Bad
  <2>1. Bad \subseteq SUBSET S
      OBVIOUS
  <2> HIDE DEF Bad
  <2>. QED BY <2>1, MinimalSubset
<1>2. PICK y \in s : Sum(s) # w[y] + Sum(s \ {y})
    BY <1>1
<1> DEFINE z == Some(s)
           t == (s \ {y}) \ {z}
<1>3. z \in s /\ IsFiniteSet(s) /\ s \in SUBSET S
    BY <1>2, SomeIn, FS_Subset
<1>4. Sum(s) = w[z] + Sum(s \ {z})
    BY <1>2, <1>3, SumStep
<1>5. y # z
    BY <1>2, <1>4
<1>6. Any(s \ {z}) /\ Any(s \ {y})
    BY <1>1, <1>2, <1>3
<1> HIDE DEF z, Sum
<1>7. Sum(s \ {y}) = w[z] + Sum(t)
    BY <1>2, <1>3, <1>5, <1>6
<1>8. Sum(s \ {z}) = w[y] + Sum(t)
  <2>1. Sum(s \ {z}) = w[y] + Sum((s \ {z}) \ {y})
      BY <1>2, <1>5, <1>6
  <2>2. (s \ {z}) \ {y} = t
      OBVIOUS
  <2>. QED BY <2>1, <2>2
<1>9. Sum(t) \in Int /\ w[y] \in Int /\ w[z] \in Int
  <2>1. IsFiniteSet(t) /\ \A x1 \in t : w[x1] \in Int
      BY <1>3, FS_Subset
  <2>2. Sum(t) \in Int
      BY <2>1, SumIsInt DEF Sum
  <2>. QED BY <1>2, <1>3, <2>2
<1> HIDE DEF t
<1>. QED BY <1>2, <1>4, <1>7, <1>8, <1>9

(* What one member more, less or changed makes of a sum.                   *)
At(w, S, x) == IF x \in S THEN w[x] ELSE 0

LEMMA SumChange ==
    ASSUME NEW w, NEW S, IsFiniteSet(S), \A y \in S : w[y] \in Int,
           NEW v, NEW T, IsFiniteSet(T), \A y \in T : v[y] \in Int,
           NEW x, S \ {x} = T \ {x}, \A y \in S \ {x} : v[y] = w[y]
    PROVE  SumFunctionOnSet(v, T) = SumFunctionOnSet(w, S) - At(w, S, x) + At(v, T, x)
<1> DEFINE Sum == SumFunctionOnSet(w, S \ {x})
<1>1. IsFiniteSet(S \ {x})
    BY FS_Subset
<1>2. SumFunctionOnSet(v, T \ {x}) = Sum
    BY <1>1, SumOfSame
<1>3. Sum \in Int
    BY <1>1, SumIsInt
<1>4. SumFunctionOnSet(w, S) = At(w, S, x) + Sum /\ At(w, S, x) \in Int
  <2>1. CASE x \in S
      BY <2>1, SumWithout DEF At
  <2>2. CASE x \notin S
    <3>1. SumFunctionOnSet(w, S) = Sum
      <4>1. S \ {x} = S
          BY <2>2
      <4>. QED BY <4>1
    <3>. QED BY <1>3, <2>2, <3>1 DEF At
  <2>. QED BY <2>1, <2>2
<1>5. SumFunctionOnSet(v, T) = At(v, T, x) + Sum /\ At(v, T, x) \in Int
  <2>1. CASE x \in T
      BY <1>2, <2>1, SumWithout DEF At
  <2>2. CASE x \notin T
    <3>1. SumFunctionOnSet(v, T) = Sum
      <4>1. T \ {x} = T
          BY <2>2
      <4>. QED BY <1>2, <4>1
    <3>. QED BY <1>3, <2>2, <3>1 DEF At
  <2>. QED BY <2>1, <2>2
<1> HIDE DEF Sum
<1>. QED BY <1>3, <1>4, <1>5

LEMMA SumIsNat ==
    ASSUME NEW w, NEW S, IsFiniteSet(S), \A x \in S : w[x] \in Nat
    PROVE  SumFunctionOnSet(w, S) \in Nat
<1> DEFINE Bad == {s \in SUBSET S : SumFunctionOnSet(w, s) \notin Nat}
<1> SUFFICES ASSUME Bad # {} PROVE FALSE
    OBVIOUS
<1>1. PICK s \in Bad : \A t \in SUBSET s : t # s => t \notin Bad
  <2>1. Bad \subseteq SUBSET S
      OBVIOUS
  <2> HIDE DEF Bad
  <2>. QED BY <2>1, MinimalSubset
<1>2. s # {}
    BY SumEmpty
<1>3. IsFiniteSet(s) /\ s \ {Some(s)} \in SUBSET s /\ s \ {Some(s)} # s
    BY <1>2, SomeIn, FS_Subset
<1>4. SumFunctionOnSet(w, s \ {Some(s)}) \in Nat
    BY <1>1, <1>3
<1>5. w[Some(s)] \in Nat
    BY <1>2, SomeIn
<1>. QED BY <1>1, <1>2, <1>3, <1>4, <1>5, SumStep

(* Sums of sets that share nothing add up, ...                             *)
LEMMA SumSplit ==
    ASSUME NEW w, NEW S, NEW T, IsFiniteSet(S), IsFiniteSet(T), S \cap T = {},
           \A x \in S \cup T : w[x] \in Int
    PROVE  SumFunctionOnSet(w, S \cup T) = SumFunctionOnSet(w, S) + SumFunctionOnSet(w, T)
<1> DEFINE Sum(s) == SumFunctionOnSet(w, s)
           Bad == {t \in SUBSET T : Sum(S \cup t) # Sum(S) + Sum(t)}
<1> SUFFICES ASSUME Bad # {} PROVE FALSE
    OBVIOUS
<1>1. PICK t \in Bad : \A u \in SUBSET t : u # t => u \notin Bad
  <2>1. Bad \subseteq SUBSET T
      OBVIOUS
  <2> HIDE DEF Bad
  <2>. QED BY <2>1, MinimalSubset
<1>2. Sum(S) \in Int
    BY SumIsInt
<1>3. t # {}
  <2> SUFFICES ASSUME t = {} PROVE FALSE
      OBVIOUS
  <2>1. S \cup t = S /\ Sum(t) = 0
      BY SumEmpty
  <2>2. Sum(S \cup t) # Sum(S) + Sum(t)
      BY <1>1
  <2> HIDE DEF Sum
  <2>3. Sum(S \cup t) = Sum(S)
      BY <2>1
  <2>. QED BY <1>2, <2>1, <2>2, <2>3
<1> DEFINE x == Some(t)
           u == t \ {x}
<1>4. x \in t /\ t \in SUBSET T /\ u \in SUBSET t /\ u # t /\ (S \cup t) \ {x} = S \cup u
    BY <1>3, SomeIn
<1>5. IsFiniteSet(t) /\ IsFiniteSet(S \cup t) /\ IsFiniteSet(u)
    BY <1>4, FS_Subset, FS_Union
<1>6. Sum(t) = w[x] + Sum(u)
    BY <1>3, <1>5, SumStep
<1>7. Sum(S \cup t) = w[x] + Sum(S \cup u)
  <2>1. \A y \in S \cup t : w[y] \in Int
      BY <1>4
  <2> HIDE DEF u, x
  <2>2. SumFunctionOnSet(w, S \cup t) = w[x] + SumFunctionOnSet(w, (S \cup t) \ {x})
      BY <1>4, <1>5, <2>1, SumWithout
  <2>. QED BY <1>4, <2>2
<1>8. Sum(S \cup u) = Sum(S) + Sum(u)
    BY <1>1, <1>4
<1>9. w[x] \in Int /\ Sum(u) \in Int
    BY <1>4, <1>5, SumIsInt
<1> HIDE DEF Sum, u, x
<1>. QED BY <1>1, <1>2, <1>6, <1>7, <1>8, <1>9

(* ... so that naturals add up to no less than some of them do.            *)
LEMMA SumGrows ==
    ASSUME NEW w, NEW S, NEW T, IsFiniteSet(T), S \subseteq T, \A x \in T : w[x] \in Nat
    PROVE  SumFunctionOnSet(w, S) <= SumFunctionOnSet(w, T)
<1> DEFINE R == T \ S
<1>1. S \cup R = T /\ S \cap R = {} /\ IsFiniteSet(S) /\ IsFiniteSet(R)
    BY FS_Subset
<1>2. SumFunctionOnSet(w, S) \in Nat /\ SumFunctionOnSet(w, R) \in Nat
    BY <1>1, SumIsNat
<1> HIDE DEF R
<1>3. SumFunctionOnSet(w, T) = SumFunctionOnSet(w, S) + SumFunctionOnSet(w, R)
  <2>1. \A x \in S \cup R : w[x] \in Int
      BY <1>1
  <2>. QED BY <1>1, <2>1, SumSplit
<1>. QED BY <1>2, <1>3
=============================================================================
