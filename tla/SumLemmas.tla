------------------------------ MODULE SumLemmas ------------------------------
(***************************************************************************)
(* What the proofs need of the folds that add up numbers, and of least     *)
(* numbers.                                                                *)
(***************************************************************************)
EXTENDS Integers, FiniteSets, FiniteSetsExt, Functions, FiniteSetTheorems, TLAPS

\* A set of natural numbers has a least one.
LEMMA MinIn ==
  ASSUME NEW S \in SUBSET Nat, S # {}
  PROVE  Min(S) \in S /\ \A n \in S : Min(S) <= n
  <1>1. PICK x \in S : \A y \in S : ~(<<y, x>> \in OpToRel(<, Nat))
    BY NatLessThanWellFounded, WFMin
  <1>2. \A y \in S : x <= y
    <2>1. \A y \in S : x \in Nat /\ y \in Nat /\ ~(y < x)
      BY <1>1 DEF OpToRel
    <2> QED  BY <2>1
  <1> QED  BY <1>1, <1>2 DEF Min

-----------------------------------------------------------------------------
(* Sums over finite sets.                                                  *)

Some(S) == CHOOSE x \in S : TRUE

\* h adds up F over every subset of S, taking out some element at a time.
Adds(F, S, h) ==
    h = [s \in SUBSET S |-> IF s = {} THEN 0 ELSE F[Some(s)] + h[s \ {Some(s)}]]

LEMMA SumByAdds ==
  ASSUME NEW F, NEW S
  PROVE  SumFunctionOnSet(F, S) = (CHOOSE h : Adds(F, S, h))[S]
  BY DEF SumFunctionOnSet, FoldFunctionOnSet, MapThenFoldSet, Adds, Some

\* A set of subsets of a finite set has a least one.
LEMMA LeastSubset ==
  ASSUME NEW S, IsFiniteSet(S), NEW T, T \subseteq SUBSET S, T # {}
  PROVE  \E t \in T : \A u \in T : u \subseteq t => u = t
  <1>1. FiniteSubsetsOf(S) = SUBSET S
    BY FS_FiniteSubsetsOfFinite
  <1>2. IsWellFoundedOn(StrictSubsetOrdering(S), SUBSET S)
    BY <1>1, FS_StrictSubsetOrderingWellFounded
  <1>3. PICK t \in T : \A u \in T : ~(<<u, t>> \in StrictSubsetOrdering(S))
    BY <1>2, WFMin
  <1> QED  BY <1>3 DEF StrictSubsetOrdering

LEMMA AddsUnique ==
  ASSUME NEW S, IsFiniteSet(S), NEW F, NEW g, NEW h, Adds(F, S, g), Adds(F, S, h)
  PROVE  g = h
  <1> DEFINE D == {s \in SUBSET S : g[s] # h[s]}
  <1>1. D = {}
    <2> SUFFICES ASSUME D # {} PROVE FALSE
      OBVIOUS
    <2> D \subseteq SUBSET S
      OBVIOUS
    <2> HIDE DEF D
    <2>1. PICK t \in D : \A u \in D : u \subseteq t => u = t
      BY LeastSubset
    <2> USE DEF D
    <2>2. CASE t = {}
      BY <2>2 DEF Adds
    <2>3. CASE t # {}
      <3>1. Some(t) \in t
        BY <2>3 DEF Some
      <3>2. g[t \ {Some(t)}] = h[t \ {Some(t)}]
        BY <2>1, <3>1
      <3>3. /\ g[t] = F[Some(t)] + g[t \ {Some(t)}]
            /\ h[t] = F[Some(t)] + h[t \ {Some(t)}]
        BY <2>3 DEF Adds
      <3> QED  BY <3>2, <3>3
    <2> QED  BY <2>2, <2>3
  <1>2. g = [s \in SUBSET S |-> g[s]] /\ h = [s \in SUBSET S |-> h[s]]
    BY DEF Adds
  <1> QED  BY <1>1, <1>2

LEMMA AddsRestrict ==
  ASSUME NEW F, NEW S, NEW h, Adds(F, S, h), NEW T \in SUBSET S
  PROVE  Adds(F, T, [s \in SUBSET T |-> h[s]])
  <1> DEFINE k == [s \in SUBSET T |-> h[s]]
  <1>1. ASSUME NEW s \in SUBSET T
        PROVE  k[s] = IF s = {} THEN 0 ELSE F[Some(s)] + k[s \ {Some(s)}]
    BY DEF Adds
  <1> QED  BY <1>1 DEF Adds

LEMMA AddsExists ==
  ASSUME NEW S, IsFiniteSet(S), NEW F
  PROVE  \E h : Adds(F, S, h)
  <1> DEFINE D == {s \in SUBSET S : ~\E h : Adds(F, s, h)}
  <1> SUFFICES ASSUME D # {} PROVE FALSE
    OBVIOUS
  <1> D \subseteq SUBSET S
    OBVIOUS
  <1> HIDE DEF D
  <1>1. PICK t \in D : \A u \in D : u \subseteq t => u = t
    BY LeastSubset
  <1> USE DEF D
  <1> DEFINE H(u) == CHOOSE h : Adds(F, u, h)
             g == [s \in SUBSET t |-> IF s = {} THEN 0
                                      ELSE F[Some(s)] + H(s \ {Some(s)})[s \ {Some(s)}]]
  <1>2. \A u \in SUBSET t : u # t => Adds(F, u, H(u))
    BY <1>1
  <1>3. ASSUME NEW s \in SUBSET t, s # {}
        PROVE  g[s \ {Some(s)}] = H(s \ {Some(s)})[s \ {Some(s)}]
    <2> DEFINE u == s \ {Some(s)}
    <2>1. Some(s) \in s /\ u \in SUBSET t /\ u # t
      BY <1>3 DEF Some
    <2>2. Adds(F, u, H(u))
      BY <1>2, <2>1
    <2>3. CASE u = {}
      <3>1. H(u)[u] = 0
        BY <2>2, <2>3 DEF Adds
      <3> QED  BY <2>1, <2>3, <3>1
    <2>4. CASE u # {}
      <3> DEFINE w == u \ {Some(u)}
      <3>1. Some(u) \in u /\ w \in SUBSET u /\ w \in SUBSET t /\ w # t /\ IsFiniteSet(w)
        BY <2>1, <2>4, FS_Subset DEF Some
      <3>2. Adds(F, w, [x \in SUBSET w |-> H(u)[x]])
        <4> HIDE DEF w, u, H, g
        <4> QED  BY <2>2, <3>1, AddsRestrict
      <3>3. Adds(F, w, H(w))
        BY <1>2, <3>1
      <3>4. H(w) = [x \in SUBSET w |-> H(u)[x]]
        BY <3>1, <3>2, <3>3, AddsUnique
      <3>5. H(u)[u] = F[Some(u)] + H(u)[w]
        BY <2>2, <2>4 DEF Adds
      <3>6. g[u] = F[Some(u)] + H(w)[w]
        BY <2>1, <2>4
      <3>7. H(w)[w] = H(u)[w]
        BY <3>4
      <3> QED  BY <3>5, <3>6, <3>7
    <2> QED  BY <2>3, <2>4
  <1>4. ASSUME NEW s \in SUBSET t
        PROVE  g[s] = IF s = {} THEN 0 ELSE F[Some(s)] + g[s \ {Some(s)}]
    <2>1. g[s] = IF s = {} THEN 0 ELSE F[Some(s)] + H(s \ {Some(s)})[s \ {Some(s)}]
      OBVIOUS
    <2> HIDE DEF g
    <2> QED  BY <1>3, <2>1
  <1>5. Adds(F, t, g)
    <2>1. g = [s \in SUBSET t |-> g[s]]
      OBVIOUS
    <2> HIDE DEF g
    <2> QED  BY <1>4, <2>1 DEF Adds
  <1> QED  BY <1>1, <1>5

\* The sum over a finite set, by its recursion.
LEMMA SumStep ==
  ASSUME NEW F, NEW S, IsFiniteSet(S)
  PROVE  /\ SumFunctionOnSet(F, {}) = 0
         /\ S # {} => SumFunctionOnSet(F, S)
                      = F[Some(S)] + SumFunctionOnSet(F, S \ {Some(S)})
  <1> DEFINE H(u) == CHOOSE h : Adds(F, u, h)
  <1>1. \A u : IsFiniteSet(u) => Adds(F, u, H(u))
    BY AddsExists
  <1>2. SumFunctionOnSet(F, {}) = 0
    <2>1. Adds(F, {}, H({}))
      BY <1>1, FS_EmptySet
    <2>2. H({})[{}] = 0
      BY <2>1 DEF Adds
    <2> QED  BY <2>2, SumByAdds
  <1>3. ASSUME S # {}
        PROVE  SumFunctionOnSet(F, S) = F[Some(S)] + SumFunctionOnSet(F, S \ {Some(S)})
    <2> DEFINE u == S \ {Some(S)}
    <2>1. Some(S) \in S /\ u \subseteq S /\ IsFiniteSet(u)
      BY <1>3, FS_Subset DEF Some
    <2>2. Adds(F, S, H(S)) /\ Adds(F, u, H(u))
      BY <1>1, <2>1
    <2>3. H(S)[S] = F[Some(S)] + H(S)[u]
      BY <1>3, <2>2 DEF Adds
    <2>4. Adds(F, u, [s \in SUBSET u |-> H(S)[s]])
      <3> HIDE DEF u, H
      <3> QED  BY <2>1, <2>2, AddsRestrict
    <2>5. H(u) = [s \in SUBSET u |-> H(S)[s]]
      <3> HIDE DEF u, H
      <3> QED  BY <2>1, <2>2, <2>4, AddsUnique
    <2>6. H(u)[u] = H(S)[u]
      BY <2>5
    <2> QED  BY <2>3, <2>6, SumByAdds
  <1> QED  BY <1>2, <1>3

\* A sum of integers is an integer.
LEMMA SumInt ==
  ASSUME NEW S, IsFiniteSet(S), NEW F, \A x \in S : F[x] \in Int
  PROVE  SumFunctionOnSet(F, S) \in Int
  <1> DEFINE D == {s \in SUBSET S : SumFunctionOnSet(F, s) \notin Int}
  <1> SUFFICES ASSUME D # {} PROVE FALSE
    OBVIOUS
  <1> D \subseteq SUBSET S
    OBVIOUS
  <1> HIDE DEF D
  <1>1. PICK t \in D : \A u \in D : u \subseteq t => u = t
    BY LeastSubset
  <1>2. t \subseteq S /\ IsFiniteSet(t)
    BY FS_Subset
  <1>3. CASE t = {}
    <2>1. SumFunctionOnSet(F, {}) = 0
      BY <1>2, SumStep
    <2> QED  BY <1>3, <2>1 DEF D
  <1>4. CASE t # {}
    <2>1. Some(t) \in t
      BY <1>4 DEF Some
    <2>2. SumFunctionOnSet(F, t \ {Some(t)}) \in Int
      BY <1>1, <1>2, <2>1 DEF D
    <2>3. F[Some(t)] \in Int
      BY <1>2, <2>1
    <2>4. SumFunctionOnSet(F, t) = F[Some(t)] + SumFunctionOnSet(F, t \ {Some(t)})
      BY <1>2, <1>4, SumStep
    <2> QED  BY <2>2, <2>3, <2>4 DEF D
  <1> QED  BY <1>3, <1>4

\* A sum of natural numbers is a natural number.
LEMMA SumNat ==
  ASSUME NEW S, IsFiniteSet(S), NEW F, \A x \in S : F[x] \in Nat
  PROVE  SumFunctionOnSet(F, S) \in Nat
  <1> DEFINE D == {s \in SUBSET S : SumFunctionOnSet(F, s) \notin Nat}
  <1> SUFFICES ASSUME D # {} PROVE FALSE
    OBVIOUS
  <1> D \subseteq SUBSET S
    OBVIOUS
  <1> HIDE DEF D
  <1>1. PICK t \in D : \A u \in D : u \subseteq t => u = t
    BY LeastSubset
  <1>2. t \subseteq S /\ IsFiniteSet(t)
    BY FS_Subset
  <1>3. CASE t = {}
    <2>1. SumFunctionOnSet(F, {}) = 0
      BY <1>2, SumStep
    <2> QED  BY <1>3, <2>1 DEF D
  <1>4. CASE t # {}
    <2>1. Some(t) \in t
      BY <1>4 DEF Some
    <2>2. SumFunctionOnSet(F, t \ {Some(t)}) \in Nat
      BY <1>1, <1>2, <2>1 DEF D
    <2>3. F[Some(t)] \in Nat
      BY <1>2, <2>1
    <2>4. SumFunctionOnSet(F, t) = F[Some(t)] + SumFunctionOnSet(F, t \ {Some(t)})
      BY <1>2, <1>4, SumStep
    <2> QED  BY <2>2, <2>3, <2>4 DEF D
  <1> QED  BY <1>3, <1>4

\* Any element may be taken out first.
LEMMA SumRemove ==
  ASSUME NEW S, IsFiniteSet(S), NEW F, \A x \in S : F[x] \in Int, NEW e \in S
  PROVE  SumFunctionOnSet(F, S) = F[e] + SumFunctionOnSet(F, S \ {e})
  <1> DEFINE D == {s \in SUBSET S : \E x \in s :
                      SumFunctionOnSet(F, s) # F[x] + SumFunctionOnSet(F, s \ {x})}
  <1> SUFFICES ASSUME D # {} PROVE FALSE
    OBVIOUS
  <1> D \subseteq SUBSET S
    OBVIOUS
  <1> HIDE DEF D
  <1>1. PICK t \in D : \A u \in D : u \subseteq t => u = t
    BY LeastSubset
  <1>2. t \subseteq S /\ IsFiniteSet(t)
    BY FS_Subset
  <1>3. PICK x \in t : SumFunctionOnSet(F, t) # F[x] + SumFunctionOnSet(F, t \ {x})
    BY DEF D
  <1> DEFINE y == Some(t)
  <1>4. y \in t
    BY DEF Some
  <1>5. SumFunctionOnSet(F, t) = F[y] + SumFunctionOnSet(F, t \ {y})
    BY <1>2, <1>3, SumStep
  <1>6. x # y
    BY <1>3, <1>5
  <1> HIDE DEF y
  <1>7. SumFunctionOnSet(F, t \ {y}) = F[x] + SumFunctionOnSet(F, (t \ {y}) \ {x})
    <2>1. t \ {y} \notin D
      BY <1>1, <1>4
    <2> QED  BY <1>2, <1>3, <1>6, <2>1 DEF D
  <1>8. SumFunctionOnSet(F, t \ {x}) = F[y] + SumFunctionOnSet(F, (t \ {x}) \ {y})
    <2>1. t \ {x} \notin D
      BY <1>1, <1>3
    <2> QED  BY <1>2, <1>4, <1>6, <2>1 DEF D
  <1>9. (t \ {x}) \ {y} = (t \ {y}) \ {x}
    OBVIOUS
  <1>10. SumFunctionOnSet(F, (t \ {y}) \ {x}) \in Int /\ F[x] \in Int /\ F[y] \in Int
    <2>1. IsFiniteSet((t \ {y}) \ {x}) /\ \A z \in (t \ {y}) \ {x} : F[z] \in Int
      BY <1>2, FS_Subset
    <2>2. SumFunctionOnSet(F, (t \ {y}) \ {x}) \in Int
      BY <2>1, SumInt
    <2> QED  BY <1>2, <1>3, <1>4, <2>2
  <1> DEFINE rest == SumFunctionOnSet(F, (t \ {y}) \ {x})
  <1>11. SumFunctionOnSet(F, t) = F[y] + (F[x] + rest)
    BY <1>5, <1>7
  <1>12. F[x] + SumFunctionOnSet(F, t \ {x}) = F[x] + (F[y] + rest)
    BY <1>8, <1>9
  <1>13. rest \in Int /\ F[x] \in Int /\ F[y] \in Int
    BY <1>10
  <1> HIDE DEF rest
  <1>14. F[y] + (F[x] + rest) = F[x] + (F[y] + rest)
    BY <1>13
  <1> QED  BY <1>3, <1>11, <1>12, <1>14

\* A sum depends only on the values at the elements it runs over.
LEMMA SumSame ==
  ASSUME NEW S, IsFiniteSet(S), NEW F, NEW G, \A x \in S : F[x] = G[x]
  PROVE  SumFunctionOnSet(F, S) = SumFunctionOnSet(G, S)
  <1> DEFINE D == {s \in SUBSET S : SumFunctionOnSet(F, s) # SumFunctionOnSet(G, s)}
  <1> SUFFICES ASSUME D # {} PROVE FALSE
    OBVIOUS
  <1> D \subseteq SUBSET S
    OBVIOUS
  <1> HIDE DEF D
  <1>1. PICK t \in D : \A u \in D : u \subseteq t => u = t
    BY LeastSubset
  <1>2. t \subseteq S /\ IsFiniteSet(t)
    BY FS_Subset
  <1>3. CASE t = {}
    BY <1>3, <1>2, SumStep DEF D
  <1>4. CASE t # {}
    <2>1. Some(t) \in t
      BY <1>4 DEF Some
    <2>2. SumFunctionOnSet(F, t \ {Some(t)}) = SumFunctionOnSet(G, t \ {Some(t)})
      BY <1>1, <1>2, <2>1 DEF D
    <2>3. F[Some(t)] = G[Some(t)]
      BY <1>2, <2>1
    <2>4. /\ SumFunctionOnSet(F, t) = F[Some(t)] + SumFunctionOnSet(F, t \ {Some(t)})
          /\ SumFunctionOnSet(G, t) = G[Some(t)] + SumFunctionOnSet(G, t \ {Some(t)})
      BY <1>2, <1>4, SumStep
    <2> QED  BY <2>2, <2>3, <2>4 DEF D
  <1> QED  BY <1>3, <1>4
=============================================================================
