---------------------------- MODULE NumberLemmas ----------------------------
(***************************************************************************)
(* What the proofs need to know of the sums, maxima and minima that the    *)
(* models take from the community modules: the sizes of blocks that are    *)
(* sent, of the content that is indexed, and the ends of the payment       *)
(* intervals.  Induction over finite sets and over the natural numbers is  *)
(* used in the form "a non-empty set has a minimal member".                *)
(***************************************************************************)
EXTENDS Integers, FiniteSetsExt, Functions, FiniteSetTheorems,
        WellFoundedInduction, TLAPS

(* The function whose value at S the fold in SumFunctionOnSet takes. *)
Adds(f, S, g) ==
  g = [s \in SUBSET S |-> IF s = {} THEN 0
         ELSE f[CHOOSE x \in s : TRUE] + g[s \ {CHOOSE x \in s : TRUE}]]

(* A sum is the value at S of some function that adds up the subsets of S. *)
LEMMA SumDef ==
  ASSUME NEW f, NEW S
  PROVE  SumFunctionOnSet(f, S) = (CHOOSE g : Adds(f, S, g))[S]
BY Zenon DEF SumFunctionOnSet, FoldFunctionOnSet, MapThenFoldSet, Adds

(* A non-empty set of subsets of a finite set has a minimal member: the    *)
(* form in which the proofs below use induction over finite sets.          *)
LEMMA MinimalSubset ==
  ASSUME NEW S, IsFiniteSet(S), NEW B \in SUBSET (SUBSET S), B # {}
  PROVE  \E s \in B : \A t \in SUBSET s : t \in B => t = s
<1>1. IsWellFoundedOn(StrictSubsetOrdering(S), SUBSET S)
  BY FS_StrictSubsetOrderingWellFounded, FS_FiniteSubsetsOfFinite, Zenon
<1>2. PICK s \in B : \A t \in B : ~ <<t, s>> \in StrictSubsetOrdering(S)
  BY <1>1, WFMin, Zenon
<1>3. ASSUME NEW t \in SUBSET s, t \in B, t # s PROVE FALSE
  BY <1>2, <1>3, Zenon DEF StrictSubsetOrdering
<1> QED BY <1>3, Zenon

(* Two functions that add up f agree where both are defined. *)
LEMMA AddsUnique ==
  ASSUME NEW f, NEW S, IsFiniteSet(S), NEW T \in SUBSET S, NEW g, NEW h,
         Adds(f, S, g), Adds(f, T, h)
  PROVE  \A s \in SUBSET T : g[s] = h[s]
<1> DEFINE B == {s \in SUBSET T : g[s] # h[s]}
<1> SUFFICES ASSUME B # {} PROVE FALSE
  OBVIOUS
<1>1. PICK s \in B : \A t \in SUBSET s : t \in B => t = s
  <2>1. IsFiniteSet(T)
    BY FS_Subset, Zenon
  <2>2. B \in SUBSET (SUBSET T)
    OBVIOUS
  <2> HIDE DEF B
  <2> QED BY <2>1, <2>2, MinimalSubset
<1> DEFINE x == CHOOSE x \in s : TRUE
<1>2. s \in SUBSET S /\ s \in SUBSET T /\ g[s] # h[s]
  OBVIOUS
<1>3. CASE s = {}
  BY <1>2, <1>3, Zenon DEF Adds
<1>4. CASE s # {}
  <2>1. x \in s
    BY <1>4, Zenon
  <2>2. g[s] = f[x] + g[s \ {x}] /\ h[s] = f[x] + h[s \ {x}]
    BY <1>2, <1>4, Zenon DEF Adds
  <2> HIDE DEF x
  <2>3. s \ {x} \in SUBSET s /\ s \ {x} \in SUBSET T /\ s \ {x} # s
    BY <1>2, <2>1, Zenon
  <2>4. g[s \ {x}] = h[s \ {x}]
    BY <1>1, <2>3, Zenon
  <2> QED BY <1>2, <2>2, <2>4, Zenon
<1> QED BY <1>3, <1>4, Zenon

(* There is a function that adds up f over a finite set. *)
LEMMA AddsExists ==
  ASSUME NEW f, NEW S, IsFiniteSet(S)
  PROVE  \E g : Adds(f, S, g)
<1> DEFINE B == {s \in SUBSET S : ~ \E g : Adds(f, s, g)}
           Pick(s) == CHOOSE x \in s : TRUE
           H(s) == CHOOSE h : Adds(f, s, h)
<1> SUFFICES ASSUME B # {} PROVE FALSE
  OBVIOUS
<1>1. PICK s \in B : \A t \in SUBSET s : t \in B => t = s
  <2>2. B \in SUBSET (SUBSET S)
    OBVIOUS
  <2> HIDE DEF B
  <2> QED BY <2>2, MinimalSubset
<1>2. s \in SUBSET S /\ ~ \E g : Adds(f, s, g) /\ IsFiniteSet(s)
  BY FS_Subset, Zenon
<1>3. \A t \in SUBSET s : t # s => Adds(f, t, H(t)) /\ IsFiniteSet(t)
  BY <1>1, <1>2, FS_Subset, Zenon
<1>4. \A t \in SUBSET s : t # {} => Pick(t) \in t
  OBVIOUS
<1> DEFINE g == [t \in SUBSET s |-> IF t = {} THEN 0
                   ELSE f[Pick(t)] + H(t \ {Pick(t)})[t \ {Pick(t)}]]
<1>5. ASSUME NEW t \in SUBSET s, t # s PROVE g[t] = H(t)[t]
  <2>1. Adds(f, t, H(t))
    BY <1>3, <1>5, Zenon
  <2>2. CASE t = {}
    BY <2>1, <2>2, Zenon DEF Adds
  <2>3. CASE t # {}
    <3> DEFINE u == t \ {Pick(t)}
    <3>1. u \in SUBSET t /\ u \in SUBSET s /\ u # s
      BY <1>4, <2>3, Zenon
    <3>2. H(t)[t] = f[Pick(t)] + H(t)[u]
      <4> DEFINE k == H(t)
      <4>1. Adds(f, t, k)
        BY <2>1, Zenon
      <4> HIDE DEF H, k
      <4>2. k[t] = f[Pick(t)] + k[u]
        BY <4>1, <2>3, Zenon DEF Adds
      <4> QED BY <4>2, Zenon DEF k
    <3>3. H(t)[u] = H(u)[u]
      <4>1. Adds(f, u, H(u)) /\ IsFiniteSet(t)
        BY <1>3, <1>5, <3>1, Zenon
      <4> HIDE DEF H, u
      <4> QED BY <2>1, <3>1, <4>1, AddsUnique
    <3> HIDE DEF H
    <3> QED BY <2>3, <3>2, <3>3, Zenon
  <2> QED BY <2>2, <2>3, Zenon
<1>6. Adds(f, s, g)
  <2>1. ASSUME NEW t \in SUBSET s, t # {}
        PROVE  H(t \ {Pick(t)})[t \ {Pick(t)}] = g[t \ {Pick(t)}]
    <3>1. t \ {Pick(t)} \in SUBSET s /\ t \ {Pick(t)} # s
      BY <1>4, <2>1, Zenon
    <3> HIDE DEF g, H, Pick
    <3> QED BY <1>5, <3>1, Zenon
  <2> DEFINE v(t) == IF t = {} THEN 0 ELSE f[Pick(t)] + H(t \ {Pick(t)})[t \ {Pick(t)}]
             w(t) == IF t = {} THEN 0 ELSE f[Pick(t)] + g[t \ {Pick(t)}]
  <2>2. \A t \in SUBSET s : v(t) = w(t)
    <3> SUFFICES ASSUME NEW t \in SUBSET s PROVE v(t) = w(t)
      OBVIOUS
    <3>1. CASE t = {}
      BY <3>1, Zenon
    <3>2. CASE t # {}
      <4>1. H(t \ {Pick(t)})[t \ {Pick(t)}] = g[t \ {Pick(t)}]
        BY <2>1, <3>2, Zenon
      <4> HIDE DEF g, H, Pick
      <4> QED BY <3>2, <4>1, Zenon
    <3> QED BY <3>1, <3>2, Zenon
  <2>3. g = [t \in SUBSET s |-> v(t)]
    OBVIOUS
  <2> HIDE DEF v, w, g
  <2>4. g = [t \in SUBSET s |-> w(t)]
    BY <2>2, <2>3, Zenon
  <2> QED BY <2>4, Zenon DEF Adds, w
<1> QED BY <1>2, <1>6, Zenon

(* The sum over the empty set. *)
LEMMA SumEmpty ==
  ASSUME NEW f
  PROVE  SumFunctionOnSet(f, {}) = 0
<1>1. PICK g : Adds(f, {}, g)
  BY AddsExists, FS_EmptySet, Zenon
<1> DEFINE h == CHOOSE k : Adds(f, {}, k)
<1>2. Adds(f, {}, h)
  BY <1>1, Zenon
<1> HIDE DEF h
<1>3. h[{}] = 0
  BY <1>2, Zenon DEF Adds
<1> QED BY <1>3, SumDef, Zenon DEF h

(* A sum is the chosen element and the sum of the others. *)
LEMMA SumPick ==
  ASSUME NEW f, NEW S, IsFiniteSet(S), S # {}
  PROVE  LET x == CHOOSE x \in S : TRUE
         IN  SumFunctionOnSet(f, S) = f[x] + SumFunctionOnSet(f, S \ {x})
<1> DEFINE x == CHOOSE x \in S : TRUE
           T == S \ {x}
           g == CHOOSE k : Adds(f, S, k)
           h == CHOOSE k : Adds(f, T, k)
<1>0. x \in S
  OBVIOUS
<1>1. IsFiniteSet(T) /\ T \in SUBSET S
  BY FS_Subset, Zenon
<1>2. Adds(f, S, g) /\ Adds(f, T, h)
  BY <1>1, AddsExists, Zenon
<1>3. SumFunctionOnSet(f, S) = g[S] /\ SumFunctionOnSet(f, T) = h[T]
  BY SumDef, Zenon
<1>4. g[S] = f[x] + g[T]
  <2> HIDE DEF g
  <2> QED BY <1>2, Zenon DEF Adds
<1> HIDE DEF g, h, T, x
<1>5. g[T] = h[T]
  BY <1>1, <1>2, AddsUnique
<1> QED BY <1>3, <1>4, <1>5, Zenon DEF x, T

(* A sum of natural numbers is one, and it does not matter which element   *)
(* is taken out of it first.                                               *)
LEMMA SumRemove ==
  ASSUME NEW S, IsFiniteSet(S), NEW f, \A x \in S : f[x] \in Nat
  PROVE  /\ SumFunctionOnSet(f, S) \in Nat
         /\ \A x \in S : SumFunctionOnSet(f, S) = f[x] + SumFunctionOnSet(f, S \ {x})
<1> DEFINE Sum(s) == SumFunctionOnSet(f, s)
           Good(s) == Sum(s) \in Nat /\ \A x \in s : Sum(s) = f[x] + Sum(s \ {x})
           B == {s \in SUBSET S : ~Good(s)}
<1> SUFFICES ASSUME B # {} PROVE FALSE
  OBVIOUS
<1>1. PICK s \in B : \A t \in SUBSET s : t \in B => t = s
  <2>2. B \in SUBSET (SUBSET S)
    OBVIOUS
  <2> HIDE DEF B
  <2> QED BY <2>2, MinimalSubset
<1>2. s \in SUBSET S /\ ~Good(s) /\ IsFiniteSet(s)
  BY FS_Subset, Zenon
<1>3. \A t \in SUBSET s : t # s => Good(t)
  BY <1>1, <1>2, Zenon
<1> DEFINE p == CHOOSE x \in s : TRUE
<1>4. CASE s = {}
  BY <1>2, <1>4, SumEmpty
<1>5. CASE s # {}
  <2>1. p \in s /\ Sum(s) = f[p] + Sum(s \ {p})
    BY <1>2, <1>5, SumPick, Zenon
  <2> HIDE DEF p, Sum
  <2>2. Sum(s \ {p}) \in Nat /\ f[p] \in Nat
    BY <1>2, <1>3, <2>1, Zenon
  <2>3. ASSUME NEW x \in s, x # p PROVE Sum(s) = f[x] + Sum(s \ {x})
    <3>1. s \ {x} # s /\ s \ {x} \in SUBSET s /\ p \in s \ {x}
      BY <2>1, <2>3, Zenon
    <3>2. s \ {p} # s /\ s \ {p} \in SUBSET s /\ x \in s \ {p}
      BY <2>1, <2>3, Zenon
    <3>3. (s \ {x}) \ {p} = (s \ {p}) \ {x}
      OBVIOUS
    <3>4. Good(s \ {x}) /\ Good(s \ {p})
      BY <1>3, <3>1, <3>2, Zenon
    <3>5. Sum(s \ {x}) = f[p] + Sum((s \ {x}) \ {p})
      BY <3>1, <3>4, Zenon
    <3>6. Sum(s \ {p}) = f[x] + Sum((s \ {p}) \ {x})
      BY <3>2, <3>4, Zenon
    <3>7. Sum((s \ {p}) \ {x}) \in Nat
      <4>1. (s \ {p}) \ {x} \in SUBSET s /\ (s \ {p}) \ {x} # s
        BY <2>1, Zenon
      <4> QED BY <1>3, <4>1, Zenon
    <3>8. f[x] \in Nat /\ f[p] \in Nat
      BY <1>2, <2>1, Zenon
    <3> QED BY <2>1, <3>3, <3>5, <3>6, <3>7, <3>8
  <2>4. Sum(s) \in Nat
    BY <2>1, <2>2
  <2> QED BY <1>2, <2>1, <2>3, <2>4, Zenon
<1> QED BY <1>4, <1>5, Zenon

-----------------------------------------------------------------------------
(* A sum does not depend on the values of the function outside the set. *)
LEMMA SumSame ==
  ASSUME NEW S, IsFiniteSet(S), NEW f, NEW g, \A x \in S : f[x] = g[x]
  PROVE  SumFunctionOnSet(f, S) = SumFunctionOnSet(g, S)
<1> DEFINE B == {s \in SUBSET S : SumFunctionOnSet(f, s) # SumFunctionOnSet(g, s)}
<1> SUFFICES ASSUME B # {} PROVE FALSE
  OBVIOUS
<1>1. PICK s \in B : \A t \in SUBSET s : t \in B => t = s
  <2>1. B \in SUBSET (SUBSET S)
    OBVIOUS
  <2> HIDE DEF B
  <2> QED BY <2>1, MinimalSubset
<1>2. s \in SUBSET S /\ IsFiniteSet(s)
      /\ SumFunctionOnSet(f, s) # SumFunctionOnSet(g, s)
  BY FS_Subset, Zenon
<1>3. s # {}
  BY <1>2, SumEmpty, Zenon
<1> DEFINE x == CHOOSE x \in s : TRUE
<1>4. x \in s /\ f[x] = g[x]
  BY <1>2, <1>3, Zenon
<1>5. /\ SumFunctionOnSet(f, s) = f[x] + SumFunctionOnSet(f, s \ {x})
      /\ SumFunctionOnSet(g, s) = g[x] + SumFunctionOnSet(g, s \ {x})
  BY <1>2, <1>3, SumPick, Zenon
<1> HIDE DEF x
<1>6. s \ {x} \in SUBSET s /\ s \ {x} # s /\ s \ {x} \in SUBSET S
  BY <1>2, <1>4, Zenon
<1>7. SumFunctionOnSet(f, s \ {x}) = SumFunctionOnSet(g, s \ {x})
  BY <1>1, <1>6, Zenon
<1> QED BY <1>2, <1>4, <1>5, <1>7, Zenon

(* Adding a new element adds its value. *)
LEMMA SumAdd ==
  ASSUME NEW S, IsFiniteSet(S), NEW y, y \notin S,
         NEW f, \A x \in S \cup {y} : f[x] \in Nat
  PROVE  /\ IsFiniteSet(S \cup {y})
         /\ SumFunctionOnSet(f, S \cup {y}) = f[y] + SumFunctionOnSet(f, S)
<1>1. IsFiniteSet(S \cup {y})
  BY FS_AddElement, Zenon
<1>2. (S \cup {y}) \ {y} = S
  OBVIOUS
<1> QED BY <1>1, <1>2, SumRemove

(* A non-empty set of natural numbers has a least element. *)
LEMMA LeastNat ==
  ASSUME NEW S \in SUBSET Nat, S # {}
  PROVE  \E x \in S : \A y \in S : x <= y
<1> DEFINE R == OpToRel(<, Nat)
<1>1. IsWellFoundedOn(R, Nat)
  BY NatLessThanWellFounded, Zenon
<1>2. R = {ss \in Nat \X Nat : ss[1] < ss[2]}
  BY Zenon DEF OpToRel
<1> HIDE DEF R
<1>3. PICK x \in S : \A y \in S : ~ <<y, x>> \in R
  BY <1>1, WFMin, Zenon
<1>4. \A y \in S : ~ (y < x)
  BY <1>2, <1>3, Zenon
<1> QED BY <1>4

(* Min of a non-empty set of natural numbers. *)
LEMMA MinIsLeast ==
  ASSUME NEW S \in SUBSET Nat, S # {}
  PROVE  Min(S) \in S /\ \A y \in S : Min(S) <= y
BY LeastNat, Zenon DEF Min

(* A non-empty set of integers with an upper bound has a greatest element. *)
LEMMA MaxIsGreatest ==
  ASSUME NEW S \in SUBSET Int, S # {}, NEW b \in Int, \A x \in S : x <= b
  PROVE  Max(S) \in S /\ \A y \in S : y <= Max(S)
<1> DEFINE T == {b - x : x \in S}
<1>1. T \in SUBSET Nat /\ T # {}
  <2>1. PICK x \in S : TRUE
    OBVIOUS
  <2>2. b - x \in T
    BY <2>1, Zenon
  <2>3. \A y \in S : b - y \in Nat
    OBVIOUS
  <2> QED BY <2>2, <2>3, Zenon
<1>2. PICK t \in T : \A u \in T : t <= u
  <2> HIDE DEF T
  <2> QED BY <1>1, LeastNat, Zenon
<1>3. PICK x \in S : t = b - x
  OBVIOUS
<1>4. \A y \in S : x >= y
  BY <1>2, <1>3
<1> QED BY <1>4, Zenon DEF Max

(* Max and Min of two numbers. *)
LEMMA MaxOfTwo ==
  ASSUME NEW a \in Int, NEW b \in Int
  PROVE  Max({a, b}) \in {a, b} /\ Max({a, b}) >= a /\ Max({a, b}) >= b
<1>1. \E x \in {a, b} : \A y \in {a, b} : x >= y
  OBVIOUS
<1> QED BY <1>1, Zenon DEF Max

(* The same for Min. *)
LEMMA MinOfTwo ==
  ASSUME NEW a \in Int, NEW b \in Int
  PROVE  Min({a, b}) \in {a, b} /\ Min({a, b}) <= a /\ Min({a, b}) <= b
<1>1. \E x \in {a, b} : \A y \in {a, b} : x <= y
  OBVIOUS
<1> QED BY <1>1, Zenon DEF Min
=============================================================================
