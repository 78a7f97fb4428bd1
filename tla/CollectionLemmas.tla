-------------------------- MODULE CollectionLemmas --------------------------
(***************************************************************************)
(* What the proofs need to know of selections, orders and sums.            *)
(*                                                                         *)
(* Induction over data is by a least counterexample: a set of natural      *)
(* numbers that is not empty has a least element (LeastNat), and the       *)
(* sizes of the sets for which a statement fails are such a set.           *)
(***************************************************************************)
EXTENDS Selection, Sequences, Functions, FiniteSetTheorems, TLAPS

(* A set of natural numbers that is not empty has a least element.          *)
LEMMA LeastNat ==
    ASSUME NEW T \in SUBSET Nat, T # {}
    PROVE  \E n \in T : \A m \in T : n <= m
  <1> DEFINE R == OpToRel(<, Nat)
  <1>1. IsWellFoundedOn(R, Nat)
    BY NatLessThanWellFounded
  <1>2. \A x, y \in Nat : x < y => <<x, y>> \in R
    BY Zenon DEF OpToRel
  <1> HIDE DEF R
  <1>3. PICK n \in T : \A m \in T : ~ (<<m, n>> \in R)
    BY <1>1, WFMin
  <1>4. \A m \in T : ~(m < n)
    BY <1>2, <1>3, Zenon
  <1> QED BY <1>3, <1>4

-----------------------------------------------------------------------------
(* Sums over finite sets.  The definition picks the elements in some order. *)

Pick(s) == CHOOSE x \in s : TRUE

(* g is the recursive function that computes the sums of f over the subsets *)
(* of S.                                                                    *)
Sums(g, f, S) ==
    g = [s \in SUBSET S |-> IF s = {} THEN 0 ELSE f[Pick(s)] + g[s \ {Pick(s)}]]

(* A sum is what such a function gives for the whole set.                   *)
LEMMA SumIsIter ==
    ASSUME NEW f, NEW S
    PROVE  SumFunctionOnSet(f, S) = (CHOOSE g : Sums(g, f, S))[S]
  BY DEF SumFunctionOnSet, FoldFunctionOnSet, MapThenFoldSet, Sums, Pick

(* Two such functions agree where both are defined.                         *)
LEMMA SumsAgree ==
    ASSUME NEW f, NEW S, IsFiniteSet(S), NEW T \in SUBSET S,
           NEW g, Sums(g, f, S), NEW h, Sums(h, f, T)
    PROVE  \A s \in SUBSET T : g[s] = h[s]
  <1> DEFINE Bad == {n \in Nat : \E s \in SUBSET T : Cardinality(s) = n /\ g[s] # h[s]}
  <1>1. \A s \in SUBSET T : IsFiniteSet(s) /\ Cardinality(s) \in Nat
    BY FS_Subset, FS_CardinalityType
  <1>2. SUFFICES ASSUME Bad # {} PROVE FALSE
    BY <1>1
  <1>3. PICK n \in Bad : \A m \in Bad : n <= m
    BY <1>2, LeastNat
  <1>n. n \in Nat
    BY <1>3
  <1>4. PICK s \in SUBSET T : Cardinality(s) = n /\ g[s] # h[s]
    BY <1>3
  <1>5. s # {}
    BY <1>4 DEF Sums
  <1>6. Pick(s) \in s
    BY <1>5 DEF Pick
  <1> DEFINE t == s \ {Pick(s)}
  <1>7. t \in SUBSET T /\ Cardinality(t) = n - 1 /\ n - 1 \in Nat
    <2>1. Cardinality(t) = Cardinality(s) - 1 /\ Cardinality(t) \in Nat
      BY <1>1, <1>6, FS_RemoveElement
    <2> QED BY <2>1, <1>4
  <1>8. g[t] = h[t]
    <2>1. n - 1 \notin Bad
      <3> HIDE DEF Bad
      <3> QED BY <1>n, <1>3, <1>7
    <2>2. ~ \E r \in SUBSET T : Cardinality(r) = n - 1 /\ g[r] # h[r]
      <3> HIDE DEF t
      <3> QED BY <2>1, <1>7
    <2> HIDE DEF t, Bad
    <2> QED BY <2>2, <1>7
  <1>9. g[s] = f[Pick(s)] + g[t] /\ h[s] = f[Pick(s)] + h[t]
    BY <1>5 DEF Sums
  <1> QED BY <1>4, <1>8, <1>9

(* There is such a function for every finite set.                           *)
LEMMA SumsExist ==
    ASSUME NEW f, NEW S, IsFiniteSet(S)
    PROVE  \E g : Sums(g, f, S)
  <1> DEFINE Has(s) == \E g : Sums(g, f, s)
             Bad == {n \in Nat : \E s \in SUBSET S : Cardinality(s) = n /\ ~Has(s)}
  <1>1. \A s \in SUBSET S : IsFiniteSet(s) /\ Cardinality(s) \in Nat
    BY FS_Subset, FS_CardinalityType
  <1>2. SUFFICES ASSUME Bad # {} PROVE FALSE
    BY <1>1
  <1>3. PICK n \in Bad : \A m \in Bad : n <= m
    BY <1>2, LeastNat
  <1>n. n \in Nat
    BY <1>3
  <1>4. PICK s \in SUBSET S : Cardinality(s) = n /\ ~Has(s)
    BY <1>3
  <1> DEFINE V(t) == (CHOOSE g : Sums(g, f, t))[t]
             G == [t \in SUBSET s |-> IF t = {} THEN 0 ELSE f[Pick(t)] + V(t \ {Pick(t)})]
  <1>5. ASSUME NEW t \in SUBSET s, t # s
        PROVE  IsFiniteSet(t) /\ Sums(CHOOSE g : Sums(g, f, t), f, t)
    <2>1. Cardinality(t) < n /\ Cardinality(t) \in Nat /\ IsFiniteSet(t)
      <3>1. Cardinality(t) <= Cardinality(s) /\ Cardinality(t) # Cardinality(s)
        BY <1>1, <1>5, FS_Subset
      <3> QED BY <3>1, <1>1, <1>4
    <2>2. Cardinality(t) \notin Bad
      <3> HIDE DEF Bad
      <3> QED BY <1>n, <1>3, <2>1
    <2>3. Has(t)
      <3>1. t \in SUBSET S
        OBVIOUS
      <3>2. ~ \E r \in SUBSET S : Cardinality(r) = Cardinality(t) /\ ~Has(r)
        <4> HIDE DEF Has
        <4> QED BY <2>1, <2>2
      <3> HIDE DEF Has, Bad
      <3> QED BY <3>1, <3>2
    <2> QED BY <2>1, <2>3
  <1>6. ASSUME NEW t \in SUBSET s, t # {}
        PROVE  G[t \ {Pick(t)}] = V(t \ {Pick(t)})
    <2>1. Pick(t) \in t
      BY <1>6 DEF Pick
    <2> DEFINE u == t \ {Pick(t)}
    <2>2. u \in SUBSET s /\ u # s
      BY <2>1
    <2>3. Sums(CHOOSE g : Sums(g, f, u), f, u) /\ IsFiniteSet(u)
      <3> HIDE DEF u
      <3> QED BY <2>2, <1>5
    <2>4. CASE u = {}
      <3>1. G[u] = 0
        BY <2>4, <2>2
      <3>2. V(u) = 0
        <4>1. PICK g : g = CHOOSE k : Sums(k, f, u)
          OBVIOUS
        <4>2. g[u] = 0
          <5> HIDE DEF u
          <5> QED BY <4>1, <2>3, <2>4 DEF Sums
        <4> QED BY <4>1, <4>2
      <3> QED BY <3>1, <3>2
    <2>5. CASE u # {}
      <3> DEFINE w == u \ {Pick(u)}
      <3>1. Pick(u) \in u
        BY <2>5 DEF Pick
      <3>2. w \in SUBSET u /\ w \in SUBSET s /\ w # s
        BY <2>2, <3>1
      <3>3. Sums(CHOOSE g : Sums(g, f, w), f, w)
        <4> HIDE DEF w
        <4> QED BY <3>2, <1>5
      <3>4. (CHOOSE g : Sums(g, f, u))[w] = V(w)
        <4>1. PICK g : g = CHOOSE k : Sums(k, f, u)
          OBVIOUS
        <4>2. PICK h : h = CHOOSE k : Sums(k, f, w)
          OBVIOUS
        <4>3. Sums(g, f, u) /\ Sums(h, f, w) /\ IsFiniteSet(u) /\ w \in SUBSET u
          BY <4>1, <4>2, <2>3, <3>2, <3>3
        <4>4. \A r \in SUBSET w : g[r] = h[r]
          <5> HIDE DEF u, w, V, G, Has, Bad
          <5> QED BY <4>3, SumsAgree
        <4> QED BY <4>1, <4>2, <4>4
      <3>5. V(u) = f[Pick(u)] + (CHOOSE g : Sums(g, f, u))[w]
        <4>1. PICK g : g = CHOOSE k : Sums(k, f, u)
          OBVIOUS
        <4>2. g[u] = f[Pick(u)] + g[w]
          <5> HIDE DEF u
          <5> QED BY <4>1, <2>3, <2>5 DEF Sums
        <4> QED BY <4>1, <4>2
      <3>6. G[u] = f[Pick(u)] + V(w)
        <4> HIDE DEF u, V
        <4> QED BY <2>2, <2>5
      <3> QED BY <3>4, <3>5, <3>6
    <2> QED BY <2>4, <2>5
  <1>7. Sums(G, f, s)
    <2>1. \A t \in SUBSET s : t # {} => G[t \ {Pick(t)}] = V(t \ {Pick(t)})
      BY <1>6
    <2>2. PICK H : H = G
      OBVIOUS
    <2>3. H = [t \in SUBSET s |-> IF t = {} THEN 0 ELSE f[Pick(t)] + H[t \ {Pick(t)}]]
      <3> HIDE DEF V
      <3> QED BY <2>1, <2>2
    <2> QED BY <2>2, <2>3 DEF Sums
  <1> QED BY <1>4, <1>7

(* The sum over no elements, and one step of the recursion                  *)
LEMMA SumUnfolds ==
    ASSUME NEW f, NEW S, IsFiniteSet(S)
    PROVE  SumFunctionOnSet(f, S) =
               IF S = {} THEN 0 ELSE f[Pick(S)] + SumFunctionOnSet(f, S \ {Pick(S)})
  <1> DEFINE it(s) == CHOOSE g : Sums(g, f, s)
             t == S \ {Pick(S)}
  <1>1. Sums(it(S), f, S)
    BY SumsExist
  <1>2. t \in SUBSET S /\ IsFiniteSet(t)
    BY FS_Subset
  <1>3. Sums(it(t), f, t)
    <2> HIDE DEF t
    <2> QED BY <1>2, SumsExist
  <1>4. it(S)[t] = it(t)[t]
    <2> HIDE DEF t, it
    <2> QED BY <1>1, <1>2, <1>3, SumsAgree
  <1>5. it(S)[S] = IF S = {} THEN 0 ELSE f[Pick(S)] + it(S)[t]
    <2> HIDE DEF it
    <2> QED BY <1>1 DEF Sums
  <1>6. SumFunctionOnSet(f, S) = it(S)[S] /\ SumFunctionOnSet(f, t) = it(t)[t]
    <2> HIDE DEF t
    <2> QED BY SumIsIter
  <1> HIDE DEF it
  <1> QED BY <1>4, <1>5, <1>6

(* Induction over the subsets of a finite set, for a set of good ones.      *)
LEMMA SubsetInduction ==
    ASSUME NEW S, IsFiniteSet(S), NEW Good,
           \A s \in SUBSET S : (\A t \in SUBSET s : t # s => t \in Good) => s \in Good
    PROVE  S \in Good
  <1> DEFINE Bad == {n \in Nat : \E s \in SUBSET S : Cardinality(s) = n /\ s \notin Good}
  <1>1. \A s \in SUBSET S : IsFiniteSet(s) /\ Cardinality(s) \in Nat
    BY FS_Subset, FS_CardinalityType
  <1>2. SUFFICES ASSUME Bad # {} PROVE FALSE
    BY <1>1
  <1>3. PICK n \in Bad : \A m \in Bad : n <= m
    BY <1>2, LeastNat
  <1>4. n \in Nat
    BY <1>3
  <1>5. PICK s \in SUBSET S : Cardinality(s) = n /\ s \notin Good
    BY <1>3
  <1>6. ASSUME NEW t \in SUBSET s, t # s PROVE t \in Good
    <2>1. Cardinality(t) <= Cardinality(s) /\ Cardinality(t) # Cardinality(s)
      BY <1>1, <1>6, FS_Subset
    <2>2. Cardinality(t) \in Nat /\ Cardinality(t) < n
      BY <2>1, <1>1, <1>4, <1>5
    <2>3. Cardinality(t) \notin Bad
      <3> HIDE DEF Bad
      <3> QED BY <2>2, <1>3, <1>4
    <2> QED BY <2>2, <2>3
  <1> QED BY <1>5, <1>6

(* A sum of integers is an integer, and any element may be taken first.     *)
LEMMA SumSplits ==
    ASSUME NEW f, NEW S, IsFiniteSet(S), \A x \in S : f[x] \in Int
    PROVE  /\ SumFunctionOnSet(f, S) \in Int
           /\ \A x \in S : SumFunctionOnSet(f, S) = f[x] + SumFunctionOnSet(f, S \ {x})
  <1> DEFINE Sum(s) == SumFunctionOnSet(f, s)
             Fine(s) == Sum(s) \in Int /\ \A x \in s : Sum(s) = f[x] + Sum(s \ {x})
             Good == {s \in SUBSET S : Fine(s)}
  <1>1. ASSUME NEW s \in SUBSET S, \A t \in SUBSET s : t # s => t \in Good
        PROVE  s \in Good
    <2>1. IsFiniteSet(s)
      BY FS_Subset
    <2> HIDE DEF Sum
    <2>2. ASSUME NEW t \in SUBSET s, t # s PROVE Fine(t)
      BY <1>1, <2>2
    <2>3. CASE s = {}
      <3>1. Sum(s) = 0
        BY <2>1, <2>3, SumUnfolds DEF Sum
      <3> QED BY <2>3, <3>1
    <2>4. CASE s # {}
      <3>1. PICK c \in s : Sum(s) = f[c] + Sum(s \ {c})
        <4>1. Pick(s) \in s
          BY <2>4 DEF Pick
        <4>2. Sum(s) = f[Pick(s)] + Sum(s \ {Pick(s)})
          BY <2>1, <2>4, SumUnfolds DEF Sum
        <4> QED BY <4>1, <4>2
      <3>2. \A y \in s : Sum(s \ {y}) \in Int
        <4> TAKE y \in s
        <4>1. s \ {y} \in SUBSET s /\ s \ {y} # s
          OBVIOUS
        <4> QED BY <4>1, <2>2
      <3>3. ASSUME NEW x \in s, x # c PROVE Sum(s) = f[x] + Sum(s \ {x})
        <4>1. Sum(s \ {c}) = f[x] + Sum((s \ {c}) \ {x})
          <5>1. s \ {c} \in SUBSET s /\ s \ {c} # s /\ x \in s \ {c}
            BY <3>3
          <5> QED BY <5>1, <2>2
        <4>2. Sum(s \ {x}) = f[c] + Sum((s \ {x}) \ {c})
          <5>1. s \ {x} \in SUBSET s /\ s \ {x} # s /\ c \in s \ {x}
            BY <3>3
          <5> QED BY <5>1, <2>2
        <4>3. Sum((s \ {c}) \ {x}) = Sum((s \ {x}) \ {c})
          <5>1. (s \ {c}) \ {x} = (s \ {x}) \ {c}
            OBVIOUS
          <5> QED BY <5>1, Zenon
        <4>4. Sum((s \ {x}) \ {c}) \in Int
          <5>1. (s \ {x}) \ {c} \in SUBSET s /\ (s \ {x}) \ {c} # s
            OBVIOUS
          <5> QED BY <5>1, <2>2
        <4>5. f[x] \in Int /\ f[c] \in Int
          OBVIOUS
        <4>6. PICK a, b, r \in Int : a = f[x] /\ b = f[c] /\ r = Sum((s \ {x}) \ {c})
          BY <4>4, <4>5
        <4>7. Sum(s) = b + (a + r) /\ Sum(s \ {x}) = b + r
          BY <3>1, <4>1, <4>2, <4>3, <4>6
        <4>8. b + (a + r) = a + (b + r)
          BY <4>6
        <4> HIDE DEF Good, Fine
        <4> QED BY <4>6, <4>7, <4>8
      <3>4. Sum(s) \in Int
        <4>1. f[c] \in Int
          OBVIOUS
        <4> QED BY <4>1, <3>1, <3>2
      <3> QED BY <3>1, <3>3, <3>4
    <2> QED BY <2>3, <2>4
  <1>2. S \in Good
    <2> HIDE DEF Good
    <2> QED BY <1>1, SubsetInduction
  <1> QED BY <1>2

(* Functions that agree on a set have the same sum over it.                 *)
LEMMA SumOfEqual ==
    ASSUME NEW S, IsFiniteSet(S), NEW f, NEW g,
           \A x \in S : f[x] \in Int /\ f[x] = g[x]
    PROVE  SumFunctionOnSet(f, S) = SumFunctionOnSet(g, S)
  <1> DEFINE F(s) == SumFunctionOnSet(f, s)
             G(s) == SumFunctionOnSet(g, s)
             Good == {s \in SUBSET S : F(s) = G(s)}
  <1>1. ASSUME NEW s \in SUBSET S, \A t \in SUBSET s : t # s => t \in Good
        PROVE  s \in Good
    <2>1. IsFiniteSet(s)
      BY FS_Subset
    <2>2. CASE s = {}
      BY <2>1, <2>2, SumUnfolds
    <2>3. CASE s # {}
      <3>1. PICK c \in s : TRUE
        BY <2>3
      <3>2. F(s) = f[c] + F(s \ {c}) /\ G(s) = g[c] + G(s \ {c})
        <4>1. (\A x \in s : f[x] \in Int) /\ (\A x \in s : g[x] \in Int)
          OBVIOUS
        <4>2. F(s) = f[c] + F(s \ {c})
          BY <4>1, <2>1, SumSplits
        <4>3. G(s) = g[c] + G(s \ {c})
          BY <4>1, <2>1, SumSplits
        <4> QED BY <4>2, <4>3
      <3>3. s \ {c} \in SUBSET s /\ s \ {c} # s
        OBVIOUS
      <3> HIDE DEF F, G
      <3>4. F(s \ {c}) = G(s \ {c})
        BY <3>3, <1>1
      <3> QED BY <3>2, <3>4
    <2> QED BY <2>2, <2>3
  <1>2. S \in Good
    <2> HIDE DEF Good
    <2> QED BY <1>1, SubsetInduction
  <1> QED BY <1>2

(* A sum of natural numbers is one.                                         *)
LEMMA SumOfNats ==
    ASSUME NEW S, IsFiniteSet(S), NEW f, \A x \in S : f[x] \in Nat
    PROVE  SumFunctionOnSet(f, S) \in Nat
  <1> DEFINE F(s) == SumFunctionOnSet(f, s)
             Good == {s \in SUBSET S : F(s) \in Nat}
  <1>1. ASSUME NEW s \in SUBSET S, \A t \in SUBSET s : t # s => t \in Good
        PROVE  s \in Good
    <2>1. IsFiniteSet(s)
      BY FS_Subset
    <2>2. CASE s = {}
      <3>1. F(s) = 0
        BY <2>1, <2>2, SumUnfolds
      <3> QED BY <3>1
    <2>3. CASE s # {}
      <3>1. PICK c \in s : TRUE
        BY <2>3
      <3>2. F(s) = f[c] + F(s \ {c})
        <4>1. \A x \in s : f[x] \in Int
          OBVIOUS
        <4> QED BY <4>1, <2>1, SumSplits
      <3>3. s \ {c} \in SUBSET s /\ s \ {c} # s /\ f[c] \in Nat
        OBVIOUS
      <3> HIDE DEF F
      <3>4. F(s \ {c}) \in Nat
        BY <3>3, <1>1
      <3> QED BY <3>2, <3>3, <3>4
    <2> QED BY <2>2, <2>3
  <1>2. S \in Good
    <2> HIDE DEF Good
    <2> QED BY <1>1, SubsetInduction
  <1> QED BY <1>2

(* When each of the terms of one sum goes with a term of its own of another *)
(* that is at least as large, the other sum is at least as large.           *)
LEMMA SumAtMost ==
    ASSUME NEW S, IsFiniteSet(S), NEW T, IsFiniteSet(T),
           NEW f, \A x \in S : f[x] \in Nat,
           NEW g, \A y \in T : g[y] \in Nat,
           NEW h, \A y \in T : h[y] \in S /\ g[y] <= f[h[y]],
           \A y, z \in T : y # z => h[y] # h[z]
    PROVE  SumFunctionOnSet(g, T) <= SumFunctionOnSet(f, S)
  <1> DEFINE F(s) == SumFunctionOnSet(f, s)
             G(t) == SumFunctionOnSet(g, t)
             Good == {t \in SUBSET T :
                        \A s \in SUBSET S : (\A y \in t : h[y] \in s) => G(t) <= F(s)}
  <1>1. ASSUME NEW t \in SUBSET T, \A u \in SUBSET t : u # t => u \in Good
        PROVE  t \in Good
    <2>1. IsFiniteSet(t)
      BY FS_Subset
    <2>2. SUFFICES ASSUME NEW s \in SUBSET S, \A y \in t : h[y] \in s PROVE G(t) <= F(s)
      OBVIOUS
    <2>3. IsFiniteSet(s) /\ (\A x \in s : f[x] \in Nat) /\ (\A x \in s : f[x] \in Int)
      BY FS_Subset
    <2>4. (\A y \in t : g[y] \in Nat) /\ (\A y \in t : g[y] \in Int)
      OBVIOUS
    <2>5. CASE t = {}
      <3>1. G(t) = 0
        BY <2>1, <2>5, SumUnfolds
      <3>2. F(s) \in Nat
        BY <2>3, SumOfNats
      <3> HIDE DEF F, G
      <3> QED BY <3>1, <3>2
    <2>6. CASE t # {}
      <3>1. PICK y \in t : TRUE
        BY <2>6
      <3> DEFINE u == t \ {y}
                 v == s \ {h[y]}
      <3>2. G(t) = g[y] + G(u)
        BY <2>1, <2>4, SumSplits
      <3>3. F(s) = f[h[y]] + F(v)
        BY <2>2, <2>3, SumSplits
      <3>4. G(u) \in Nat /\ F(v) \in Nat
        <4>1. IsFiniteSet(u) /\ IsFiniteSet(v)
          BY <2>1, <2>3, FS_Subset
        <4>2. (\A z \in u : g[z] \in Nat) /\ (\A z \in v : f[z] \in Nat)
          OBVIOUS
        <4> HIDE DEF u, v
        <4> QED BY <4>1, <4>2, SumOfNats
      <3>5. u \in SUBSET t /\ u # t /\ v \in SUBSET S /\ \A z \in u : h[z] \in v
        BY <2>2
      <3>6. g[y] \in Nat /\ f[h[y]] \in Nat /\ g[y] <= f[h[y]]
        OBVIOUS
      <3> HIDE DEF F, G, u, v
      <3>7. G(u) <= F(v)
        BY <3>5, <1>1
      <3> QED BY <3>2, <3>3, <3>4, <3>6, <3>7
    <2> QED BY <2>5, <2>6
  <1>2. T \in Good
    <2> HIDE DEF Good
    <2> QED BY <1>1, SubsetInduction
  <1>3. \A y \in T : h[y] \in S
    OBVIOUS
  <1> HIDE DEF F, G
  <1>4. G(T) <= F(S)
    BY <1>2, <1>3
  <1> QED BY <1>4 DEF F, G

(* It is larger when one of the terms is larger than its partner, or is     *)
(* positive and has none.                                                   *)
LEMMA SumLess ==
    ASSUME NEW S, IsFiniteSet(S), NEW T, IsFiniteSet(T),
           NEW f, \A x \in S : f[x] \in Nat \ {0},
           NEW g, \A y \in T : g[y] \in Nat,
           NEW h, \A y \in T : h[y] \in S /\ g[y] <= f[h[y]],
           \A y, z \in T : y # z => h[y] # h[z],
           \/ \E y \in T : g[y] < f[h[y]]
           \/ \E x \in S : \A y \in T : h[y] # x
    PROVE  SumFunctionOnSet(g, T) < SumFunctionOnSet(f, S)
  <1> DEFINE F(s) == SumFunctionOnSet(f, s)
             G(t) == SumFunctionOnSet(g, t)
  <1>1. (\A x \in S : f[x] \in Int /\ f[x] \in Nat) /\ (\A y \in T : g[y] \in Int)
    OBVIOUS
  <1>2. ASSUME NEW y \in T, g[y] < f[h[y]] PROVE G(T) < F(S)
    <2> DEFINE u == T \ {y}
               v == S \ {h[y]}
    <2>1. G(T) = g[y] + G(u)
      BY <1>1, SumSplits
    <2>2. F(S) = f[h[y]] + F(v)
      BY <1>1, SumSplits
    <2>3. /\ IsFiniteSet(u) /\ IsFiniteSet(v)
          /\ (\A z \in u : g[z] \in Nat) /\ (\A z \in v : f[z] \in Nat)
      BY FS_Subset
    <2>4. (\A z \in u : h[z] \in v /\ g[z] <= f[h[z]]) /\ \A z, w \in u : z # w => h[z] # h[w]
      OBVIOUS
    <2>5. g[y] \in Nat /\ f[h[y]] \in Nat
      OBVIOUS
    <2> HIDE DEF u, v
    <2>6. G(u) \in Nat /\ F(v) \in Nat
      BY <2>3, SumOfNats
    <2>7. G(u) <= F(v)
      BY <2>3, <2>4, SumAtMost
    <2> HIDE DEF F, G
    <2> QED BY <1>2, <2>1, <2>2, <2>5, <2>6, <2>7
  <1>3. ASSUME NEW x \in S, \A y \in T : h[y] # x PROVE G(T) < F(S)
    <2> DEFINE v == S \ {x}
    <2>1. F(S) = f[x] + F(v)
      BY <1>1, SumSplits
    <2>2. /\ IsFiniteSet(v) /\ \A z \in v : f[z] \in Nat
      BY FS_Subset
    <2>3. \A z \in T : h[z] \in v /\ g[z] <= f[h[z]]
      BY <1>3
    <2>4. f[x] \in Nat \ {0}
      OBVIOUS
    <2> HIDE DEF v
    <2>5. G(T) \in Nat /\ F(v) \in Nat
      BY <1>1, <2>2, SumOfNats
    <2>6. G(T) <= F(v)
      BY <2>2, <2>3, SumAtMost
    <2> HIDE DEF F, G
    <2> QED BY <2>1, <2>4, <2>5, <2>6
  <1> HIDE DEF F, G
  <1>4. G(T) < F(S)
    BY <1>2, <1>3
  <1> QED BY <1>4 DEF F, G

-----------------------------------------------------------------------------
(* Finite sets listed in an order.                                          *)

StrictOrder(R, S) ==
    /\ \A x \in S : <<x, x>> \notin R
    /\ \A x, y, z \in S : <<x, y>> \in R /\ <<y, z>> \in R => <<x, z>> \in R
    /\ \A x, y \in S : x # y => <<x, y>> \in R \/ <<y, x>> \in R

(* InOrder lists every element once, in the order.                          *)
LEMMA InOrderLists ==
    ASSUME NEW S, IsFiniteSet(S), NEW R, StrictOrder(R, S)
    PROVE  /\ Cardinality(S) \in Nat
           /\ InOrder(S, R) \in [1..Cardinality(S) -> S]
           /\ \A e \in S : \E n \in 1..Cardinality(S) : InOrder(S, R)[n] = e
           /\ \A m, n \in 1..Cardinality(S) :
                 m < n <=> <<InOrder(S, R)[m], InOrder(S, R)[n]>> \in R
  <1> DEFINE Ahead(e) == {x \in S : <<x, e>> \in R}
             f == [e \in S |-> Cardinality(Ahead(e))]
             c == Cardinality(S)
             q == InOrder(S, R)
  <1>1. c \in Nat
    BY FS_CardinalityType
  <1>2. \A e \in S : IsFiniteSet(Ahead(e)) /\ Cardinality(Ahead(e)) \in Nat
    BY FS_Subset, FS_CardinalityType
  <1>3. \A e \in S : Cardinality(Ahead(e)) < c
    <2> TAKE e \in S
    <2>1. Ahead(e) \in SUBSET S /\ Ahead(e) # S
      BY DEF StrictOrder
    <2>2. Cardinality(Ahead(e)) <= c /\ Cardinality(Ahead(e)) # c
      <3> HIDE DEF Ahead
      <3> QED BY <2>1, FS_Subset
    <2> HIDE DEF Ahead, c
    <2> QED BY <2>2, <1>1, <1>2
  <1>4. ASSUME NEW a \in S, NEW b \in S, <<a, b>> \in R
        PROVE  Cardinality(Ahead(a)) < Cardinality(Ahead(b))
    <2>1. Ahead(a) \subseteq Ahead(b) /\ a \in Ahead(b) /\ a \notin Ahead(a)
      BY <1>4 DEF StrictOrder
    <2> HIDE DEF Ahead
    <2>2. /\ Cardinality(Ahead(a)) <= Cardinality(Ahead(b))
          /\ Cardinality(Ahead(a)) # Cardinality(Ahead(b))
      BY <2>1, <1>2, FS_Subset
    <2> QED BY <2>2, <1>2
  <1>5. \A a, b \in S : Cardinality(Ahead(a)) < Cardinality(Ahead(b)) <=> <<a, b>> \in R
    <2> TAKE a, b \in S
    <2>1. CASE a = b
      <3>1. <<a, b>> \notin R
        BY <2>1 DEF StrictOrder
      <3> QED BY <3>1, <2>1, <1>2
    <2>2. CASE a # b
      <3>1. <<a, b>> \in R \/ <<b, a>> \in R
        BY <2>2 DEF StrictOrder
      <3> HIDE DEF Ahead
      <3> QED BY <3>1, <1>2, <1>4
    <2> QED BY <2>1, <2>2
  <1>6. f \in Injection(S, 0..(c - 1))
    <2> HIDE DEF Ahead, c
    <2>1. f \in [S -> 0..(c - 1)]
      BY <1>1, <1>2, <1>3
    <2>2. \A a, b \in S : f[a] = f[b] => a = b
      <3> TAKE a, b \in S
      <3>1. a # b => <<a, b>> \in R \/ <<b, a>> \in R
        BY DEF StrictOrder
      <3> QED BY <3>1, <1>2, <1>4
    <2> QED BY <2>1, <2>2 DEF Injection, IsInjective
  <1>7. IsFiniteSet(0..(c - 1)) /\ Cardinality(0..(c - 1)) = c
    <2> HIDE DEF c
    <2>1. /\ IsFiniteSet(0..(c - 1))
          /\ Cardinality(0..(c - 1)) = IF 0 > c - 1 THEN 0 ELSE (c - 1) - 0 + 1
      <3>1. 0 \in Int /\ c - 1 \in Int
        BY <1>1
      <3> QED BY <3>1, FS_Interval
    <2> QED BY <2>1, <1>1
  <1>8. f \in Surjection(S, 0..(c - 1))
    <2> HIDE DEF f
    <2> QED BY <1>6, <1>7, FS_Injection
  <1>9. \A n \in 1..c : \E e \in S : Cardinality(Ahead(e)) = n - 1
    <2> TAKE n \in 1..c
    <2>1. n - 1 \in 0..(c - 1)
      <3> HIDE DEF c
      <3> QED BY <1>1
    <2> HIDE DEF c, Ahead
    <2>2. PICK e \in S : f[e] = n - 1
      <3> HIDE DEF f
      <3> QED BY <1>8, <2>1 DEF Surjection
    <2> QED BY <2>2
  <1>10. \A n \in 1..c : q[n] \in S /\ Cardinality(Ahead(q[n])) = n - 1
    BY <1>9 DEF InOrder
  <1>11. q \in [1..c -> S]
    <2>1. q = [n \in 1..c |-> CHOOSE e \in S : Cardinality(Ahead(e)) = n - 1]
      BY DEF InOrder
    <2>2. \A n \in 1..c : (CHOOSE e \in S : Cardinality(Ahead(e)) = n - 1) \in S
      <3> HIDE DEF Ahead
      <3> QED BY <1>9
    <2> HIDE DEF q, c, Ahead
    <2> QED BY <2>1, <2>2
  <1> HIDE DEF q, c
  <1>12. \A m, n \in 1..c : m < n <=> <<q[m], q[n]>> \in R
    <2> TAKE m, n \in 1..c
    <2>1. m - 1 < n - 1 <=> <<q[m], q[n]>> \in R
      <3> HIDE DEF Ahead
      <3> QED BY <1>5, <1>10
    <2> QED BY <2>1, <1>1
  <1>13. \A e \in S : \E n \in 1..c : q[n] = e
    <2> TAKE e \in S
    <2> DEFINE n == Cardinality(Ahead(e)) + 1
    <2>1. n \in 1..c
      <3> HIDE DEF Ahead
      <3> QED BY <1>1, <1>2, <1>3
    <2>2. Cardinality(Ahead(q[n])) = Cardinality(Ahead(e)) /\ q[n] \in S
      <3>1. Cardinality(Ahead(q[n])) = n - 1 /\ q[n] \in S
        <4> HIDE DEF n, Ahead
        <4> QED BY <2>1, <1>10
      <3> HIDE DEF Ahead
      <3> QED BY <3>1, <1>2
    <2>3. f[q[n]] = f[e]
      <3> HIDE DEF Ahead, n
      <3> QED BY <2>2
    <2>4. q[n] = e
      <3> HIDE DEF f, n
      <3> QED BY <2>2, <2>3, <1>6 DEF Injection, IsInjective
    <2> HIDE DEF n
    <2> QED BY <2>1, <2>4
  <1> QED BY <1>1, <1>11, <1>12, <1>13 DEF q, c

(* There is only one such list.                                             *)
LEMMA InOrderUnique ==
    ASSUME NEW S, NEW R, StrictOrder(R, S), NEW c \in Nat, NEW q \in [1..c -> S],
           \A e \in S : \E n \in 1..c : q[n] = e,
           \A m, n \in 1..c : m < n => <<q[m], q[n]>> \in R
    PROVE  Cardinality(S) = c /\ IsFiniteSet(S) /\ InOrder(S, R) = q
  <1> DEFINE Ahead(e) == {x \in S : <<x, e>> \in R}
  <1>1. \A m, n \in 1..c : m < n <=> <<q[m], q[n]>> \in R
    <2> TAKE m, n \in 1..c
    <2>1. m = n => <<q[m], q[n]>> \notin R
      BY DEF StrictOrder
    <2>2. n < m => <<q[n], q[m]>> \in R
      OBVIOUS
    <2>3. ~(<<q[n], q[m]>> \in R /\ <<q[m], q[n]>> \in R)
      BY DEF StrictOrder
    <2> QED BY <2>1, <2>2, <2>3
  <1>2. \A m, n \in 1..c : q[m] = q[n] => m = n
    <2> TAKE m, n \in 1..c
    <2>1. q[m] = q[n] => <<q[m], q[n]>> \notin R /\ <<q[n], q[m]>> \notin R
      BY DEF StrictOrder
    <2> QED BY <2>1, <1>1
  <1>3. Cardinality(S) = c /\ IsFiniteSet(S)
    <2>1. q \in Bijection(1..c, S)
      BY <1>2 DEF Bijection, Injection, Surjection, IsInjective
    <2>2. ExistsBijection(1..c, S)
      BY <2>1 DEF ExistsBijection
    <2> QED BY <2>2, FS_CountingElements, FS_NatBijection
  <1>4. \A n \in 1..c : Cardinality(Ahead(q[n])) = n - 1
    <2> TAKE n \in 1..c
    <2> DEFINE p == [m \in 1..(n - 1) |-> q[m]]
    <2>1. p \in Bijection(1..(n - 1), Ahead(q[n]))
      <3>1. \A m \in 1..(n - 1) : m \in 1..c /\ m < n
        OBVIOUS
      <3>2. \A m \in 1..(n - 1) : q[m] \in Ahead(q[n])
        BY <3>1, <1>1
      <3>3. \A e \in Ahead(q[n]) : \E m \in 1..(n - 1) : q[m] = e
        <4> TAKE e \in Ahead(q[n])
        <4>1. PICK m \in 1..c : q[m] = e
          OBVIOUS
        <4>2. m < n
          BY <4>1, <1>1
        <4> QED BY <4>1, <4>2
      <3> HIDE DEF Ahead
      <3>4. p \in [1..(n - 1) -> Ahead(q[n])]
        BY <3>2
      <3>5. \A a, b \in 1..(n - 1) : p[a] = p[b] => a = b
        BY <3>1, <1>2
      <3>6. \A e \in Ahead(q[n]) : \E m \in 1..(n - 1) : p[m] = e
        BY <3>3
      <3> HIDE DEF p
      <3> QED BY <3>4, <3>5, <3>6 DEF Bijection, Injection, Surjection, IsInjective
    <2>2. ExistsBijection(1..(n - 1), Ahead(q[n])) /\ n - 1 \in Nat
      <3> HIDE DEF p, Ahead
      <3> QED BY <2>1 DEF ExistsBijection
    <2> HIDE DEF Ahead
    <2> QED BY <2>2, FS_CountingElements
  <1>5. \A n \in 1..c : InOrder(S, R)[n] = q[n]
    <2> TAKE n \in 1..c
    <2>1. \A e \in S : Cardinality(Ahead(e)) = n - 1 <=> e = q[n]
      <3> TAKE e \in S
      <3>1. PICK m \in 1..c : q[m] = e
        OBVIOUS
      <3>2. Cardinality(Ahead(e)) = m - 1
        <4> HIDE DEF Ahead
        <4> QED BY <3>1, <1>4
      <3> HIDE DEF Ahead
      <3> QED BY <3>1, <3>2, <1>2
    <2>2. InOrder(S, R)[n] = CHOOSE e \in S : Cardinality(Ahead(e)) = n - 1
      BY <1>3 DEF InOrder
    <2>3. q[n] \in S
      OBVIOUS
    <2> HIDE DEF Ahead
    <2> QED BY <2>1, <2>2, <2>3
  <1>6. PICK r : r = InOrder(S, R)
    OBVIOUS
  <1>7. r = [n \in 1..c |-> CHOOSE e \in S : Cardinality(Ahead(e)) = n - 1]
    BY <1>3, <1>6 DEF InOrder
  <1>8. r = q
    <2> HIDE DEF Ahead
    <2>1. DOMAIN r = 1..c /\ r = [n \in 1..c |-> r[n]]
      BY <1>7
    <2>2. \A n \in 1..c : r[n] = q[n]
      BY <1>5, <1>6
    <2> QED BY <2>1, <2>2
  <1> QED BY <1>3, <1>6, <1>8

-----------------------------------------------------------------------------
(* Numbers in ascending order, and elements kept by position.               *)

LessOn(I) == {p \in I \X I : p[1] < p[2]}

(* The numbers of a set are ordered by <, as Ascending has them.            *)
LEMMA LessIsOrder ==
    ASSUME NEW I \in SUBSET Int
    PROVE  /\ StrictOrder(LessOn(I), I)
           /\ \A i, j \in I : <<i, j>> \in LessOn(I) <=> i < j
           /\ Ascending(I) = InOrder(I, LessOn(I))
  <1>1. \A i, j \in I : <<i, j>> \in LessOn(I) <=> i < j
    BY DEF LessOn
  <1>2. StrictOrder(LessOn(I), I)
    <2>1. \A i, j, k \in I : i < j /\ j < k => i < k
      OBVIOUS
    <2>2. \A i, j \in I : i # j => i < j \/ j < i
      OBVIOUS
    <2>3. \A i \in I : ~(i < i)
      OBVIOUS
    <2> QED BY <1>1, <2>1, <2>2, <2>3 DEF StrictOrder
  <1> QED BY <1>1, <1>2 DEF Ascending, LessOn

(* Ascending lists every number once, in ascending order.                   *)
LEMMA AscendingLists ==
    ASSUME NEW I \in SUBSET Int, IsFiniteSet(I)
    PROVE  /\ Cardinality(I) \in Nat
           /\ Ascending(I) \in [1..Cardinality(I) -> I]
           /\ \A i \in I : \E n \in 1..Cardinality(I) : Ascending(I)[n] = i
           /\ \A m, n \in 1..Cardinality(I) : m < n <=> Ascending(I)[m] < Ascending(I)[n]
  <1> DEFINE R == LessOn(I)
             c == Cardinality(I)
  <1>1. PICK q : q = InOrder(I, R) /\ q = Ascending(I)
    BY LessIsOrder
  <1>2. /\ c \in Nat /\ q \in [1..c -> I]
        /\ \A e \in I : \E n \in 1..c : q[n] = e
        /\ \A m, n \in 1..c : m < n <=> <<q[m], q[n]>> \in R
    <2>1. StrictOrder(R, I)
      BY LessIsOrder
    <2> HIDE DEF R
    <2>2. /\ Cardinality(I) \in Nat
          /\ InOrder(I, R) \in [1..Cardinality(I) -> I]
          /\ \A e \in I : \E n \in 1..Cardinality(I) : InOrder(I, R)[n] = e
          /\ \A m, n \in 1..Cardinality(I) :
                m < n <=> <<InOrder(I, R)[m], InOrder(I, R)[n]>> \in R
      BY <2>1, InOrderLists
    <2> QED BY <2>2, <1>1
  <1>3. \A m, n \in 1..c : m < n <=> q[m] < q[n]
    <2> TAKE m, n \in 1..c
    <2>1. q[m] \in I /\ q[n] \in I
      BY <1>2
    <2> HIDE DEF c
    <2> QED BY <2>1, <1>2, LessIsOrder
  <1> QED BY <1>1, <1>2, <1>3

(* A list of all of them in ascending order is that one.                    *)
LEMMA AscendingUnique ==
    ASSUME NEW I \in SUBSET Int, NEW c \in Nat, NEW q \in [1..c -> I],
           \A i \in I : \E n \in 1..c : q[n] = i,
           \A m, n \in 1..c : m < n => q[m] < q[n]
    PROVE  Cardinality(I) = c /\ IsFiniteSet(I) /\ Ascending(I) = q
  <1>1. \A m, n \in 1..c : m < n => <<q[m], q[n]>> \in LessOn(I)
    BY LessIsOrder
  <1>2. StrictOrder(LessOn(I), I) /\ Ascending(I) = InOrder(I, LessOn(I))
    BY LessIsOrder
  <1> QED BY <1>1, <1>2, InOrderUnique, ZenonT(60)

(* What is kept are elements of the sequence, as many as there are          *)
(* positions.                                                               *)
LEMMA KeptElements ==
    ASSUME NEW s, NEW I \in SUBSET Int, IsFiniteSet(I)
    PROVE  /\ Cardinality(I) \in Nat /\ DOMAIN Kept(s, I) = 1..Cardinality(I)
           /\ \A n \in 1..Cardinality(I) :
                 Ascending(I)[n] \in I /\ Kept(s, I)[n] = s[Ascending(I)[n]]
  BY AscendingLists DEF Kept

(* Of what is kept at I, to keep what comes from J is to keep at J.         *)
LEMMA KeptOfKept ==
    ASSUME NEW s, NEW I \in SUBSET Int, IsFiniteSet(I), NEW J \in SUBSET I,
           NEW K \in SUBSET (1..Cardinality(I)),
           \A n \in 1..Cardinality(I) : n \in K <=> Ascending(I)[n] \in J
    PROVE  Kept(Kept(s, I), K) = Kept(s, J)
  <1> DEFINE c == Cardinality(K)
  <1>1. PICK p : p = Ascending(I)
    OBVIOUS
  <1>2. PICK k : k = Ascending(K)
    OBVIOUS
  <1>3. /\ Cardinality(I) \in Nat /\ p \in [1..Cardinality(I) -> I]
        /\ \A i \in I : \E n \in 1..Cardinality(I) : p[n] = i
        /\ \A m, n \in 1..Cardinality(I) : m < n <=> p[m] < p[n]
    BY <1>1, AscendingLists
  <1>4. IsFiniteSet(K) /\ K \in SUBSET Int
    <2>1. IsFiniteSet(1..Cardinality(I))
      <3>1. 1 \in Int /\ Cardinality(I) \in Int
        BY <1>3
      <3> QED BY <3>1, FS_Interval
    <2>2. IsFiniteSet(K)
      BY <2>1, FS_Subset
    <2> QED BY <2>2
  <1>5. /\ c \in Nat /\ k \in [1..c -> K]
        /\ \A i \in K : \E n \in 1..c : k[n] = i
        /\ \A m, n \in 1..c : m < n <=> k[m] < k[n]
    BY <1>2, <1>4, AscendingLists
  <1> HIDE DEF c
  <1> DEFINE q == [n \in 1..c |-> p[k[n]]]
  <1>6. \A n \in 1..c : k[n] \in 1..Cardinality(I) /\ p[k[n]] \in J
    BY <1>1, <1>3, <1>5
  <1>7. q \in [1..c -> J] /\ \A n \in 1..c : q[n] = p[k[n]]
    BY <1>6
  <1>8. \A j \in J : \E n \in 1..c : q[n] = j
    <2> TAKE j \in J
    <2>1. PICK m \in 1..Cardinality(I) : p[m] = j
      BY <1>3
    <2>2. m \in K
      BY <2>1, <1>1
    <2>3. PICK n \in 1..c : k[n] = m
      BY <2>2, <1>5
    <2> QED BY <2>1, <2>3, <1>7
  <1>9. \A m, n \in 1..c : m < n => q[m] < q[n]
    <2> TAKE m, n \in 1..c
    <2>1. m < n => k[m] < k[n]
      BY <1>5
    <2>2. k[m] < k[n] => p[k[m]] < p[k[n]]
      BY <1>3, <1>6
    <2> QED BY <2>1, <2>2, <1>7
  <1>10. Cardinality(J) = c /\ Ascending(J) = q
    <2>1. J \in SUBSET Int
      OBVIOUS
    <2> HIDE DEF q
    <2> QED BY <2>1, <1>5, <1>7, <1>8, <1>9, AscendingUnique
  <1>11. \A n \in 1..c : Kept(s, I)[k[n]] = s[p[k[n]]]
    BY <1>1, <1>6 DEF Kept
  <1>12. Kept(Kept(s, I), K) = [n \in 1..c |-> Kept(s, I)[k[n]]]
    BY <1>2 DEF Kept, c
  <1>13. Kept(s, J) = [n \in 1..c |-> s[q[n]]]
    <2> HIDE DEF q
    <2> QED BY <1>10 DEF Kept
  <1>14. \A n \in 1..c : s[q[n]] = s[p[k[n]]]
    BY <1>7
  <1> QED BY <1>11, <1>12, <1>13, <1>14

(* To keep everything changes nothing.                                      *)
LEMMA KeptAll ==
    ASSUME NEW X, NEW s \in Seq(X)
    PROVE  Kept(s, 1..Len(s)) = s
  <1> DEFINE c == Len(s)
             q == [n \in 1..c |-> n]
  <1>1. c \in Nat /\ DOMAIN s = 1..c /\ s = [n \in 1..c |-> s[n]]
    OBVIOUS
  <1> HIDE DEF c
  <1>2. 1..c \in SUBSET Int /\ q \in [1..c -> 1..c] /\ \A n \in 1..c : q[n] = n
    BY <1>1
  <1>3. Cardinality(1..c) = c /\ Ascending(1..c) = q
    <2>1. \A i \in 1..c : \E n \in 1..c : q[n] = i
      OBVIOUS
    <2>2. \A m, n \in 1..c : m < n => q[m] < q[n]
      OBVIOUS
    <2> HIDE DEF q
    <2> QED BY <1>1, <1>2, <2>1, <2>2, AscendingUnique
  <1>4. Kept(s, 1..c) = [n \in 1..c |-> s[q[n]]]
    <2> HIDE DEF q
    <2> QED BY <1>3 DEF Kept
  <1>5. Kept(s, 1..c) = [n \in 1..c |-> s[n]]
    BY <1>4
  <1> QED BY <1>1, <1>5 DEF c

(* The smallest number is listed first; without it, the rest moves up.      *)
LEMMA AscendingRest ==
    ASSUME NEW I \in SUBSET Int, IsFiniteSet(I), NEW m \in I, \A i \in I : m <= i
    PROVE  /\ Cardinality(I) \in Nat \ {0} /\ Ascending(I)[1] = m
           /\ Cardinality(I \ {m}) = Cardinality(I) - 1
           /\ Ascending(I \ {m}) = [n \in 1..(Cardinality(I) - 1) |-> Ascending(I)[n + 1]]
  <1> DEFINE c == Cardinality(I)
  <1>1. PICK p : p = Ascending(I)
    OBVIOUS
  <1>2. /\ c \in Nat /\ p \in [1..c -> I]
        /\ \A i \in I : \E n \in 1..c : p[n] = i
        /\ \A j, n \in 1..c : j < n <=> p[j] < p[n]
    BY <1>1, AscendingLists
  <1> HIDE DEF c
  <1>3. PICK k \in 1..c : p[k] = m
    BY <1>2
  <1>4. k = 1 /\ c # 0
    <2>1. 1 \in 1..c /\ p[1] \in I
      BY <1>2, <1>3
    <2>2. ~(p[1] < m)
      <3>1. m <= p[1] /\ p[1] \in Int /\ m \in Int
        BY <2>1
      <3> QED BY <3>1
    <2> QED BY <2>1, <2>2, <1>2, <1>3
  <1> DEFINE q == [n \in 1..(c - 1) |-> p[n + 1]]
  <1>5. \A n \in 1..(c - 1) : n + 1 \in 1..c /\ n + 1 # 1
    BY <1>2
  <1>6. \A n \in 1..(c - 1) : p[n + 1] \in I \ {m}
    <2> TAKE n \in 1..(c - 1)
    <2>1. p[1] < p[n + 1]
      BY <1>2, <1>4, <1>5
    <2> QED BY <2>1, <1>2, <1>3, <1>4, <1>5
  <1>7. q \in [1..(c - 1) -> I \ {m}] /\ \A n \in 1..(c - 1) : q[n] = p[n + 1]
    BY <1>6
  <1>8. \A i \in I \ {m} : \E n \in 1..(c - 1) : q[n] = i
    <2> TAKE i \in I \ {m}
    <2>1. PICK j \in 1..c : p[j] = i
      BY <1>2
    <2>2. j # 1
      BY <2>1, <1>3, <1>4
    <2>3. j - 1 \in 1..(c - 1) /\ (j - 1) + 1 = j
      BY <2>2, <1>2
    <2>4. q[j - 1] = i
      <3> HIDE DEF q
      <3> QED BY <2>1, <2>3, <1>7
    <2> HIDE DEF q
    <2> QED BY <2>3, <2>4
  <1>9. \A a, b \in 1..(c - 1) : a < b => q[a] < q[b]
    <2> TAKE a, b \in 1..(c - 1)
    <2>1. a < b => p[a + 1] < p[b + 1]
      BY <1>2, <1>5
    <2> QED BY <2>1, <1>7
  <1>10. Cardinality(I \ {m}) = c - 1 /\ Ascending(I \ {m}) = q
    <2>1. I \ {m} \in SUBSET Int /\ c - 1 \in Nat
      BY <1>2, <1>4
    <2> HIDE DEF q
    <2> QED BY <2>1, <1>7, <1>8, <1>9, AscendingUnique
  <1> QED BY <1>1, <1>2, <1>3, <1>4, <1>10 DEF c
=============================================================================
