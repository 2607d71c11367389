----------------------------- MODULE FoldFacts -----------------------------
(***************************************************************************)
(* Facts about the sums of SumFunctionOnSet and about sorting.  A sum over *)
(* a finite set exists, whatever order CHOOSE takes the elements in, and   *)
(* does not depend on that order; sums over disjoint sets add up.  A finite*)
(* set in a strict order can be sorted, and the result lists all of it.    *)
(* The inductions are over a set of numbers or of subsets, by the minimum  *)
(* of a well-founded relation.                                             *)
(***************************************************************************)
EXTENDS Integers, FiniteSets, Functions, FiniteSetTheorems, WellFoundedInduction, TLAPS

(* Induction over the natural numbers, for a set.                          *)
LEMMA NatSetInduction ==
  ASSUME NEW A \in SUBSET Nat, 0 \in A, \A n \in A : n + 1 \in A
  PROVE  A = Nat
<1> DEFINE Below == {ss \in Nat \X Nat : ss[1] < ss[2]}
<1>1. IsWellFoundedOn(Below, Nat)
  BY NatLessThanWellFounded, Zenon DEF OpToRel
<1>2. SUFFICES ASSUME Nat \ A # {} PROVE FALSE
  OBVIOUS
<1>3. Nat \ A \in SUBSET Nat
  OBVIOUS
<1>4. PICK x \in Nat \ A : \A y \in Nat \ A : ~ (<<y, x>> \in Below)
  <2> HIDE DEF Below
  <2> QED
    BY <1>1, <1>2, <1>3, WFMin
<1>5. x - 1 \in Nat /\ x - 1 < x
  BY <1>4
<1>6. <<x - 1, x>> \in Below
  BY <1>4, <1>5
<1>7. x - 1 \in A
  BY <1>4, <1>5, <1>6
<1> QED
  BY <1>4, <1>5, <1>7

(* Induction over the subsets of a finite set, for a set of them.          *)
LEMMA SubsetInduction ==
  ASSUME NEW S, IsFiniteSet(S), NEW A \in SUBSET SUBSET S,
         {} \in A, \A T \in A : \A x \in S \ T : T \cup {x} \in A
  PROVE  A = SUBSET S
<1> DEFINE N == {n \in Nat : \A T \in SUBSET S : Cardinality(T) = n => T \in A}
<1>1. \A T \in SUBSET S : IsFiniteSet(T) /\ Cardinality(T) \in Nat
  BY FS_Subset, FS_CardinalityType
<1>2. 0 \in N
  BY <1>1, FS_EmptySet
<1>3. ASSUME NEW n \in N PROVE n + 1 \in N
  <2>1. SUFFICES ASSUME NEW T \in SUBSET S, Cardinality(T) = n + 1 PROVE T \in A
    OBVIOUS
  <2>2. T # {}
    <3>1. n + 1 # 0
      BY <1>3
    <3> QED
      BY <2>1, <3>1, FS_EmptySet
  <2>3. PICK x \in T : TRUE
    BY <2>2
  <2>4. Cardinality(T \ {x}) = n
    BY <1>1, <1>3, <2>1, <2>3, FS_RemoveElement
  <2>5. T \ {x} \in A
    BY <1>3, <2>4
  <2>6. (T \ {x}) \cup {x} = T /\ x \in S \ (T \ {x})
    BY <2>3
  <2> QED
    BY <2>5, <2>6
<1>4. N = Nat
  <2>1. N \in SUBSET Nat
    OBVIOUS
  <2> HIDE DEF N
  <2> QED
    BY <1>2, <1>3, <2>1, NatSetInduction
<1> QED
  BY <1>1, <1>4

-----------------------------------------------------------------------------
(* Sums: SumFunctionOnSet does not depend on the order in which it chooses.*)

Summing(f, h, t) ==
  h[t] = IF t = {} THEN 0 ELSE f[CHOOSE x \in t : TRUE] + h[t \ {CHOOSE x \in t : TRUE}]

(* h gives every part of S the sum of f over it.                           *)
SumsOn(f, h, S) ==
  /\ h \in [SUBSET S -> Int] /\ \A x \in S : f[x] \in Int
  /\ \A t \in SUBSET S : Summing(f, h, t)

LEMMA SumIsFold ==
  ASSUME NEW S, IsFiniteSet(S), NEW f, \A x \in S : f[x] \in Int
  PROVE  \E h : SumsOn(f, h, S) /\ SumFunctionOnSet(f, S) = h[S]
<1> DEFINE c(t) == CHOOSE x \in t : TRUE
           Next(h) == [t \in SUBSET S |-> IF t = {} THEN 0 ELSE f[c(t)] + h[t \ {c(t)}]]
           N == {n \in Nat : \E h \in [SUBSET S -> Int] :
                   \A t \in SUBSET S : Cardinality(t) <= n => Summing(f, h, t)}
<1>1. \A t \in SUBSET S : t # {} => c(t) \in t
  OBVIOUS
<1>2. \A t \in SUBSET S : IsFiniteSet(t) /\ Cardinality(t) \in Nat
  BY FS_Subset, FS_CardinalityType
<1>3. 0 \in N
  <2> DEFINE zero == [t \in SUBSET S |-> 0]
  <2>1. zero \in [SUBSET S -> Int]
    OBVIOUS
  <2>2. \A t \in SUBSET S : Cardinality(t) <= 0 => Summing(f, zero, t)
    BY <1>2, FS_EmptySet DEF Summing
  <2> QED
    BY <2>1, <2>2
<1>4. ASSUME NEW n \in N PROVE n + 1 \in N
  <2>1. PICK h \in [SUBSET S -> Int] :
          \A t \in SUBSET S : Cardinality(t) <= n => Summing(f, h, t)
    BY <1>4
  <2>2. Next(h) \in [SUBSET S -> Int]
    BY <1>1, <2>1
  <2>3. ASSUME NEW t \in SUBSET S, Cardinality(t) <= n PROVE Next(h)[t] = h[t]
    BY <2>1, <2>3 DEF Summing
  <2>4. ASSUME NEW t \in SUBSET S, Cardinality(t) <= n + 1, t # {}
        PROVE  Cardinality(t \ {c(t)}) <= n
    <3>1. Cardinality(t \ {c(t)}) = Cardinality(t) - 1
      BY <1>1, <1>2, <2>4, FS_RemoveElement
    <3> QED
      BY <1>2, <1>4, <2>4, <3>1
  <2>5. ASSUME NEW t \in SUBSET S, Cardinality(t) <= n + 1 PROVE Summing(f, Next(h), t)
    <3>1. t # {} => Next(h)[t \ {c(t)}] = h[t \ {c(t)}]
      BY <2>3, <2>4, <2>5
    <3> QED
      BY <3>1 DEF Summing
  <2>6. n + 1 \in Nat
    BY <1>4
  <2> QED
    BY <2>2, <2>5, <2>6
<1>5. N = Nat
  <2>1. N \in SUBSET Nat
    OBVIOUS
  <2> HIDE DEF N
  <2> QED
    BY <1>3, <1>4, <2>1, NatSetInduction
<1>6. PICK h \in [SUBSET S -> Int] :
        \A t \in SUBSET S : Cardinality(t) <= Cardinality(S) => Summing(f, h, t)
  BY <1>2, <1>5
<1>7. \A t \in SUBSET S : Summing(f, h, t)
  BY <1>6, FS_Subset
<1>8. h = Next(h)
  <2>1. \A t \in SUBSET S : h[t] = Next(h)[t]
    BY <1>7 DEF Summing
  <2> QED
    BY <1>6, <2>1
<1> DEFINE k == CHOOSE g : g = Next(g)
<1>9. k = Next(k)
  BY <1>8
<1>10. SumFunctionOnSet(f, S) = k[S]
  BY DEF SumFunctionOnSet, FoldFunctionOnSet, MapThenFoldSet
<1>11. \A t \in SUBSET S : Summing(f, k, t)
  BY <1>9 DEF Summing
<1> HIDE DEF k
<1>12. k \in [SUBSET S -> Int]
  <2> DEFINE M == {n \in Nat : \A t \in SUBSET S : Cardinality(t) <= n => k[t] \in Int}
  <2>0. \A t \in SUBSET S : t = {} => k[t] = 0
    BY <1>11 DEF Summing
  <2>1. 0 \in M
    <3>1. \A t \in SUBSET S : Cardinality(t) <= 0 => t = {}
      BY <1>2, FS_EmptySet
    <3> QED
      BY <2>0, <3>1
  <2>2. ASSUME NEW n \in M PROVE n + 1 \in M
    <3>0. n + 1 \in Nat
      BY <2>2
    <3>1. SUFFICES ASSUME NEW t \in SUBSET S, Cardinality(t) <= n + 1, t # {} PROVE k[t] \in Int
      <4>1. \A t \in SUBSET S : Cardinality(t) <= n + 1 => k[t] \in Int
        BY <2>0, <3>1
      <4> QED
        BY <3>0, <4>1
    <3>2. Cardinality(t \ {c(t)}) = Cardinality(t) - 1 /\ t \ {c(t)} \in SUBSET S
      BY <1>1, <1>2, <3>1, FS_RemoveElement
    <3>3. k[t \ {c(t)}] \in Int
      BY <1>2, <2>2, <3>1, <3>2
    <3>4. k[t] = f[c(t)] + k[t \ {c(t)}]
      BY <1>11, <3>1 DEF Summing
    <3> QED
      BY <1>1, <3>1, <3>3, <3>4
  <2>3. M = Nat
    <3>1. M \in SUBSET Nat
      OBVIOUS
    <3> HIDE DEF M
    <3> QED
      BY <2>1, <2>2, <3>1, NatSetInduction
  <2>4. \A t \in SUBSET S : k[t] \in Int
    BY <1>2, <2>3
  <2> QED
    BY <1>9, <2>4
<1>13. SumsOn(f, k, S)
  BY <1>11, <1>12 DEF SumsOn
<1> QED
  BY <1>10, <1>13

(* What two such functions give to a set they both know is the same.       *)
LEMMA SummingIsUnique ==
  ASSUME NEW S, IsFiniteSet(S), NEW f, NEW h, NEW g,
         \A t \in SUBSET S : Summing(f, h, t) /\ Summing(f, g, t)
  PROVE  h[S] = g[S]
<1> DEFINE c(t) == CHOOSE x \in t : TRUE
           N == {n \in Nat : \A t \in SUBSET S : Cardinality(t) <= n => h[t] = g[t]}
<1>1. \A t \in SUBSET S : IsFiniteSet(t) /\ Cardinality(t) \in Nat
  BY FS_Subset, FS_CardinalityType
<1>2. \A t \in SUBSET S : t = {} => h[t] = g[t]
  BY DEF Summing
<1>3. 0 \in N
  <2>1. \A t \in SUBSET S : Cardinality(t) <= 0 => t = {}
    BY <1>1, FS_EmptySet
  <2> QED
    BY <1>2, <2>1
<1>4. ASSUME NEW n \in N PROVE n + 1 \in N
  <2>1. n + 1 \in Nat
    BY <1>4
  <2>2. ASSUME NEW t \in SUBSET S, Cardinality(t) <= n + 1, t # {} PROVE h[t] = g[t]
    <3>1. c(t) \in t
      BY <2>2
    <3>2. Cardinality(t \ {c(t)}) = Cardinality(t) - 1 /\ t \ {c(t)} \in SUBSET S
      BY <1>1, <3>1, FS_RemoveElement
    <3>3. h[t \ {c(t)}] = g[t \ {c(t)}]
      BY <1>1, <1>4, <2>2, <3>2
    <3> QED
      BY <2>2, <3>3 DEF Summing
  <2>3. \A t \in SUBSET S : Cardinality(t) <= n + 1 => h[t] = g[t]
    BY <1>2, <2>2
  <2> QED
    BY <2>1, <2>3
<1>5. N = Nat
  <2>1. N \in SUBSET Nat
    OBVIOUS
  <2> HIDE DEF N
  <2> QED
    BY <1>3, <1>4, <2>1, NatSetInduction
<1> QED
  BY <1>1, <1>5

(* It may start with any element.                                          *)
LEMMA SummingFromAny ==
  ASSUME NEW S, IsFiniteSet(S), NEW f, NEW h, SumsOn(f, h, S), NEW x \in S
  PROVE  h[S] = f[x] + h[S \ {x}]
<1> DEFINE c(t) == CHOOSE y \in t : TRUE
           Free(t) == \A y \in t : h[t] = f[y] + h[t \ {y}]
           N == {n \in Nat : \A t \in SUBSET S : Cardinality(t) <= n => Free(t)}
<1>0. /\ h \in [SUBSET S -> Int] /\ \A y \in S : f[y] \in Int
      /\ \A t \in SUBSET S : Summing(f, h, t)
  BY DEF SumsOn
<1>1. \A t \in SUBSET S : IsFiniteSet(t) /\ Cardinality(t) \in Nat
  BY FS_Subset, FS_CardinalityType
<1>2. 0 \in N
  <2>1. \A t \in SUBSET S : Cardinality(t) <= 0 => t = {}
    BY <1>1, FS_EmptySet
  <2>2. Free({})
    OBVIOUS
  <2> QED
    BY <2>1, <2>2
<1>3. ASSUME NEW n \in N PROVE n + 1 \in N
  <2>1. n + 1 \in Nat
    BY <1>3
  <2>2. ASSUME NEW t \in SUBSET S, Cardinality(t) <= n + 1, NEW y \in t, y # c(t)
        PROVE  h[t] = f[y] + h[t \ {y}]
    <3>1. c(t) \in t
      BY <2>2
    <3>2. Cardinality(t \ {c(t)}) <= n /\ t \ {c(t)} \in SUBSET S
      <4>1. Cardinality(t \ {c(t)}) = Cardinality(t) - 1
        BY <1>1, <3>1, FS_RemoveElement
      <4> QED
        BY <1>1, <1>3, <2>2, <4>1
    <3>3. Cardinality(t \ {y}) <= n /\ t \ {y} \in SUBSET S
      <4>1. Cardinality(t \ {y}) = Cardinality(t) - 1
        BY <1>1, <2>2, FS_RemoveElement
      <4> QED
        BY <1>1, <1>3, <2>2, <4>1
    <3>4. h[t] = f[c(t)] + h[t \ {c(t)}]
      BY <1>0, <2>2 DEF Summing
    <3>5. h[t \ {c(t)}] = f[y] + h[(t \ {c(t)}) \ {y}]
      BY <1>3, <2>2, <3>2
    <3>6. h[t \ {y}] = f[c(t)] + h[(t \ {y}) \ {c(t)}]
      BY <1>3, <2>2, <3>1, <3>3
    <3>7. (t \ {c(t)}) \ {y} = (t \ {y}) \ {c(t)}
      OBVIOUS
    <3>8. /\ f[c(t)] \in Int /\ f[y] \in Int
          /\ h[t \ {y}] \in Int /\ h[(t \ {y}) \ {c(t)}] \in Int
      BY <1>0, <3>1, <2>2
    <3>9. h[t \ {c(t)}] = f[y] + h[(t \ {y}) \ {c(t)}]
      BY <3>5, <3>7, Zenon
    <3>10. \A a, b, r \in Int : a + (b + r) = b + (a + r)
      OBVIOUS
    <3>11. h[t] = f[c(t)] + (f[y] + h[(t \ {y}) \ {c(t)}])
      BY <3>4, <3>9, Zenon
    <3>12. f[y] + h[t \ {y}] = f[y] + (f[c(t)] + h[(t \ {y}) \ {c(t)}])
      BY <3>6, Zenon
    <3> QED
      BY <3>8, <3>10, <3>11, <3>12, Zenon
  <2>3. ASSUME NEW t \in SUBSET S, t # {} PROVE h[t] = f[c(t)] + h[t \ {c(t)}]
    BY <1>0, <2>3 DEF Summing
  <2>4. ASSUME NEW t \in SUBSET S, Cardinality(t) <= n + 1 PROVE Free(t)
    <3>1. SUFFICES ASSUME NEW y \in t PROVE h[t] = f[y] + h[t \ {y}]
      OBVIOUS
    <3>2. CASE y = c(t)
      BY <2>3, <3>2
    <3>3. CASE y # c(t)
      BY <2>2, <2>4, <3>3
    <3> QED
      BY <3>2, <3>3
  <2> QED
    BY <2>1, <2>4
<1>4. N = Nat
  <2>1. N \in SUBSET Nat
    OBVIOUS
  <2> HIDE DEF N
  <2> QED
    BY <1>2, <1>3, <2>1, NatSetInduction
<1>5. Free(S)
  BY <1>1, <1>4
<1> QED
  BY <1>5

(* The sum of nothing, of one element more, and its type.                  *)
LEMMA SumEmpty == ASSUME NEW f PROVE SumFunctionOnSet(f, {}) = 0
<1>1. IsFiniteSet({})
  BY FS_EmptySet
<1>2. PICK h : SumsOn(f, h, {}) /\ SumFunctionOnSet(f, {}) = h[{}]
  BY <1>1, SumIsFold
<1> QED
  BY <1>2 DEF Summing, SumsOn

(* Only the summands matter.                                               *)
LEMMA SumAgrees ==
  ASSUME NEW S, IsFiniteSet(S), NEW f, NEW g, \A x \in S : f[x] \in Int /\ g[x] = f[x]
  PROVE  SumFunctionOnSet(g, S) = SumFunctionOnSet(f, S)
<1>1. PICK h : SumsOn(f, h, S) /\ SumFunctionOnSet(f, S) = h[S]
  BY SumIsFold
<1>2. PICK e : SumsOn(g, e, S) /\ SumFunctionOnSet(g, S) = e[S]
  <2>1. \A x \in S : g[x] \in Int
    OBVIOUS
  <2> QED
    BY <2>1, SumIsFold
<1>3. \A t \in SUBSET S : Summing(f, h, t) /\ Summing(f, e, t)
  BY <1>1, <1>2 DEF SumsOn, Summing
<1>4. h[S] = e[S]
  BY <1>3, SummingIsUnique
<1> QED
  BY <1>1, <1>2, <1>4

LEMMA SumRemove ==
  ASSUME NEW S, IsFiniteSet(S), NEW f, \A x \in S : f[x] \in Int, NEW x \in S
  PROVE  /\ SumFunctionOnSet(f, S) = f[x] + SumFunctionOnSet(f, S \ {x})
         /\ SumFunctionOnSet(f, S) \in Int
<1> DEFINE T == S \ {x}
<1>1. PICK h : SumsOn(f, h, S) /\ SumFunctionOnSet(f, S) = h[S]
  BY SumIsFold
<1>2. IsFiniteSet(T) /\ T \in SUBSET S /\ \A y \in T : f[y] \in Int
  BY FS_Subset
<1>3. PICK g : SumsOn(f, g, T) /\ SumFunctionOnSet(f, T) = g[T]
  <2> HIDE DEF T
  <2> QED
    BY <1>2, SumIsFold
<1>4. h[T] = g[T]
  <2>1. \A t \in SUBSET T : Summing(f, h, t) /\ Summing(f, g, t)
    BY <1>1, <1>3 DEF SumsOn
  <2> HIDE DEF T
  <2> QED
    BY <1>2, <2>1, SummingIsUnique
<1>5. h[S] = f[x] + h[S \ {x}]
  BY <1>1, SummingFromAny
<1>6. h[S] \in Int
  BY <1>1 DEF SumsOn
<1> QED
  BY <1>1, <1>3, <1>4, <1>5, <1>6, Zenon

LEMMA SumType ==
  ASSUME NEW S, IsFiniteSet(S), NEW f, \A x \in S : f[x] \in Int
  PROVE  SumFunctionOnSet(f, S) \in Int
<1>1. PICK h : SumsOn(f, h, S) /\ SumFunctionOnSet(f, S) = h[S]
  BY SumIsFold
<1> QED
  BY <1>1 DEF SumsOn

LEMMA SumAdd ==
  ASSUME NEW S, IsFiniteSet(S), NEW f, NEW x, x \notin S, \A y \in S \cup {x} : f[y] \in Int
  PROVE  /\ SumFunctionOnSet(f, S \cup {x}) = f[x] + SumFunctionOnSet(f, S)
         /\ SumFunctionOnSet(f, S) \in Int
<1> DEFINE T == S \cup {x}
<1>1. IsFiniteSet(T) /\ x \in T /\ T \ {x} = S
  BY FS_AddElement
<1>2. SumFunctionOnSet(f, T) = f[x] + SumFunctionOnSet(f, T \ {x})
  <2>1. \A y \in T : f[y] \in Int
    OBVIOUS
  <2> HIDE DEF T
  <2> QED
    BY <1>1, <2>1, SumRemove
<1>3. PICK h : SumsOn(f, h, S) /\ SumFunctionOnSet(f, S) = h[S]
  BY SumIsFold
<1>4. SumFunctionOnSet(f, S) \in Int
  BY <1>3 DEF SumsOn
<1> QED
  BY <1>1, <1>2, <1>4, Zenon

(* A sum over the images of P, whose terms are those of a and a multiple   *)
(* of the sizes of disjoint sets, is the sum of a and that multiple of the *)
(* size of their union.                                                    *)
LEMMA SumOfParts ==
  ASSUME NEW P, IsFiniteSet(P),
         NEW F, \A p, q \in P : F[p] = F[q] => p = q,
         NEW W, \A p \in P : IsFiniteSet(W[p]),
         \A p, q \in P : p # q => W[p] \cap W[q] = {},
         NEW d \in Int, NEW a, \A p \in P : a[p] \in Int,
         NEW f, \A p \in P : f[F[p]] = a[p] + Cardinality(W[p]) * d
  PROVE  SumFunctionOnSet(f, {F[p] : p \in P})
           = SumFunctionOnSet(a, P) + d * Cardinality(UNION {W[p] : p \in P})
<1> DEFINE Img(T) == {F[p] : p \in T}
           All(T) == UNION {W[p] : p \in T}
           Fine(T) == /\ SumFunctionOnSet(f, Img(T)) = SumFunctionOnSet(a, T) + d * Cardinality(All(T))
                      /\ SumFunctionOnSet(a, T) \in Int
                      /\ IsFiniteSet(All(T)) /\ IsFiniteSet(Img(T))
           A == {T \in SUBSET P : Fine(T)}
<1>1. {} \in A
  <2>1. Img({}) = {} /\ All({}) = {}
    OBVIOUS
  <2>2. SumFunctionOnSet(f, Img({})) = 0 /\ SumFunctionOnSet(a, {}) = 0
    BY <2>1, SumEmpty
  <2>3. Cardinality(All({})) = 0 /\ IsFiniteSet(All({})) /\ IsFiniteSet(Img({}))
    BY <2>1, FS_EmptySet
  <2> HIDE DEF Img, All
  <2> QED
    BY <2>2, <2>3
<1>2. ASSUME NEW T \in A, NEW x \in P \ T PROVE T \cup {x} \in A
  <2>1. T \in SUBSET P /\ Fine(T)
    OBVIOUS
  <2>2. Img(T \cup {x}) = Img(T) \cup {F[x]} /\ F[x] \notin Img(T)
    BY <2>1
  <2>3. All(T \cup {x}) = All(T) \cup W[x] /\ All(T) \cap W[x] = {}
    BY <2>1
  <2>4. /\ IsFiniteSet(All(T \cup {x}))
        /\ Cardinality(All(T \cup {x})) = Cardinality(All(T)) + Cardinality(W[x])
    <3>1. IsFiniteSet(All(T)) /\ IsFiniteSet(W[x])
      BY <2>1
    <3>2. Cardinality(All(T) \cap W[x]) = 0 /\ Cardinality(All(T)) \in Nat /\ Cardinality(W[x]) \in Nat
      BY <2>3, <3>1, FS_EmptySet, FS_CardinalityType
    <3>3. /\ IsFiniteSet(All(T) \cup W[x])
          /\ Cardinality(All(T) \cup W[x])
               = Cardinality(All(T)) + Cardinality(W[x]) - Cardinality(All(T) \cap W[x])
      <4> HIDE DEF All
      <4> QED
        BY <3>1, FS_Union
    <3> HIDE DEF All
    <3>4. Cardinality(All(T) \cup W[x]) = Cardinality(All(T)) + Cardinality(W[x])
      BY <3>2, <3>3
    <3> QED
      BY <2>3, <3>3, <3>4, Zenon
  <2>5. /\ IsFiniteSet(Img(T \cup {x}))
        /\ SumFunctionOnSet(f, Img(T \cup {x})) = f[F[x]] + SumFunctionOnSet(f, Img(T))
        /\ SumFunctionOnSet(f, Img(T)) \in Int
    <3>1. IsFiniteSet(Img(T))
      BY <2>1
    <3>2. \A y \in Img(T) \cup {F[x]} : f[y] \in Int
      <4>1. \A p \in P : f[F[p]] \in Int
        BY FS_CardinalityType
      <4>2. \A y \in Img(T) \cup {F[x]} : \E p \in P : y = F[p]
        BY <2>1
      <4> QED
        BY <4>1, <4>2
    <3>3. IsFiniteSet(Img(T) \cup {F[x]})
      BY <3>1, FS_AddElement
    <3> HIDE DEF Img
    <3> QED
      BY <2>2, <3>1, <3>2, <3>3, SumAdd
  <2>6. SumFunctionOnSet(a, T \cup {x}) = a[x] + SumFunctionOnSet(a, T)
    <3>1. IsFiniteSet(T) /\ \A y \in T \cup {x} : a[y] \in Int
      BY <2>1, FS_Subset
    <3> QED
      BY <3>1, SumAdd
  <2>7. SumFunctionOnSet(f, Img(T)) = SumFunctionOnSet(a, T) + d * Cardinality(All(T))
    BY <2>1
  <2>8. f[F[x]] = a[x] + Cardinality(W[x]) * d
    OBVIOUS
  <2>9. /\ SumFunctionOnSet(a, T) \in Int /\ a[x] \in Int
        /\ Cardinality(All(T)) \in Nat /\ Cardinality(W[x]) \in Nat
    <3>1. SumFunctionOnSet(a, T) \in Int
      BY <2>1
    <3>2. IsFiniteSet(All(T)) /\ IsFiniteSet(W[x])
      BY <2>1
    <3> QED
      BY <3>1, <3>2, FS_CardinalityType
  <2>10. \A i, j \in Int, m, n \in Nat :
           (i + n * d) + (j + d * m) = (i + j) + d * (m + n)
    OBVIOUS
  <2>11. SumFunctionOnSet(f, Img(T \cup {x}))
           = SumFunctionOnSet(a, T \cup {x}) + d * Cardinality(All(T \cup {x}))
    <3> HIDE DEF Img, All
    <3>1. SumFunctionOnSet(f, Img(T \cup {x}))
            = (a[x] + Cardinality(W[x]) * d) + (SumFunctionOnSet(a, T) + d * Cardinality(All(T)))
      BY <2>5, <2>7, <2>8, Zenon
    <3>2. @ = (a[x] + SumFunctionOnSet(a, T)) + d * (Cardinality(All(T)) + Cardinality(W[x]))
      BY <2>9, <2>10
    <3> QED
      BY <2>4, <2>6, <3>1, <3>2, Zenon
  <2>12. SumFunctionOnSet(a, T \cup {x}) \in Int
    BY <2>6, <2>9
  <2> HIDE DEF Img, All
  <2> QED
    BY <2>1, <2>4, <2>5, <2>11, <2>12
<1>3. A = SUBSET P
  <2>1. A \in SUBSET SUBSET P
    OBVIOUS
  <2> HIDE DEF A
  <2> QED
    BY <1>1, <1>2, <2>1, SubsetInduction
<1> QED
  BY <1>3

-----------------------------------------------------------------------------
(* Sorting: a strict order of a finite set puts it in a row.               *)

StrictOrder(S, R) ==
  /\ \A x \in S : <<x, x>> \notin R
  /\ \A x, y \in S : x # y => <<x, y>> \in R \/ <<y, x>> \in R
  /\ \A x, y, z \in S : <<x, y>> \in R /\ <<y, z>> \in R => <<x, z>> \in R

InOrder(S, R, s) ==
  /\ s \in [1..Cardinality(S) -> S]
  /\ \A i, j \in 1..Cardinality(S) : i < j => <<s[i], s[j]>> \in R

(* An element's place is one more than the number of those before it.      *)
LEMMA SortExists ==
  ASSUME NEW S, IsFiniteSet(S), NEW R, StrictOrder(S, R)
  PROVE  \E s : InOrder(S, R, s)
<1> DEFINE n == Cardinality(S)
           Prior(x) == {y \in S : <<y, x>> \in R}
           rank == [x \in S |-> Cardinality(Prior(x)) + 1]
<1>0. /\ \A x \in S : <<x, x>> \notin R
      /\ \A x, y \in S : x # y => <<x, y>> \in R \/ <<y, x>> \in R
      /\ \A x, y, z \in S : <<x, y>> \in R /\ <<y, z>> \in R => <<x, z>> \in R
  BY DEF StrictOrder
<1>1. n \in Nat
  BY FS_CardinalityType
<1>2. ASSUME NEW x \in S
      PROVE  IsFiniteSet(Prior(x)) /\ Cardinality(Prior(x)) \in Nat /\ Cardinality(Prior(x)) < n
  <2>1. Prior(x) \in SUBSET S /\ Prior(x) # S
    BY <1>0
  <2> HIDE DEF Prior
  <2>2. IsFiniteSet(Prior(x)) /\ Cardinality(Prior(x)) <= n /\ (n = Cardinality(Prior(x)) => S = Prior(x))
    BY <2>1, FS_Subset
  <2>3. Cardinality(Prior(x)) \in Nat
    BY <2>2, FS_CardinalityType
  <2> QED
    BY <1>1, <2>1, <2>2, <2>3
<1>3. rank \in [S -> 1..n]
  <2>1. ASSUME NEW x \in S PROVE Cardinality(Prior(x)) + 1 \in 1..n
    <3> HIDE DEF Prior
    <3> QED
      BY <1>1, <1>2
  <2> HIDE DEF Prior
  <2> QED
    BY <2>1
<1>4. ASSUME NEW x \in S, NEW y \in S, <<x, y>> \in R PROVE rank[x] < rank[y]
  <2>1. Prior(x) \in SUBSET Prior(y) /\ Prior(x) # Prior(y)
    BY <1>0, <1>4
  <2>2. Cardinality(Prior(x)) <= Cardinality(Prior(y)) /\ Cardinality(Prior(x)) # Cardinality(Prior(y))
    <3>1. IsFiniteSet(Prior(y))
      BY <1>2
    <3> HIDE DEF Prior
    <3> QED
      BY <2>1, <3>1, FS_Subset
  <2>3. rank[x] = Cardinality(Prior(x)) + 1 /\ rank[y] = Cardinality(Prior(y)) + 1
    OBVIOUS
  <2>4. Cardinality(Prior(x)) \in Nat /\ Cardinality(Prior(y)) \in Nat
    BY <1>2
  <2> HIDE DEF Prior, rank
  <2> QED
    BY <2>2, <2>3, <2>4
<1> HIDE DEF rank
<1>5. ASSUME NEW x \in S, NEW y \in S, rank[x] = rank[y] PROVE x = y
  <2>1. ~ (rank[x] < rank[y]) /\ ~ (rank[y] < rank[x])
    BY <1>1, <1>3, <1>5
  <2> QED
    BY <1>0, <1>4, <2>1
<1>6. ASSUME NEW i \in 1..n PROVE \E x \in S : rank[x] = i
  <2>1. rank \in Injection(S, 1..n)
    BY <1>3, <1>5 DEF Injection, IsInjective
  <2>2. IsFiniteSet(1..n) /\ Cardinality(1..n) = n
    BY <1>1, FS_Interval
  <2>3. rank \in Surjection(S, 1..n)
    BY <2>1, <2>2, FS_Injection
  <2> QED
    BY <2>3 DEF Surjection
<1> DEFINE s == [i \in 1..n |-> CHOOSE x \in S : rank[x] = i]
<1>7. \A i \in 1..n : s[i] \in S /\ rank[s[i]] = i
  BY <1>6
<1>8. ASSUME NEW i \in 1..n, NEW j \in 1..n, i < j PROVE <<s[i], s[j]>> \in R
  <2>1. rank[s[i]] = i /\ rank[s[j]] = j /\ s[i] \in S /\ s[j] \in S
    BY <1>7
  <2>2. s[i] # s[j]
    BY <1>8, <2>1
  <2>3. <<s[j], s[i]>> \notin R
    <3>1. ~ (j < i)
      BY <1>1, <1>8
    <3> HIDE DEF s
    <3> QED
      BY <1>4, <2>1, <3>1
  <2> HIDE DEF s
  <2> QED
    BY <1>0, <2>1, <2>2, <2>3
<1>9. s \in [1..n -> S]
  BY <1>7
<1>10. InOrder(S, R, s)
  <2> HIDE DEF s
  <2> QED
    BY <1>8, <1>9 DEF InOrder
<1> QED
  BY <1>10

(* Nothing is in it twice, and nothing is left out.                        *)
LEMMA SortIsComplete ==
  ASSUME NEW S, IsFiniteSet(S), NEW R, StrictOrder(S, R), NEW s, InOrder(S, R, s)
  PROVE  /\ \A i, j \in 1..Cardinality(S) : s[i] = s[j] => i = j
         /\ \A x \in S : \E i \in 1..Cardinality(S) : s[i] = x
<1> DEFINE n == Cardinality(S)
<1>1. n \in Nat
  BY FS_CardinalityType
<1>2. ASSUME NEW i \in 1..n, NEW j \in 1..n, s[i] = s[j] PROVE i = j
  <2>1. ~ (i < j) /\ ~ (j < i)
    BY <1>2 DEF InOrder, StrictOrder
  <2> QED
    BY <1>1, <2>1
<1>3. s \in Injection(1..n, S)
  BY <1>2 DEF Injection, IsInjective, InOrder
<1>4. IsFiniteSet(1..n) /\ Cardinality(1..n) = n
  BY <1>1, FS_Interval
<1>5. s \in Surjection(1..n, S)
  BY <1>3, <1>4, FS_Injection
<1> QED
  BY <1>2, <1>5 DEF Surjection
=============================================================================
