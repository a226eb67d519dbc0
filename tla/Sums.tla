-------------------------------- MODULE Sums --------------------------------
(***************************************************************************)
(* Facts about sums over finite sets, and about least elements, on which   *)
(* the proofs about balances, amounts and outputs rest.                    *)
(*                                                                         *)
(* Induction is by a least counterexample: the subsets of a finite set are *)
(* well-founded, so a set of subsets that is not empty has a least member. *)
(***************************************************************************)
EXTENDS FiniteSetTheorems, TLAPS

(* A set of subsets of a finite set has a minimal member.                  *)
LEMMA MinimalSubset ==
  ASSUME NEW S, IsFiniteSet(S), NEW C \in SUBSET (SUBSET S), C # {}
  PROVE  \E T \in C : \A U \in C : U \subseteq T => U = T
<1>1. IsWellFoundedOn(StrictSubsetOrdering(S), SUBSET S)
  BY FS_StrictSubsetOrderingWellFounded, FS_FiniteSubsetsOfFinite
<1>2. PICK T \in C : \A U \in C : ~ (<<U, T>> \in StrictSubsetOrdering(S))
  BY <1>1, WFMin
<1> QED BY <1>2 DEF StrictSubsetOrdering

(* A set of natural numbers has a least one.                               *)
LEMMA LeastNumber ==
  ASSUME NEW S \in SUBSET Nat, S # {}
  PROVE  \E n \in S : \A m \in S : n <= m
<1>1. PICK b \in S : TRUE
  OBVIOUS
<1> DEFINE Below(n) == {m \in S : m <= n}
           R == Below(b)
           C == {T \in SUBSET R : \E n \in R : T = Below(n)}
<1>2. IsFiniteSet(R)
  <2>1. R \in SUBSET Nat /\ b \in Nat /\ \A m \in R : m <= b
    OBVIOUS
  <2> QED BY <2>1, FS_BoundedSetOfNaturals
<1>3. ASSUME NEW n \in R, NEW m \in S, m <= n
      PROVE  m \in R /\ Below(m) \subseteq Below(n)
  <2>1. b \in Nat /\ n \in Nat /\ m \in Nat /\ n <= b /\ S \subseteq Nat
    OBVIOUS
  <2>2. m <= n
    BY <1>3
  <2>3. m <= b
    BY <2>1, <2>2
  <2>4. \A k \in Nat : k <= m => k <= n
    BY <2>1, <2>2
  <2> QED BY <2>1, <2>3, <2>4
<1>4. ASSUME NEW n \in R
      PROVE  n \in S /\ n \in Nat /\ n \in Below(n) /\ Below(n) \subseteq R
  <2>1. n \in S /\ n \in Nat /\ n <= n
    OBVIOUS
  <2>2. \A m \in Below(n) : m \in S /\ m <= n
    OBVIOUS
  <2> QED BY <1>3, <2>1, <2>2
<1>5. b \in R
  OBVIOUS
<1> HIDE DEF R
<1>6. C \in SUBSET (SUBSET R) /\ C # {}
  BY <1>4, <1>5
<1> HIDE DEF Below
<1>7. PICK T \in C : \A U \in C : U \subseteq T => U = T
  <2> HIDE DEF C
  <2> QED BY <1>2, <1>6, MinimalSubset
<1>8. PICK n \in R : T = Below(n)
  BY <1>7
<1>9. ASSUME NEW m \in S, m < n
      PROVE  FALSE
  <2>0. m \in Nat /\ n \in Nat
    BY <1>4
  <2>1. m \in R /\ Below(m) \subseteq Below(n)
    BY <1>3, <1>9, <2>0
  <2>2. Below(m) \in C
    BY <1>4, <2>1
  <2>3. Below(m) = Below(n)
    BY <1>7, <1>8, <2>1, <2>2
  <2>4. n \notin Below(m)
    BY <1>9, <2>0 DEF Below
  <2> QED BY <1>4, <2>3, <2>4
<1> QED BY <1>4, <1>9

-----------------------------------------------------------------------------
(* The recursion of SumFunctionOnSet *)

Pick(s) == CHOOSE x \in s : TRUE

(* The value at s of a function g that sums f.                             *)
Unfolded(f, g, s) == IF s = {} THEN 0 ELSE f[Pick(s)] + g[s \ {Pick(s)}]

Sums(f, g, S) == g \in [SUBSET S -> Int] /\ \A s \in SUBSET S : g[s] = Unfolded(f, g, s)

LEMMA PickMember == \A s : s # {} => Pick(s) \in s
  BY DEF Pick

(* A function that sums f over the subsets of a finite set exists: over    *)
(* the subsets of up to n elements, for every n.                           *)
LEMMA SumExists ==
  ASSUME NEW S, IsFiniteSet(S), NEW f, \A x \in S : f[x] \in Int
  PROVE  \E g : Sums(f, g, S)
<1> DEFINE Small(n) == {s \in SUBSET S : Cardinality(s) <= n}
           Upto(g, n) == g \in [Small(n) -> Int] /\ \A s \in Small(n) : g[s] = Unfolded(f, g, s)
           Bad == {n \in Nat : ~ \E g : Upto(g, n)}
<1>1. \A s \in SUBSET S : IsFiniteSet(s) /\ Cardinality(s) \in Nat
  BY FS_Subset, FS_CardinalityType
<1>2. \A s \in SUBSET S : s # {} =>
          /\ s \ {Pick(s)} \in SUBSET S /\ f[Pick(s)] \in Int
          /\ Cardinality(s \ {Pick(s)}) = Cardinality(s) - 1
  BY <1>1, PickMember, FS_RemoveElement
<1> HIDE DEF Upto
<1>3. ASSUME NEW n \in Bad, \A m \in Bad : n <= m
      PROVE  FALSE
  <2>1. CASE n = 0
    <3>1. Small(0) = {{}}
      BY <1>1, FS_EmptySet
    <3>2. Upto([s \in Small(0) |-> 0], 0)
      BY <3>1 DEF Unfolded, Upto
    <3> QED BY <1>3, <2>1, <3>2
  <2>2. CASE n # 0
    <3>1. n - 1 \in Nat /\ n - 1 \notin Bad
      BY <1>3, <2>2
    <3>2. PICK g : Upto(g, n - 1)
      BY <3>1
    <3> DEFINE h == [s \in Small(n) |-> Unfolded(f, g, s)]
    <3>3. \A s \in Small(n) : s # {} => s \ {Pick(s)} \in Small(n - 1)
      BY <1>1, <1>2
    <3>4. \A s \in Small(n - 1) : s \in Small(n) /\ h[s] = g[s]
      BY <1>1, <3>2 DEF Upto
    <3>5. \A s \in Small(n) : Unfolded(f, h, s) = Unfolded(f, g, s)
      BY <3>3, <3>4 DEF Unfolded
    <3>6. h \in [Small(n) -> Int]
      BY <1>2, <3>2, <3>3 DEF Unfolded, Upto
    <3>7. Upto(h, n)
      BY <3>5, <3>6 DEF Upto
    <3> QED BY <1>3, <3>7
  <2> QED BY <2>1, <2>2
<1>4. Bad = {}
  BY <1>3, LeastNumber
<1>5. PICK g : Upto(g, Cardinality(S))
  BY <1>1, <1>4
<1>6. Small(Cardinality(S)) = SUBSET S
  BY <1>1, FS_Subset
<1> QED BY <1>5, <1>6 DEF Sums, Upto

(* There is one such function only.                                        *)
LEMMA SumUnique ==
  ASSUME NEW S, IsFiniteSet(S), NEW f, NEW g, Sums(f, g, S), NEW h, Sums(f, h, S)
  PROVE  \A s \in SUBSET S : g[s] = h[s]
<1> DEFINE Bad == {s \in SUBSET S : g[s] # h[s]}
<1>1. ASSUME NEW s \in Bad, \A u \in Bad : u \subseteq s => u = s
      PROVE  FALSE
  <2>1. s # {}
    BY DEF Sums, Unfolded
  <2>2. s \ {Pick(s)} \notin Bad
    BY <1>1, <2>1, PickMember
  <2> QED BY <2>1, <2>2 DEF Sums, Unfolded
<1>2. Bad \in SUBSET (SUBSET S)
  OBVIOUS
<1> HIDE DEF Bad
<1>3. Bad = {}
  BY <1>1, <1>2, MinimalSubset
<1> QED BY <1>3 DEF Bad

LEMMA SumIsSum ==
  ASSUME NEW S, IsFiniteSet(S), NEW f, NEW g, Sums(f, g, S)
  PROVE  SumFunctionOnSet(f, S) = g[S]
<1> DEFINE iter == CHOOSE h : h = [s \in SUBSET S |-> Unfolded(f, h, s)]
<1>1. SumFunctionOnSet(f, S) = iter[S]
  BY DEF SumFunctionOnSet, FoldFunctionOnSet, MapThenFoldSet, Unfolded, Pick
<1>2. g = [s \in SUBSET S |-> Unfolded(f, g, s)]
  BY DEF Sums
<1>3. iter = [s \in SUBSET S |-> Unfolded(f, iter, s)]
  BY <1>2
<1> HIDE DEF iter
<1> DEFINE Bad == {s \in SUBSET S : g[s] # iter[s]}
<1>4. ASSUME NEW s \in Bad, \A u \in Bad : u \subseteq s => u = s
      PROVE  FALSE
  <2>1. g[s] = Unfolded(f, g, s) /\ iter[s] = Unfolded(f, iter, s)
    BY <1>3 DEF Sums
  <2>2. s # {}
    BY <2>1 DEF Unfolded
  <2>3. s \ {Pick(s)} \notin Bad
    BY <1>4, <2>2, PickMember
  <2> QED BY <2>1, <2>2, <2>3 DEF Unfolded
<1>5. Bad \in SUBSET (SUBSET S)
  OBVIOUS
<1> HIDE DEF Bad
<1>6. Bad = {}
  BY <1>4, <1>5, MinimalSubset
<1> QED BY <1>1, <1>6 DEF Bad

-----------------------------------------------------------------------------
(* What the sums are *)

(* The sum over a part of S is the value of the function for S.            *)
LEMMA SumOfPart ==
  ASSUME NEW S, IsFiniteSet(S), NEW f, NEW g, Sums(f, g, S), NEW T \in SUBSET S
  PROVE  SumFunctionOnSet(f, T) = g[T]
<1> DEFINE h == [s \in SUBSET T |-> g[s]]
<1>1. IsFiniteSet(T)
  BY FS_Subset
<1>2. \A s \in SUBSET T : s \in SUBSET S /\ s \ {Pick(s)} \in SUBSET T
  OBVIOUS
<1>3. Sums(f, h, T)
  BY <1>2 DEF Sums, Unfolded
<1>4. SumFunctionOnSet(f, T) = h[T]
  BY <1>1, <1>3, SumIsSum
<1> QED BY <1>4

(* A sum is an integer, 0 for no element, and any element may be taken out *)
(* of it.                                                                  *)
LEMMA SumFacts ==
  ASSUME NEW S, IsFiniteSet(S), NEW f, \A x \in S : f[x] \in Int
  PROVE  /\ SumFunctionOnSet(f, S) \in Int
         /\ SumFunctionOnSet(f, {}) = 0
         /\ \A x \in S : SumFunctionOnSet(f, S) = f[x] + SumFunctionOnSet(f, S \ {x})
<1>1. PICK g : Sums(f, g, S)
  BY SumExists
<1>2. \A T \in SUBSET S : SumFunctionOnSet(f, T) = g[T] /\ g[T] \in Int
  <2> SUFFICES ASSUME NEW T \in SUBSET S
               PROVE  SumFunctionOnSet(f, T) = g[T] /\ g[T] \in Int
    OBVIOUS
  <2>1. SumFunctionOnSet(f, T) = g[T]
    BY <1>1, SumOfPart
  <2>2. g[T] \in Int
    BY <1>1 DEF Sums
  <2> QED BY <2>1, <2>2
<1>3. g[{}] = 0
  BY <1>1 DEF Sums, Unfolded
<1>4. \A T \in SUBSET S : T # {} => g[T] = f[Pick(T)] + g[T \ {Pick(T)}] /\ Pick(T) \in T
  BY <1>1, PickMember DEF Sums, Unfolded
<1> DEFINE Bad == {T \in SUBSET S : \E x \in T : g[T] # f[x] + g[T \ {x}]}
<1>5. ASSUME NEW T \in Bad, \A U \in Bad : U \subseteq T => U = T
      PROVE  FALSE
  <2>1. PICK x \in T : g[T] # f[x] + g[T \ {x}]
    OBVIOUS
  <2> DEFINE c == Pick(T)
  <2>2. c \in T /\ g[T] = f[c] + g[T \ {c}] /\ c # x
    BY <1>4, <2>1
  <2> HIDE DEF c
  <2>3. T \ {c} \notin Bad /\ T \ {x} \notin Bad
    BY <1>5, <2>1, <2>2
  <2>4. g[T \ {c}] = f[x] + g[(T \ {c}) \ {x}] /\ g[T \ {x}] = f[c] + g[(T \ {x}) \ {c}]
    BY <2>1, <2>2, <2>3
  <2>5. (T \ {c}) \ {x} = (T \ {x}) \ {c}
    OBVIOUS
  <2>6. f[x] \in Int /\ f[c] \in Int /\ g[(T \ {x}) \ {c}] \in Int
    BY <1>2, <2>1, <2>2
  <2> DEFINE r == g[(T \ {x}) \ {c}]
             a == f[x]
             b == f[c]
  <2>7. g[T] # a + g[T \ {x}] /\ g[T] = b + g[T \ {c}] /\ g[T \ {c}] = a + r /\ g[T \ {x}] = b + r
    BY <2>1, <2>2, <2>4, <2>5
  <2>8. a \in Int /\ b \in Int /\ r \in Int
    BY <2>6
  <2> HIDE DEF a, b, r, Bad
  <2>9. a + (b + r) = b + (a + r)
    BY <2>8
  <2> QED BY <2>7, <2>9
<1>6. Bad \in SUBSET (SUBSET S)
  OBVIOUS
<1>7. Bad = {}
  <2> HIDE DEF Bad
  <2> QED BY <1>5, <1>6, MinimalSubset
<1>8. \A x \in S : g[S] = f[x] + g[S \ {x}]
  BY <1>7
<1> QED BY <1>2, <1>3, <1>8

(* An element more.                                                        *)
LEMMA SumAdd ==
  ASSUME NEW S, IsFiniteSet(S), NEW f, \A y \in S : f[y] \in Int,
         NEW x, x \notin S, f[x] \in Int
  PROVE  SumFunctionOnSet(f, S \cup {x}) = SumFunctionOnSet(f, S) + f[x]
<1>1. IsFiniteSet(S \cup {x}) /\ (S \cup {x}) \ {x} = S
  BY FS_AddElement
<1>2. SumFunctionOnSet(f, S \cup {x}) = f[x] + SumFunctionOnSet(f, (S \cup {x}) \ {x})
  BY <1>1, SumFacts
<1> QED BY <1>1, <1>2, SumFacts

(* The sum depends on the values in the set only.                          *)
LEMMA SumSame ==
  ASSUME NEW S, IsFiniteSet(S), NEW f, NEW g, \A x \in S : f[x] \in Int /\ g[x] = f[x]
  PROVE  SumFunctionOnSet(g, S) = SumFunctionOnSet(f, S)
<1>1. PICK h : Sums(f, h, S)
  BY SumExists
<1>2. \A s \in SUBSET S : s # {} => Pick(s) \in S
  BY PickMember
<1>3. Sums(g, h, S)
  BY <1>1, <1>2 DEF Sums, Unfolded
<1> QED BY <1>1, <1>3, SumIsSum

(* A sum of natural numbers is one.                                        *)
LEMMA SumNat ==
  ASSUME NEW S, IsFiniteSet(S), NEW f, \A x \in S : f[x] \in Nat
  PROVE  SumFunctionOnSet(f, S) \in Nat
<1>1. PICK g : Sums(f, g, S)
  BY SumExists
<1>2. \A T \in SUBSET S : g[T] \in Int /\ (T # {} => g[T] = f[Pick(T)] + g[T \ {Pick(T)}] /\ Pick(T) \in T)
  BY <1>1, PickMember DEF Sums, Unfolded
<1>3. g[{}] = 0
  BY <1>1 DEF Sums, Unfolded
<1> DEFINE Bad == {T \in SUBSET S : g[T] \notin Nat}
<1>4. ASSUME NEW T \in Bad, \A U \in Bad : U \subseteq T => U = T
      PROVE  FALSE
  <2>1. T # {}
    BY <1>3
  <2>2. T \ {Pick(T)} \notin Bad
    BY <1>2, <1>4, <2>1
  <2> DEFINE c == Pick(T)
  <2>3. g[T \ {c}] \in Nat /\ c \in S /\ g[T] = f[c] + g[T \ {c}] /\ g[T] \notin Nat
    BY <1>2, <2>1, <2>2
  <2>4. f[c] \in Nat
    BY <2>3
  <2> QED BY <2>3, <2>4
<1>5. Bad \in SUBSET (SUBSET S)
  OBVIOUS
<1>6. Bad = {}
  <2> HIDE DEF Bad
  <2> QED BY <1>4, <1>5, MinimalSubset
<1> QED BY <1>1, <1>6, SumIsSum

(* A part of natural numbers sums to no more than the whole.               *)
LEMMA SumPart ==
  ASSUME NEW S, IsFiniteSet(S), NEW f, \A x \in S : f[x] \in Nat, NEW T \in SUBSET S
  PROVE  SumFunctionOnSet(f, T) <= SumFunctionOnSet(f, S)
<1> DEFINE sum(U) == SumFunctionOnSet(f, U)
           Bad == {U \in SUBSET S : T \subseteq U /\ ~(sum(T) <= sum(U))}
<1>1. ASSUME NEW U \in SUBSET S
      PROVE  sum(U) \in Int /\ \A x \in U : sum(U) = f[x] + sum(U \ {x})
  <2>1. IsFiniteSet(U) /\ \A x \in U : f[x] \in Int
    BY FS_Subset
  <2> QED BY <2>1, SumFacts
<1> HIDE DEF sum
<1>2. ASSUME NEW U \in Bad, \A W \in Bad : W \subseteq U => W = U
      PROVE  FALSE
  <2>1. U \in SUBSET S /\ T \subseteq U /\ ~(sum(T) <= sum(U))
    OBVIOUS
  <2>2. sum(T) \in Int /\ sum(U) \in Int
    BY <1>1, <2>1
  <2>3. PICK x \in U : x \notin T
    BY <2>1, <2>2
  <2>4. U \ {x} \in SUBSET S /\ T \subseteq U \ {x} /\ U \ {x} \notin Bad
    BY <1>2, <2>1, <2>3
  <2>5. sum(T) <= sum(U \ {x})
    BY <2>4
  <2>6. sum(U) = f[x] + sum(U \ {x}) /\ sum(U \ {x}) \in Int /\ f[x] \in Nat
    BY <1>1, <2>1, <2>3, <2>4
  <2> HIDE DEF Bad
  <2> QED BY <2>1, <2>2, <2>5, <2>6
<1>3. Bad \in SUBSET (SUBSET S)
  OBVIOUS
<1>4. Bad = {}
  <2> HIDE DEF Bad
  <2> QED BY <1>2, <1>3, MinimalSubset
<1> QED BY <1>4 DEF sum
=============================================================================
