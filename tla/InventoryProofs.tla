--------------------------- MODULE InventoryProofs --------------------------
(***************************************************************************)
(* For any orders, resources and capacity of the node: the inventory only  *)
(* accepts more than the node has for workloads while one that is marked   *)
(* allocated was not counted in full by the last check.                    *)
(***************************************************************************)
EXTENDS Inventory, FiniteSetTheorems, TLAPS

-----------------------------------------------------------------------------
(* Induction *)

\* A set of natural numbers has a least element.
LEMMA LeastNat ==
    ASSUME NEW T, T \subseteq Nat, T # {}
    PROVE  \E n \in T : \A m \in T : n <= m
<1> DEFINE R == {ss \in Nat \X Nat : ss[1] < ss[2]}
<1>1. IsWellFoundedOn(R, Nat)
  BY NatLessThanWellFounded DEF OpToRel
<1>2. \A m, n \in Nat : m < n => <<m, n>> \in R
  OBVIOUS
<1> HIDE DEF R
<1>3. PICK x \in T : \A y \in T : ~(<<y, x>> \in R)
  BY <1>1, WFMin, Zenon
<1>4. ASSUME NEW y \in T PROVE x <= y
  <2>1. x \in Nat /\ y \in Nat /\ ~(y < x)
    BY <1>2, <1>3, Zenon
  <2> QED BY <2>1
<1> QED BY <1>3, <1>4

\* What holds of 0, and of k + 1 if it holds of k < n, holds up to n.
LEMMA UpTo ==
    ASSUME NEW n \in Nat, NEW S, 0 \in S, \A k \in 0 .. n : k < n /\ k \in S => k + 1 \in S
    PROVE  \A k \in 0 .. n : k \in S
<1> DEFINE T == {k \in 0 .. n : k \notin S}
<1> SUFFICES ASSUME T # {} PROVE FALSE
  OBVIOUS
<1>0. T \subseteq Nat
  OBVIOUS
<1>1. PICK k \in T : \A m \in T : k <= m
  <2> HIDE DEF T
  <2> QED BY <1>0, LeastNat, Zenon
<1>2. k \in 1 .. n /\ k - 1 \in 0 .. n /\ k - 1 < n
  BY <1>1
<1>3. k - 1 \in S
  BY <1>1, <1>2
<1> QED BY <1>1, <1>2, <1>3

-----------------------------------------------------------------------------
(* Sums over finite sets, as in ChainProofs *)

\* No member of B is a proper subset of s.
IsMinimal(s, B) == \A t \in B : t \subseteq s => t = s

\* Of the subsets of a finite set, some one is minimal.
LEMMA MinimalSubset ==
    ASSUME NEW S, IsFiniteSet(S), NEW B \in SUBSET SUBSET S, B # {}
    PROVE  \E s \in B : IsMinimal(s, B)
<1> DEFINE T == {Cardinality(s) : s \in B}
<1>1. \A s \in B : IsFiniteSet(s) /\ Cardinality(s) \in Nat
  BY FS_Subset, FS_CardinalityType, Zenon
<1>2. PICK n \in T : \A m \in T : n <= m
  <2>1. T \subseteq Nat /\ T # {}
    BY <1>1, Zenon
  <2> HIDE DEF T
  <2> QED BY <2>1, LeastNat, Zenon
<1>3. PICK s \in B : Cardinality(s) = n
  BY <1>2, Zenon
<1>4. ASSUME NEW t \in B, t \subseteq s, t # s PROVE FALSE
  <2>1. Cardinality(t) < Cardinality(s)
    BY <1>1, <1>4, FS_Subset
  <2>2. n <= Cardinality(t) /\ n \in Nat /\ Cardinality(t) \in Nat
    BY <1>1, <1>2, <1>3, Zenon
  <2> QED BY <1>3, <2>1, <2>2
<1> QED BY <1>3, <1>4, Zenon DEF IsMinimal

\* The element of s that a sum over s takes first, and what it then adds up.
First(s) == CHOOSE x \in s : TRUE
Others(s) == s \ {First(s)}
Adds(f, h, s) == IF s = {} THEN 0 ELSE f[First(s)] + h[Others(s)]
IsSum(f, h, S) == h = [s \in SUBSET S |-> Adds(f, h, s)]

\* A sum takes some element and leaves fewer.
LEMMA FirstFacts ==
    ASSUME NEW s, s # {}
    PROVE  First(s) \in s /\ Others(s) \subseteq s /\ Others(s) # s
BY DEF First, Others

\* The sum as the library defines it: the solution of the recursion, at S.
LEMMA SumUnfolds ==
    ASSUME NEW f, NEW S
    PROVE  SumFunctionOnSet(f, S) = (CHOOSE h : IsSum(f, h, S))[S]
BY Zenon DEF SumFunctionOnSet, FoldFunctionOnSet, MapThenFoldSet, IsSum, Adds, First, Others

\* The recursion has one solution.
LEMMA SumUnique ==
    ASSUME NEW f, NEW S, IsFiniteSet(S), NEW h, IsSum(f, h, S), NEW k, IsSum(f, k, S)
    PROVE  h = k
<1> DEFINE B == {s \in SUBSET S : h[s] # k[s]}
<1>1. ASSUME NEW s \in SUBSET S
      PROVE  h[s] = Adds(f, h, s) /\ k[s] = Adds(f, k, s)
  BY Zenon DEF IsSum
<1>2. B = {}
  <2> SUFFICES ASSUME B # {} PROVE FALSE
    BY Zenon
  <2>0. PICK s \in B : IsMinimal(s, B)
    <3>1. B \in SUBSET SUBSET S
      BY Zenon
    <3> HIDE DEF B
    <3> QED BY <3>1, MinimalSubset, Zenon
  <2>1. \A t \in B : t \subseteq s => t = s
    BY <2>0, Zenon DEF IsMinimal
  <2>2. s # {}
    BY <1>1, Zenon DEF Adds
  <2>3. Others(s) \in SUBSET S /\ Others(s) \notin B
    BY <2>1, <2>2, FirstFacts, Zenon
  <2> QED BY <1>1, <2>3, Zenon DEF Adds
<1>3. \A s \in SUBSET S : h[s] = k[s]
  BY <1>2, Zenon
<1>4. h = [s \in SUBSET S |-> h[s]] /\ k = [s \in SUBSET S |-> k[s]]
  BY Zenon DEF IsSum
<1> QED BY <1>3, <1>4, Zenon

\* The sum over a finite set, one element at a time.
LEMMA SumRecursion ==
    ASSUME NEW f, NEW S, IsFiniteSet(S)
    PROVE  SumFunctionOnSet(f, S) =
              IF S = {} THEN 0 ELSE f[First(S)] + SumFunctionOnSet(f, Others(S))
<1> DEFINE V(s) == SumFunctionOnSet(f, s)
           Upto(s) == [t \in SUBSET s |-> V(t)]
           B == {s \in SUBSET S : ~IsSum(f, Upto(s), s)}
<1> HIDE DEF V
<1>1. ASSUME NEW s, IsSum(f, Upto(s), s)
      PROVE  V(s) = IF s = {} THEN 0 ELSE f[First(s)] + V(Others(s))
  <2>1. s \in SUBSET s /\ (s # {} => Others(s) \in SUBSET s)
    BY FirstFacts, Zenon
  <2>2. Upto(s)[s] = Adds(f, Upto(s), s)
    BY <1>1, <2>1, Zenon DEF IsSum
  <2>3. Upto(s)[s] = V(s) /\ (s # {} => Upto(s)[Others(s)] = V(Others(s)))
    BY <2>1, Zenon
  <2> QED BY <2>2, <2>3, Zenon DEF Adds
<1>2. B = {}
  <2> SUFFICES ASSUME B # {} PROVE FALSE
    BY Zenon
  <2>0. PICK s \in B : IsMinimal(s, B)
    <3>1. B \in SUBSET SUBSET S
      BY Zenon
    <3> HIDE DEF B
    <3> QED BY <3>1, MinimalSubset, Zenon
  <2>1. \A t \in B : t \subseteq s => t = s
    BY <2>0, Zenon DEF IsMinimal
  <2>2. ASSUME NEW t \in SUBSET s, t # s
        PROVE  V(t) = IF t = {} THEN 0 ELSE f[First(t)] + V(Others(t))
    <3>1. IsSum(f, Upto(t), t)
      BY <2>1, <2>2, Zenon
    <3> QED BY <1>1, <3>1, Zenon
  <2> DEFINE g == [t \in SUBSET s |-> IF t = s THEN (IF s = {} THEN 0 ELSE f[First(s)] + V(Others(s))) ELSE V(t)]
  <2>3. ASSUME NEW t \in SUBSET s PROVE g[t] = Adds(f, g, t)
    <3>1. t # {} => Others(t) \in SUBSET s /\ Others(t) # s
      BY FirstFacts, Zenon
    <3>2. t # {} => g[Others(t)] = V(Others(t))
      BY <3>1, Zenon
    <3>3. g[t] = IF t = {} THEN 0 ELSE f[First(t)] + V(Others(t))
      BY <2>2, Zenon
    <3> HIDE DEF g
    <3> QED BY <3>2, <3>3, Zenon DEF Adds
  <2>4. IsSum(f, g, s)
    <3>1. g = [t \in SUBSET s |-> g[t]]
      BY Zenon
    <3> HIDE DEF g
    <3> QED BY <2>3, <3>1, Zenon DEF IsSum
  <2> HIDE DEF g
  <2>5. IsFiniteSet(s)
    BY <2>1, FS_Subset, Zenon
  <2>6. (CHOOSE h : IsSum(f, h, s)) = g
    <3>1. IsSum(f, CHOOSE h : IsSum(f, h, s), s)
      BY <2>4, Zenon
    <3> QED BY <2>4, <2>5, <3>1, SumUnique, Zenon
  <2>7. V(s) = g[s]
    BY <2>6, SumUnfolds, Zenon DEF V
  <2>8. g = Upto(s)
    <3>1. \A t \in SUBSET s : g[t] = V(t)
      BY <2>7, Zenon DEF g
    <3>2. g = [t \in SUBSET s |-> g[t]]
      BY Zenon DEF g
    <3> QED BY <3>1, <3>2, Zenon
  <2> QED BY <2>1, <2>4, <2>8, Zenon
<1>3. IsSum(f, Upto(S), S)
  BY <1>2, Zenon
<1> QED BY <1>1, <1>3, Zenon DEF V

\* f gives a number to each of finitely many elements.
Addable(f, S) == IsFiniteSet(S) /\ \A x \in S : f[x] \in Nat

\* A sum may take any element first.
LEMMA SumTakes ==
    ASSUME NEW f, NEW S, Addable(f, S)
    PROVE  /\ SumFunctionOnSet(f, S) \in Nat
           /\ \A x \in S : SumFunctionOnSet(f, S) = f[x] + SumFunctionOnSet(f, S \ {x})
<1> SUFFICES ASSUME IsFiniteSet(S), \A x \in S : f[x] \in Nat
             PROVE  /\ SumFunctionOnSet(f, S) \in Nat
                    /\ \A x \in S : SumFunctionOnSet(f, S) = f[x] + SumFunctionOnSet(f, S \ {x})
  BY Zenon DEF Addable
<1> DEFINE V(s) == SumFunctionOnSet(f, s)
           Good(s) == V(s) \in Nat /\ \A x \in s : V(s) = f[x] + V(s \ {x})
           B == {s \in SUBSET S : ~Good(s)}
<1>1. ASSUME NEW s \in SUBSET S
      PROVE  V(s) = IF s = {} THEN 0 ELSE f[First(s)] + V(Others(s))
  BY FS_Subset, SumRecursion, Zenon
<1> HIDE DEF V
<1>2. B = {}
  <2> SUFFICES ASSUME B # {} PROVE FALSE
    BY Zenon
  <2>0. PICK s \in B : IsMinimal(s, B)
    <3>1. B \in SUBSET SUBSET S
      BY Zenon
    <3> HIDE DEF B
    <3> QED BY <3>1, MinimalSubset, Zenon
  <2>1. \A t \in B : t \subseteq s => t = s
    BY <2>0, Zenon DEF IsMinimal
  <2>2. \A t \in SUBSET s : t # s => Good(t)
    BY <2>1, Zenon
  <2>3. CASE s = {}
    <3>1. V(s) = 0
      BY <1>1, <2>3, Zenon
    <3> QED BY <2>1, <2>3, <3>1
  <2>4. CASE s # {}
    <3>1. PICK c \in s : c = First(s) /\ s \ {c} = Others(s) /\ s \ {c} # s
      BY <2>4, FirstFacts, Zenon DEF Others
    <3>2. V(s) = f[c] + V(s \ {c})
      BY <1>1, <2>4, <3>1, Zenon
    <3>3. Good(s \ {c}) /\ f[c] \in Nat
      BY <2>2, <3>1, Zenon
    <3>4. V(s) \in Nat
      BY <3>2, <3>3
    <3>5. ASSUME NEW x \in s, x # c PROVE V(s) = f[x] + V(s \ {x})
      <4>1. V(s \ {c}) = f[x] + V((s \ {c}) \ {x})
        BY <3>3, <3>5, Zenon
      <4>2. V(s \ {x}) = f[c] + V((s \ {x}) \ {c})
        BY <2>2, <3>5, Zenon
      <4>3. (s \ {x}) \ {c} = (s \ {c}) \ {x}
        OBVIOUS
      <4>4. V((s \ {c}) \ {x}) \in Nat /\ f[x] \in Nat /\ f[c] \in Nat
        BY <2>2, <3>1, <3>5
      <4> QED BY <3>2, <4>1, <4>2, <4>3, <4>4, SMTT(30)
    <3> QED BY <2>1, <3>2, <3>4, <3>5, Zenon
  <2> QED BY <2>3, <2>4
<1>3. Good(S)
  BY <1>2, Zenon
<1> QED BY <1>3, Zenon DEF V

\* The sum over two sets that have nothing in common.
LEMMA SumUnion ==
    ASSUME NEW f, NEW S, Addable(f, S), NEW X \in SUBSET S, NEW Y \in SUBSET S, X \cap Y = {}
    PROVE  SumFunctionOnSet(f, X \cup Y) = SumFunctionOnSet(f, X) + SumFunctionOnSet(f, Y)
<1> DEFINE V(s) == SumFunctionOnSet(f, s)
           B == {s \in SUBSET X : V(s \cup Y) # V(s) + V(Y)}
<1>1. ASSUME NEW s \in SUBSET S
      PROVE  V(s) \in Nat /\ \A x \in s : V(s) = f[x] + V(s \ {x})
  <2>1. Addable(f, s)
    <3>1. IsFiniteSet(s)
      BY FS_Subset, Zenon DEF Addable
    <3> QED BY <3>1, Zenon DEF Addable
  <2> QED BY <2>1, SumTakes, SMTT(20)
<1>2. V({}) = 0
  BY FS_EmptySet, SumRecursion, Zenon
<1> HIDE DEF V
<1>3. B = {}
  <2> SUFFICES ASSUME B # {} PROVE FALSE
    BY Zenon
  <2>1. PICK s \in B : IsMinimal(s, B)
    <3>1. B \in SUBSET SUBSET X
      BY Zenon
    <3>2. IsFiniteSet(X)
      BY FS_Subset, Zenon DEF Addable
    <3> HIDE DEF B
    <3> QED BY <3>1, <3>2, MinimalSubset, Zenon
  <2>2. s # {}
    <3> SUFFICES ASSUME s = {} PROVE FALSE
      BY Zenon
    <3>1. s \cup Y = Y /\ V(Y) \in Nat
      BY <1>1
    <3>2. V(s) + V(Y) = V(Y)
      BY <1>2, <3>1
    <3> QED BY <2>1, <3>1, <3>2, Zenon
  <2>3. PICK c \in s : TRUE
    BY <2>2, Zenon
  <2>4. PICK t : t = s \ {c}
    BY Zenon
  <2>5. t \in SUBSET X /\ t \subseteq s /\ t # s /\ (s \cup Y) \ {c} = t \cup Y
    BY <2>1, <2>3, <2>4
  <2>6. V(t \cup Y) = V(t) + V(Y)
    BY <2>1, <2>5, Zenon DEF IsMinimal
  <2>7. s \cup Y \in SUBSET S /\ c \in s \cup Y /\ s \in SUBSET S /\ t \in SUBSET S
    BY <2>1, <2>3, <2>5, Zenon
  <2>8. V(s \cup Y) = f[c] + V(t \cup Y) /\ V(s) = f[c] + V(t)
    <3>1. V(s \cup Y) = f[c] + V((s \cup Y) \ {c})
      BY <1>1, <2>7, Zenon
    <3>2. V(s) = f[c] + V(s \ {c})
      BY <1>1, <2>3, <2>7, Zenon
    <3> QED BY <2>4, <2>5, <3>1, <3>2, Zenon
  <2>9. f[c] \in Nat /\ V(t) \in Nat /\ V(Y) \in Nat
    BY <1>1, <2>7, Zenon DEF Addable
  <2>10. V(s \cup Y) = V(s) + V(Y)
    BY <2>6, <2>8, <2>9
  <2> QED BY <2>1, <2>10, Zenon
<1>4. V(X \cup Y) = V(X) + V(Y)
  BY <1>3, Zenon
<1> QED BY <1>4, Zenon DEF V

\* What two sets cover adds up to no more than they do.
LEMMA SumWithin ==
    ASSUME NEW f, NEW S, Addable(f, S), NEW X \in SUBSET S, NEW Y \in SUBSET S,
           NEW Z \in SUBSET (X \cup Y)
    PROVE  SumFunctionOnSet(f, Z) <= SumFunctionOnSet(f, X) + SumFunctionOnSet(f, Y)
<1> DEFINE V(s) == SumFunctionOnSet(f, s)
<1>1. ASSUME NEW s \in SUBSET S PROVE V(s) \in Nat
  <2>1. Addable(f, s)
    <3>1. IsFiniteSet(s)
      BY FS_Subset, Zenon DEF Addable
    <3> QED BY <3>1, Zenon DEF Addable
  <2> QED BY <2>1, SumTakes, SMTT(20)
<1>2. ASSUME NEW A \in SUBSET S, NEW C \in SUBSET S, A \cap C = {}
      PROVE  V(A \cup C) = V(A) + V(C)
  BY <1>2, SumUnion, SMTT(20)
<1> HIDE DEF V
<1>3. ASSUME NEW A \in SUBSET S, NEW C \in SUBSET A PROVE V(C) <= V(A)
  <2>1. PICK D : D = A \ C
    BY Zenon
  <2>2. C \in SUBSET S /\ D \in SUBSET S /\ C \cap D = {} /\ C \cup D = A
    BY <2>1
  <2>3. V(A) = V(C) + V(D) /\ V(C) \in Nat /\ V(D) \in Nat
    BY <1>1, <1>2, <2>2, Zenon
  <2> QED BY <2>3
<1>4. PICK A, C : A = Z \cap X /\ C = Z \ X
  BY Zenon
<1>5. A \in SUBSET X /\ C \in SUBSET Y /\ A \in SUBSET S /\ C \in SUBSET S /\ A \cap C = {} /\ A \cup C = Z
  BY <1>4
<1>6. V(Z) = V(A) + V(C)
  BY <1>2, <1>5, Zenon
<1>7. V(A) <= V(X) /\ V(C) <= V(Y)
  BY <1>3, <1>5, Zenon
<1>8. V(A) \in Nat /\ V(C) \in Nat /\ V(X) \in Nat /\ V(Y) \in Nat
  BY <1>1, <1>5, Zenon
<1>9. V(Z) <= V(X) + V(Y)
  BY <1>6, <1>7, <1>8
<1> QED BY <1>9, Zenon DEF V

-----------------------------------------------------------------------------
(* Recursion along a sequence *)

\* f starts with b and takes the step F at each of the places 1 to k.
Runs(f, k, b, F) == f = [i \in 0 .. k |-> IF i = 0 THEN b ELSE F[<<f[i - 1], i>>]]

\* Such a function exists for any step.
LEMMA Recursion ==
    ASSUME NEW V, NEW n \in Nat, NEW b \in V, NEW F \in [V \X (1 .. n) -> V]
    PROVE  \E f \in [0 .. n -> V] : Runs(f, n, b, F)
<1> DEFINE After(f, i) == IF i = 0 THEN b ELSE F[<<f[i - 1], i>>]
           Defined == {k \in 0 .. n : \E f \in [0 .. k -> V] : Runs(f, k, b, F)}
<1>1. 0 \in Defined
  <2> DEFINE f == [i \in 0 .. 0 |-> b]
  <2>1. \A i \in 0 .. 0 : i = 0
    OBVIOUS
  <2>2. f \in [0 .. 0 -> V] /\ Runs(f, 0, b, F)
    BY <2>1, Zenon DEF Runs
  <2>3. 0 \in 0 .. n
    OBVIOUS
  <2> HIDE DEF f
  <2> QED BY <2>2, <2>3, Zenon
<1>2. ASSUME NEW k \in 0 .. n, k < n, k \in Defined PROVE k + 1 \in Defined
  <2>1. PICK f \in [0 .. k -> V] : Runs(f, k, b, F)
    BY <1>2, Zenon
  <2>2. k \in 0 .. k /\ k + 1 \in 1 .. n /\ k + 1 \in 0 .. n /\ k + 1 # 0 /\ (k + 1) - 1 = k
    BY <1>2
  <2>3. PICK v \in V : v = F[<<f[k], k + 1>>]
    BY <2>2, Zenon
  <2> DEFINE h == [i \in 0 .. k + 1 |-> IF i = k + 1 THEN v ELSE f[i]]
  <2>4. \A i \in 0 .. k : f[i] \in V /\ f[i] = After(f, i)
    BY <2>1, Zenon DEF Runs
  <2>5. \A i \in 0 .. k + 1 : i = 0 \/ (i - 1 \in 0 .. k + 1 /\ i - 1 # k + 1)
    BY <1>2
  <2>6. \A i \in 0 .. k + 1 : After(h, i) = After(f, i)
    BY <2>5, Zenon
  <2>7. \A i \in 0 .. k + 1 : i = k + 1 \/ i \in 0 .. k
    BY <1>2
  <2>8. \A i \in 0 .. k + 1 : (IF i = k + 1 THEN v ELSE f[i]) \in V
    BY <2>3, <2>4, <2>7, Zenon
  <2>9. h \in [0 .. k + 1 -> V]
    BY <2>8
  <2>10. After(f, k + 1) = v
    BY <2>2, <2>3, Zenon
  <2>11. \A i \in 0 .. k + 1 : h[i] = After(f, i)
    BY <2>4, <2>7, <2>10, Zenon
  <2>12. Runs(h, k + 1, b, F)
    <3>1. h = [i \in 0 .. k + 1 |-> h[i]]
      BY Zenon
    <3>2. \A i \in 0 .. k + 1 : h[i] = After(h, i)
      BY <2>6, <2>11, ZenonT(30)
    <3> HIDE DEF h
    <3> QED BY <3>1, <3>2, Zenon DEF Runs
  <2> HIDE DEF h
  <2> QED BY <2>2, <2>9, <2>12, Zenon
<1>3. n \in Defined
  <2> HIDE DEF Defined
  <2>1. \A k \in 0 .. n : k \in Defined
    BY <1>1, <1>2, UpTo, Zenon
  <2>2. n \in 0 .. n
    OBVIOUS
  <2> QED BY <2>1, <2>2, Zenon
<1> QED BY <1>3, Zenon

\* f follows the step F as long as what it holds lies in V.
Follows(f, n, b, F, V) ==
    /\ f[0] = b
    /\ \A i \in 1 .. n : f[i - 1] \in V => f[i] = F[<<f[i - 1], i>>]

\* Then it lies in V throughout.
LEMMA StaysIn ==
    ASSUME NEW V, NEW n \in Nat, NEW b \in V, NEW F \in [V \X (1 .. n) -> V],
           NEW f, Follows(f, n, b, F, V)
    PROVE  \A k \in 0 .. n : f[k] \in V
<1> DEFINE S == {k \in 0 .. n : f[k] \in V}
<1>1. 0 \in S
  <2>1. 0 \in 0 .. n
    OBVIOUS
  <2> QED BY <2>1, Zenon DEF Follows
<1>2. ASSUME NEW k \in 0 .. n, k < n, k \in S PROVE k + 1 \in S
  <2>1. k + 1 \in 1 .. n /\ k + 1 \in 0 .. n /\ (k + 1) - 1 = k
    BY <1>2
  <2>2. f[k + 1] = F[<<f[k], k + 1>>]
    BY <1>2, <2>1, Zenon DEF Follows
  <2> QED BY <1>2, <2>1, <2>2, Zenon
<1>3. \A k \in 0 .. n : k \in S
  <2> HIDE DEF S
  <2> QED BY <1>1, <1>2, UpTo, Zenon
<1> QED BY <1>3, Zenon

-----------------------------------------------------------------------------
(* What first fit places on a node *)

\* The node while the resources are placed: what it has available, and what did not fit.
NodeStates == [available : [Dims -> Nat], resources : Seq(Resource)]

\* As many instances are placed as fit, and not more than are asked for.
LEMMA PlacedFits ==
    ASSUME NEW available \in [Dims -> Nat], NEW r \in Resource
    PROVE  Placed(available, r) \in 0 .. r.count /\ FitsIn(available, r.unit, Placed(available, r))
<1> DEFINE S == {k \in 0 .. r.count : FitsIn(available, r.unit, k)}
           T == {r.count - k : k \in S}
<1>1. r.count \in Nat /\ r.unit \in [Dims -> Nat]
  BY DEF Resource
<1>2. 0 \in S
  <2>1. FitsIn(available, r.unit, 0)
    <3> SUFFICES ASSUME NEW d \in Dims PROVE 0 * r.unit[d] <= available[d]
      BY Zenon DEF FitsIn
    <3>1. available[d] \in Nat /\ r.unit[d] \in Nat
      BY <1>1
    <3> QED BY <3>1
  <2> QED BY <1>1, <2>1
<1>3. T \subseteq Nat /\ T # {}
  <2>1. \A k \in S : r.count - k \in Nat
    BY <1>1
  <2> QED BY <1>2, <2>1, Zenon
<1>4. PICK t \in T : \A m \in T : t <= m
  <2> HIDE DEF T
  <2> QED BY <1>3, LeastNat, Zenon
<1>5. PICK x \in S : t = r.count - x
  BY <1>4, Zenon
<1>6. ASSUME NEW y \in S PROVE x >= y
  <2>1. r.count - x <= r.count - y
    BY <1>4, <1>5, Zenon
  <2>2. x \in Nat /\ y \in Nat
    BY <1>1
  <2> QED BY <1>1, <2>1, <2>2
<1>7. Placed(available, r) \in S
  <2>1. \E z \in S : \A y \in S : z >= y
    BY <1>6, Zenon
  <2>2. Placed(available, r) = CHOOSE z \in S : \A y \in S : z >= y
    BY Zenon DEF Placed, Max
  <2> HIDE DEF S
  <2> QED BY <2>1, <2>2, Zenon
<1> QED BY <1>7, Zenon

\* Placing a resource: once something is left over, something stays left over; while nothing
\* is, the node has lost what was asked for.
LEMMA PlaceFacts ==
    ASSUME NEW node \in NodeStates, NEW r \in Resource
    PROVE  /\ PlaceResource(node, r) \in NodeStates
           /\ PlaceResource(node, r).resources = << >> =>
                 /\ node.resources = << >>
                 /\ \A d \in Dims :
                       PlaceResource(node, r).available[d] + r.count * r.unit[d] = node.available[d]
<1>1. /\ r.count \in Nat /\ r.unit \in [Dims -> Nat]
      /\ node.available \in [Dims -> Nat] /\ node.resources \in Seq(Resource)
  BY DEF Resource, NodeStates
<1>2. PICK k : k = Placed(node.available, r)
  BY Zenon
<1>3. k \in 0 .. r.count /\ FitsIn(node.available, r.unit, k)
  BY <1>1, <1>2, PlacedFits, Zenon
<1>4. PICK a : a = Subtract(node.available, r, k)
  BY Zenon
<1>5. PICK left : left = IF r.count > k THEN Append(node.resources, [r EXCEPT !.count = @ - k])
                         ELSE node.resources
  BY Zenon
<1>6. PlaceResource(node, r) = [available |-> a, resources |-> left]
  BY <1>2, <1>4, <1>5, Zenon DEF PlaceResource
<1>7. ASSUME NEW d \in Dims
      PROVE  a[d] \in Nat /\ a[d] = node.available[d] - k * r.unit[d] /\ k * r.unit[d] \in Nat
  <2>1. k * r.unit[d] <= node.available[d]
    BY <1>3, Zenon DEF FitsIn
  <2>2. k \in Nat /\ r.unit[d] \in Nat /\ node.available[d] \in Nat
    BY <1>1, <1>3
  <2>3. k * r.unit[d] \in Nat
    BY <2>2
  <2>4. a[d] = node.available[d] - k * r.unit[d]
    BY <1>4, Zenon DEF Subtract
  <2> QED BY <2>1, <2>2, <2>3, <2>4
<1>8. a \in [Dims -> Nat]
  <2>1. a = [d \in Dims |-> a[d]]
    BY <1>4, Zenon DEF Subtract
  <2> QED BY <1>7, <2>1, Zenon
<1>9. left \in Seq(Resource) /\ (left = << >> => node.resources = << >> /\ k = r.count)
  <2>1. CASE r.count > k
    <3>1. [r EXCEPT !.count = @ - k] \in Resource
      <4>1. r.count - k \in Nat
        BY <1>1, <1>3
      <4> QED BY <4>1 DEF Resource
    <3>2. PICK x \in Resource : left = Append(node.resources, x)
      BY <1>5, <2>1, <3>1, Zenon
    <3>3. left \in Seq(Resource) /\ left # << >>
      BY <1>1, <3>2
    <3> QED BY <3>3, Zenon
  <2>2. CASE ~(r.count > k)
    <3>1. left = node.resources
      BY <1>5, <2>2, Zenon
    <3>2. k = r.count
      BY <1>1, <1>3, <2>2
    <3> QED BY <1>1, <3>1, <3>2, Zenon
  <2> QED BY <2>1, <2>2, Zenon
<1>10. PICK p : p = PlaceResource(node, r)
  BY Zenon
<1>11. p.available = a /\ p.resources = left /\ p \in NodeStates
  BY <1>6, <1>8, <1>9, <1>10 DEF NodeStates
<1>12. ASSUME left = << >>, NEW d \in Dims PROVE a[d] + r.count * r.unit[d] = node.available[d]
  <2>1. a[d] = node.available[d] - r.count * r.unit[d] /\ r.count * r.unit[d] \in Nat
    BY <1>7, <1>9, <1>12, Zenon
  <2>2. node.available[d] \in Nat
    BY <1>1
  <2> QED BY <2>1, <2>2
<1> QED BY <1>9, <1>10, <1>11, <1>12, Zenon

\* What the first k of the resources ask for.
Amounts(rs, d) == [i \in DOMAIN rs |-> rs[i].count * rs[i].unit[d]]
NeedUpTo(rs, d, k) == SumFunctionOnSet(Amounts(rs, d), 1 .. k)

\* The need of a sequence of resources, one after the other.
LEMMA NeedSteps ==
    ASSUME NEW rs \in Seq(Resource), NEW d \in Dims
    PROVE  /\ NeedUpTo(rs, d, 0) = 0
           /\ \A k \in 0 .. Len(rs) : NeedUpTo(rs, d, k) \in Nat
           /\ \A k \in 1 .. Len(rs) :
                 NeedUpTo(rs, d, k) = rs[k].count * rs[k].unit[d] + NeedUpTo(rs, d, k - 1)
           /\ Need(rs, d) = NeedUpTo(rs, d, Len(rs))
<1> DEFINE f == Amounts(rs, d)
<1>1. Len(rs) \in Nat /\ DOMAIN rs = 1 .. Len(rs)
  OBVIOUS
<1>2. ASSUME NEW i \in 1 .. Len(rs) PROVE f[i] = rs[i].count * rs[i].unit[d] /\ f[i] \in Nat
  <2>1. rs[i] \in Resource
    OBVIOUS
  <2>2. rs[i].count \in Nat /\ rs[i].unit[d] \in Nat
    BY <2>1 DEF Resource
  <2>3. rs[i].count * rs[i].unit[d] \in Nat
    BY <2>2, SMTT(30)
  <2>4. f[i] = rs[i].count * rs[i].unit[d]
    BY <1>1, Zenon DEF Amounts
  <2> QED BY <2>3, <2>4, Zenon
<1> HIDE DEF f
<1>3. ASSUME NEW k \in 0 .. Len(rs) PROVE Addable(f, 1 .. k)
  <2>1. IsFiniteSet(1 .. k) /\ 1 .. k \subseteq 1 .. Len(rs)
    BY <1>1, FS_Interval
  <2> QED BY <1>2, <2>1, Zenon DEF Addable
<1>4. 1 .. 0 = {}
  OBVIOUS
<1>5. SumFunctionOnSet(f, {}) = 0
  BY FS_EmptySet, SumRecursion, Zenon
<1>6. \A k \in 0 .. Len(rs) : SumFunctionOnSet(f, 1 .. k) \in Nat
  BY <1>3, SumTakes, SMTT(20)
<1>7. ASSUME NEW k \in 1 .. Len(rs)
      PROVE  SumFunctionOnSet(f, 1 .. k) = rs[k].count * rs[k].unit[d] + SumFunctionOnSet(f, 1 .. k - 1)
  <2>1. k \in 1 .. k /\ (1 .. k) \ {k} = 1 .. k - 1 /\ k \in 0 .. Len(rs)
    BY <1>1
  <2>2. Addable(f, 1 .. k)
    BY <1>3, <2>1, Zenon
  <2>3. \A x \in 1 .. k : SumFunctionOnSet(f, 1 .. k) = f[x] + SumFunctionOnSet(f, (1 .. k) \ {x})
    BY <2>2, SumTakes, SMTT(20)
  <2>4. SumFunctionOnSet(f, 1 .. k) = f[k] + SumFunctionOnSet(f, (1 .. k) \ {k})
    BY <2>1, <2>3, Zenon
  <2> QED BY <1>2, <2>1, <2>4, Zenon
<1>8. Need(rs, d) = SumFunctionOnSet(f, 1 .. Len(rs))
  BY <1>1, Zenon DEF Need, f, Amounts
<1> QED BY <1>4, <1>5, <1>6, <1>7, <1>8, Zenon DEF NeedUpTo, f

\* The steps that place resources on a node, one after the other.
LEMMA PlaceSteps ==
    ASSUME NEW inv, NEW rs \in Seq(Resource), NEW available \in [Dims -> Nat]
    PROVE  \E g :
              /\ g[0] = [available |-> available, resources |-> << >>]
              /\ \A k \in 0 .. Len(rs) : g[k] \in NodeStates
              /\ \A k \in 1 .. Len(rs) : g[k] = PlaceResource(g[k - 1], rs[k])
              /\ PlaceOnNode([inventory |-> inv, resources |-> rs], available) =
                    [inventory |-> Append(inv, g[Len(rs)].available), resources |-> g[Len(rs)].resources]
<1> DEFINE n == Len(rs)
           b == [available |-> available, resources |-> << >>]
           F == [x \in NodeStates \X (1 .. n) |-> PlaceResource(x[1], rs[x[2]])]
           Rec(f) == f = [i \in 0 .. n |-> IF i = 0 THEN b ELSE PlaceResource(f[i - 1], rs[i])]
<1>1. n \in Nat /\ \A i \in 1 .. n : rs[i] \in Resource
  OBVIOUS
<1>2. b \in NodeStates
  BY DEF NodeStates
<1>3. F \in [NodeStates \X (1 .. n) -> NodeStates]
  <2>1. ASSUME NEW x \in NodeStates \X (1 .. n) PROVE PlaceResource(x[1], rs[x[2]]) \in NodeStates
    <3>1. x[1] \in NodeStates /\ rs[x[2]] \in Resource
      BY <1>1
    <3> QED BY <3>1, PlaceFacts, Zenon
  <2> QED BY <2>1, Zenon
<1>4. \A v \in NodeStates, i \in 1 .. n : F[<<v, i>>] = PlaceResource(v, rs[i])
  BY SMTT(20)
<1>5. \A i \in 0 .. n : i = 0 \/ (i \in 1 .. n /\ i - 1 \in 0 .. n)
  BY <1>1
<1> HIDE DEF F, b
<1>6. \E f : Rec(f)
  <2>1. PICK f \in [0 .. n -> NodeStates] : Runs(f, n, b, F)
    <3> HIDE DEF n
    <3> QED BY <1>1, <1>2, <1>3, Recursion, Zenon
  <2>2. \A i \in 0 .. n :
           (IF i = 0 THEN b ELSE F[<<f[i - 1], i>>]) = IF i = 0 THEN b ELSE PlaceResource(f[i - 1], rs[i])
    BY <1>4, <1>5, Zenon
  <2>3. Rec(f)
    BY <2>1, <2>2, Zenon DEF Runs
  <2> QED BY <2>3, Zenon
<1> DEFINE g == CHOOSE f : Rec(f)
<1>7. Rec(g)
  BY <1>6, Zenon
<1>8. PlaceOnNode([inventory |-> inv, resources |-> rs], available) =
         [inventory |-> Append(inv, g[n].available), resources |-> g[n].resources]
  BY DEF PlaceOnNode, b
<1> HIDE DEF g
<1>9. 0 \in 0 .. n /\ \A i \in 1 .. n : i \in 0 .. n /\ i # 0
  BY <1>1
<1>10. g[0] = b /\ \A i \in 1 .. n : g[i] = PlaceResource(g[i - 1], rs[i])
  BY <1>7, <1>9, Zenon
<1>11. Follows(g, n, b, F, NodeStates)
  BY <1>4, <1>10, Zenon DEF Follows
<1>12. \A k \in 0 .. n : g[k] \in NodeStates
  <2> HIDE DEF n
  <2> QED BY <1>1, <1>2, <1>3, <1>11, StaysIn, Zenon
<1> QED BY <1>8, <1>10, <1>12, Zenon DEF b

\* When all resources find their place on a node, it has lost what they ask for.
TakesNeed(inv, rs, available) ==
    \E after \in [Dims -> Nat], left \in Seq(Resource) :
        /\ PlaceOnNode([inventory |-> inv, resources |-> rs], available) =
              [inventory |-> Append(inv, after), resources |-> left]
        /\ left = << >> => \A d \in Dims : after[d] + Need(rs, d) = available[d]

\* Placing resources on a node takes what they ask for.
LEMMA NodeTakes ==
    ASSUME NEW inv, NEW rs \in Seq(Resource), NEW available \in [Dims -> Nat]
    PROVE  TakesNeed(inv, rs, available)
<1> DEFINE n == Len(rs)
<1>1. PICK g :
         /\ g[0] = [available |-> available, resources |-> << >>]
         /\ \A k \in 0 .. n : g[k] \in NodeStates
         /\ \A k \in 1 .. n : g[k] = PlaceResource(g[k - 1], rs[k])
         /\ PlaceOnNode([inventory |-> inv, resources |-> rs], available) =
               [inventory |-> Append(inv, g[n].available), resources |-> g[n].resources]
  BY PlaceSteps, Zenon
<1>2. n \in Nat /\ 0 \in 0 .. n /\ n \in 0 .. n /\ \A i \in 1 .. n : rs[i] \in Resource
  OBVIOUS
<1>3. \A k \in 0 .. n : g[k].available \in [Dims -> Nat] /\ g[k].resources \in Seq(Resource)
  BY <1>1 DEF NodeStates
<1> HIDE DEF n
<1> DEFINE Lost(k) == \A d \in Dims : g[k].available[d] + NeedUpTo(rs, d, k) = available[d]
           S == {k \in 0 .. n : g[k].resources = << >> => Lost(k)}
<1>4. 0 \in S
  <2>1. ASSUME NEW d \in Dims PROVE g[0].available[d] + NeedUpTo(rs, d, 0) = available[d]
    <3>1. NeedUpTo(rs, d, 0) = 0
      BY NeedSteps, Zenon
    <3>2. g[0].available[d] = available[d] /\ available[d] \in Nat
      BY <1>1
    <3> QED BY <3>1, <3>2
  <2> QED BY <1>2, <2>1, Zenon
<1>5. ASSUME NEW k \in 0 .. n, k < n, k \in S PROVE k + 1 \in S
  <2>1. k + 1 \in 1 .. n /\ k + 1 \in 0 .. n /\ (k + 1) - 1 = k
    BY <1>2, <1>5
  <2>2. g[k + 1] = PlaceResource(g[k], rs[k + 1]) /\ g[k] \in NodeStates /\ rs[k + 1] \in Resource
    BY <1>1, <1>2, <2>1, Zenon
  <2> SUFFICES ASSUME g[k + 1].resources = << >>, NEW d \in Dims
               PROVE  g[k + 1].available[d] + NeedUpTo(rs, d, k + 1) = available[d]
    BY <2>1, Zenon
  <2>3. PICK c : c = rs[k + 1].count * rs[k + 1].unit[d]
    BY Zenon
  <2>4. g[k].resources = << >> /\ g[k + 1].available[d] + c = g[k].available[d]
    <3>1. PICK x \in NodeStates, r \in Resource : x = g[k] /\ r = rs[k + 1]
      BY <2>2, Zenon
    <3>2. PlaceResource(x, r).resources = << >> =>
             x.resources = << >> /\ PlaceResource(x, r).available[d] + r.count * r.unit[d] = x.available[d]
      BY PlaceFacts, Zenon
    <3> QED BY <2>2, <2>3, <3>1, <3>2, Zenon
  <2>5. g[k].available[d] + NeedUpTo(rs, d, k) = available[d]
    BY <1>5, <2>4, Zenon
  <2>6. NeedUpTo(rs, d, k + 1) = c + NeedUpTo(rs, d, k) /\ NeedUpTo(rs, d, k) \in Nat
    BY <2>1, <2>3, NeedSteps, Zenon DEF n
  <2>7. c \in Nat
    <3>1. \A r \in Resource : r.count \in Nat /\ r.unit[d] \in Nat
      BY DEF Resource
    <3>2. \A x, y \in Nat : x * y \in Nat
      OBVIOUS
    <3> QED BY <2>2, <2>3, <3>1, <3>2, Zenon
  <2>8. g[k].available[d] \in Nat /\ g[k + 1].available[d] \in Nat
    BY <1>3, <2>1
  <2>9. available[d] \in Nat
    OBVIOUS
  <2>10. PICK p \in Nat, q \in Nat, y \in Nat, t \in Nat :
            /\ p = g[k + 1].available[d] /\ q = g[k].available[d]
            /\ y = NeedUpTo(rs, d, k) /\ t = available[d]
    BY <2>6, <2>8, <2>9, Zenon
  <2>11. p + c = q /\ q + y = t
    BY <2>4, <2>5, <2>10, Zenon
  <2>12. p + (c + y) = t
    BY <2>7, <2>11
  <2> QED BY <2>6, <2>10, <2>12, Zenon
<1>6. n \in S
  <2> HIDE DEF S
  <2>1. \A k \in 0 .. n : k \in S
    BY <1>2, <1>4, <1>5, UpTo, Zenon
  <2> QED BY <1>2, <2>1, Zenon
<1>7. g[n].resources = << >> => \A d \in Dims : g[n].available[d] + Need(rs, d) = available[d]
  BY <1>6, NeedSteps, Zenon DEF n
<1> QED BY <1>1, <1>2, <1>3, <1>7, Zenon DEF TakesNeed

-----------------------------------------------------------------------------
(* What the inventory has left after an adjustment *)

\* The units of no node, before the first check, or of the one node.
Inventories == {<< >>} \cup {<<x>> : x \in [Dims -> Nat]}
Left(inv, d) == IF inv = << >> THEN 0 ELSE inv[1][d]

\* What is left is a natural number.
LEMMA LeftNat ==
    ASSUME NEW inv \in Inventories, NEW d \in Dims
    PROVE  Left(inv, d) \in Nat
<1>1. CASE inv = << >>
  BY <1>1 DEF Left
<1>2. CASE \E x \in [Dims -> Nat] : inv = <<x>>
  <2>1. PICK x \in [Dims -> Nat] : inv = <<x>>
    BY <1>2, Zenon
  <2> QED BY <2>1 DEF Left
<1> QED BY <1>1, <1>2, Zenon DEF Inventories

\* The amount that resources ask for is a natural number, and zero for none.
LEMMA NeedNat ==
    ASSUME NEW rs \in Seq(Resource), NEW d \in Dims
    PROVE  Need(rs, d) \in Nat /\ (rs = << >> => Need(rs, d) = 0)
<1>1. Len(rs) \in 0 .. Len(rs) /\ (rs = << >> => Len(rs) = 0)
  OBVIOUS
<1> QED BY <1>1, NeedSteps, Zenon

\* An adjustment that succeeds takes what was asked for from the node.
LEMMA AdjustFits ==
    ASSUME NEW inv \in Inventories, NEW rs \in Seq(Resource)
    PROVE  \E after \in Inventories, ok \in BOOLEAN :
              /\ AdjustInventory(inv, rs) = [inventory |-> after, ok |-> ok]
              /\ ok => \A d \in Dims : Left(after, d) + Need(rs, d) = Left(inv, d)
<1> DEFINE n == Len(inv)
           b == [inventory |-> << >>, resources |-> rs]
           Rec(f) == f = [i \in 0 .. n |-> IF i = 0 THEN b ELSE PlaceOnNode(f[i - 1], inv[i])]
           g == CHOOSE f : Rec(f)
<1>1. AdjustInventory(inv, rs) = [inventory |-> g[n].inventory, ok |-> g[n].resources = << >>]
  BY DEF AdjustInventory
<1>2. CASE inv = << >>
  <2>1. n = 0 /\ 0 \in 0 .. n /\ \A i \in 0 .. n : i = 0
    BY <1>2
  <2>2. Rec([i \in 0 .. n |-> b])
    BY <2>1, Zenon
  <2>3. Rec(g)
    BY <2>2, Zenon
  <2>4. g[n] = b
    <3> HIDE DEF g, b, n
    <3> QED BY <2>1, <2>3, Zenon
  <2>5. b.inventory = << >> /\ b.resources = rs
    OBVIOUS
  <2>6. PICK ok \in BOOLEAN : ok = (rs = << >>)
    BY Zenon
  <2>7. AdjustInventory(inv, rs) = [inventory |-> << >>, ok |-> ok]
    <3> HIDE DEF g, b, n
    <3> QED BY <1>1, <2>4, <2>5, <2>6, Zenon
  <2>8. ASSUME rs = << >>, NEW d \in Dims PROVE Left(<< >>, d) + Need(rs, d) = Left(inv, d)
    <3>1. Need(rs, d) = 0
      BY <2>8, NeedNat, Zenon
    <3> QED BY <1>2, <3>1 DEF Left
  <2>9. << >> \in Inventories
    BY Zenon DEF Inventories
  <2> QED BY <2>6, <2>7, <2>8, <2>9, Zenon
<1>3. CASE \E x \in [Dims -> Nat] : inv = <<x>>
  <2>1. PICK x \in [Dims -> Nat] : inv = <<x>>
    BY <1>3, Zenon
  <2>2. PICK after \in [Dims -> Nat], left \in Seq(Resource) :
           /\ PlaceOnNode(b, x) = [inventory |-> Append(<< >>, after), resources |-> left]
           /\ left = << >> => \A d \in Dims : after[d] + Need(rs, d) = x[d]
    <3>1. TakesNeed(<< >>, rs, x)
      BY NodeTakes, Zenon
    <3> QED BY <3>1, Zenon DEF TakesNeed
  <2>3. n = 1 /\ inv[1] = x /\ 1 \in 0 .. n /\ 0 \in 0 .. n /\ 1 # 0 /\ 1 - 1 = 0
    BY <2>1
  <2>4. \A i \in 0 .. n : i = 0 \/ i = 1
    BY <2>3
  <2> HIDE DEF b, n
  <2>5. Rec([i \in 0 .. n |-> IF i = 0 THEN b ELSE PlaceOnNode(b, x)])
    <3> DEFINE f == [i \in 0 .. n |-> IF i = 0 THEN b ELSE PlaceOnNode(b, x)]
    <3>1. f[0] = b
      BY <2>3, Zenon
    <3>2. \A i \in 0 .. n :
             (IF i = 0 THEN b ELSE PlaceOnNode(f[i - 1], inv[i])) = IF i = 0 THEN b ELSE PlaceOnNode(b, x)
      <4> HIDE DEF f
      <4> QED BY <2>3, <2>4, <3>1, Zenon
    <3> QED BY <3>2, Zenon
  <2>6. Rec(g)
    BY <2>5, Zenon
  <2> HIDE DEF g
  <2>7. g[0] = b
    BY <2>3, <2>6, Zenon
  <2>8. g[1] = PlaceOnNode(g[1 - 1], inv[1])
    BY <2>3, <2>6, Zenon
  <2>9. g[n] = PlaceOnNode(b, x)
    BY <2>3, <2>7, <2>8, Zenon
  <2>10. g[n].inventory = <<after>> /\ g[n].resources = left
    BY <2>2, <2>9
  <2>11. PICK ok \in BOOLEAN : ok = (left = << >>)
    BY Zenon
  <2>12. AdjustInventory(inv, rs) = [inventory |-> <<after>>, ok |-> ok]
    BY <1>1, <2>10, <2>11, Zenon
  <2>13. <<after>> \in Inventories
    BY Zenon DEF Inventories
  <2>14. \A d \in Dims : Left(<<after>>, d) = after[d] /\ Left(inv, d) = x[d]
    BY <2>1 DEF Left
  <2>15. ok => \A d \in Dims : Left(<<after>>, d) + Need(rs, d) = Left(inv, d)
    BY <2>2, <2>11, <2>14, Zenon
  <2> QED BY <2>12, <2>13, <2>15, Zenon
<1> QED BY <1>2, <1>3, Zenon DEF Inventories

-----------------------------------------------------------------------------
(* What reservationAllocateable has found room for *)

\* The inventory while reservations are taken from it, and whether all have fitted.
AllocStates == [inventory : Inventories, ok : BOOLEAN]

\* Taking one more reservation: it fails for good, or takes what is asked for.
LEMMA TakeFacts ==
    ASSUME NEW s \in AllocStates, NEW rs \in Seq(Resource)
    PROVE  /\ Take(s, rs) \in AllocStates
           /\ Take(s, rs).ok =>
                 /\ s.ok
                 /\ \A d \in Dims :
                       Left(Take(s, rs).inventory, d) + Need(rs, d) = Left(s.inventory, d)
<1>1. s.inventory \in Inventories /\ s.ok \in BOOLEAN
  BY DEF AllocStates
<1>2. CASE s.ok
  <2>1. PICK after \in Inventories, ok \in BOOLEAN :
           /\ AdjustInventory(s.inventory, rs) = [inventory |-> after, ok |-> ok]
           /\ ok => \A d \in Dims : Left(after, d) + Need(rs, d) = Left(s.inventory, d)
    BY <1>1, AdjustFits, Zenon
  <2>2. Take(s, rs) = [inventory |-> after, ok |-> ok]
    BY <1>2, <2>1, Zenon DEF Take
  <2>3. PICK t : t = [inventory |-> after, ok |-> ok]
    BY Zenon
  <2>4. t \in AllocStates /\ t.inventory = after
    BY <2>3 DEF AllocStates
  <2>5. t.ok = ok
    BY <2>3, Zenon
  <2> QED BY <1>2, <2>1, <2>2, <2>3, <2>4, <2>5, Zenon
<1>3. CASE ~s.ok
  BY <1>3, Zenon DEF Take
<1> QED BY <1>2, <1>3, Zenon

\* The steps that take the pending reservations and then the new one, all in a sequence.
TakesEach(inv, all, pending, new) ==
    \E g : /\ g[0] = [inventory |-> inv, ok |-> TRUE]
           /\ \A k \in 0 .. Len(all) : g[k] \in AllocStates
           /\ \A k \in 1 .. Len(all) : g[k] = Take(g[k - 1], all[k])
           /\ Allocateable(inv, pending, new) = g[Len(all)].ok

\* reservationAllocateable takes these steps.
LEMMA AllocSteps ==
    ASSUME NEW inv \in Inventories, NEW all \in Seq(Seq(Resource)), NEW pending, NEW new,
           all = Append(pending, new)
    PROVE  TakesEach(inv, all, pending, new)
<1> DEFINE n == Len(all)
           b == [inventory |-> inv, ok |-> TRUE]
           F == [x \in AllocStates \X (1 .. n) |-> Take(x[1], all[x[2]])]
           Rec(f) == f = [i \in 0 .. n |-> IF i = 0 THEN b ELSE Take(f[i - 1], all[i])]
<1>1. n \in Nat /\ \A i \in 1 .. n : all[i] \in Seq(Resource)
  <2>1. \A S : all \in Seq(S) => Len(all) \in Nat /\ \A i \in 1 .. Len(all) : all[i] \in S
    OBVIOUS
  <2> QED BY <2>1, Zenon
<1>2. b \in AllocStates
  BY DEF AllocStates
<1>3. F \in [AllocStates \X (1 .. n) -> AllocStates]
  <2>1. ASSUME NEW x \in AllocStates \X (1 .. n) PROVE Take(x[1], all[x[2]]) \in AllocStates
    <3>1. x[1] \in AllocStates /\ x[2] \in 1 .. n
      BY <1>1
    <3>2. all[x[2]] \in Seq(Resource)
      BY <1>1, <3>1, Zenon
    <3> QED BY <3>1, <3>2, TakeFacts, Zenon
  <2> QED BY <2>1, Zenon
<1>4. \A v \in AllocStates, i \in 1 .. n : F[<<v, i>>] = Take(v, all[i])
  BY SMTT(20)
<1>5. \A i \in 0 .. n : i = 0 \/ (i \in 1 .. n /\ i - 1 \in 0 .. n)
  BY <1>1
<1> HIDE DEF F, b
<1>6. \E f : Rec(f)
  <2>1. PICK f \in [0 .. n -> AllocStates] : Runs(f, n, b, F)
    <3> HIDE DEF n
    <3> QED BY <1>1, <1>2, <1>3, Recursion, Zenon
  <2>2. \A i \in 0 .. n :
           (IF i = 0 THEN b ELSE F[<<f[i - 1], i>>]) = IF i = 0 THEN b ELSE Take(f[i - 1], all[i])
    BY <1>4, <1>5, Zenon
  <2>3. Rec(f)
    BY <2>1, <2>2, Zenon DEF Runs
  <2> QED BY <2>3, Zenon
<1> DEFINE g == CHOOSE f : Rec(f)
<1>7. Rec(g)
  BY <1>6, Zenon
<1>8. Allocateable(inv, pending, new) = g[n].ok
  BY Zenon DEF Allocateable, b
<1> HIDE DEF g
<1>9. 0 \in 0 .. n /\ \A i \in 1 .. n : i \in 0 .. n /\ i # 0
  BY <1>1
<1>10. g[0] = b /\ \A i \in 1 .. n : g[i] = Take(g[i - 1], all[i])
  BY <1>7, <1>9, Zenon
<1>11. Follows(g, n, b, F, AllocStates)
  BY <1>4, <1>10, Zenon DEF Follows
<1>12. \A k \in 0 .. n : g[k] \in AllocStates
  <2> HIDE DEF n
  <2> QED BY <1>1, <1>2, <1>3, <1>11, StaysIn, Zenon
<1> QED BY <1>8, <1>10, <1>12, Zenon DEF b, TakesEach

\* What orders use is a natural number; one more order adds what it asks for; what two sets
\* of orders cover uses no more than they do.
LEMMA UsedFacts ==
    ASSUME NEW d \in Dims, NEW X \in SUBSET Orders, IsFiniteSet(X)
    PROVE  /\ Used({}, d) = 0 /\ Used(X, d) \in Nat
           /\ \A o \in Orders \ X : Used(X \cup {o}, d) = Need(Resources[o], d) + Used(X, d)
           /\ \A Y \in SUBSET Orders : IsFiniteSet(Y) =>
                 \A Z \in SUBSET (X \cup Y) : Used(Z, d) <= Used(X, d) + Used(Y, d)
<1> DEFINE f == [o \in Orders |-> Need(Resources[o], d)]
<1>1. \A o \in Orders : f[o] = Need(Resources[o], d) /\ f[o] \in Nat
  <2>1. \A o \in Orders : Resources[o] \in Seq(Resource)
    BY InventoryAssumption, Zenon
  <2>2. \A o \in Orders : Need(Resources[o], d) \in Nat
    BY <2>1, NeedNat, Zenon
  <2> QED BY <2>2, Zenon
<1>2. \A S : Used(S, d) = SumFunctionOnSet(f, S)
  BY Zenon DEF Used
<1> HIDE DEF f
<1>3. ASSUME NEW S \in SUBSET Orders, IsFiniteSet(S) PROVE Addable(f, S)
  BY <1>1, <1>3, Zenon DEF Addable
<1>4. Used({}, d) = 0
  BY <1>2, FS_EmptySet, SumRecursion, Zenon
<1>5. Used(X, d) \in Nat
  <2>1. Addable(f, X)
    BY <1>3, Zenon
  <2>2. SumFunctionOnSet(f, X) \in Nat
    BY <2>1, SumTakes, SMTT(20)
  <2> QED BY <1>2, <2>2, Zenon
<1>6. ASSUME NEW o \in Orders \ X PROVE Used(X \cup {o}, d) = Need(Resources[o], d) + Used(X, d)
  <2>1. PICK Y : Y = X \cup {o}
    BY Zenon
  <2>2. Y \in SUBSET Orders /\ o \in Y /\ Y \ {o} = X /\ o \in Orders
    BY <2>1
  <2>3. IsFiniteSet(Y)
    BY <2>1, FS_AddElement, Zenon
  <2>4. Addable(f, Y)
    BY <1>3, <2>2, <2>3, Zenon
  <2>5. \A x \in Y : SumFunctionOnSet(f, Y) = f[x] + SumFunctionOnSet(f, Y \ {x})
    BY <2>4, SumTakes, SMTT(20)
  <2>6. SumFunctionOnSet(f, Y) = f[o] + SumFunctionOnSet(f, Y \ {o})
    BY <2>2, <2>5, Zenon
  <2> QED BY <1>1, <1>2, <2>1, <2>2, <2>6, Zenon
<1>7. ASSUME NEW Y \in SUBSET Orders, IsFiniteSet(Y), NEW Z \in SUBSET (X \cup Y)
      PROVE  Used(Z, d) <= Used(X, d) + Used(Y, d)
  <2>1. PICK S : S = X \cup Y
    BY Zenon
  <2>2. IsFiniteSet(S)
    BY <1>7, <2>1, FS_Union, Zenon
  <2>3. S \in SUBSET Orders /\ X \in SUBSET S /\ Y \in SUBSET S
    BY <2>1, Zenon
  <2>4. Addable(f, S)
    BY <1>3, <2>2, <2>3, Zenon
  <2>5. SumFunctionOnSet(f, Z) <= SumFunctionOnSet(f, X) + SumFunctionOnSet(f, Y)
    BY <2>3, <2>4, SumWithin, SMTT(20)
  <2>6. Used(Z, d) = SumFunctionOnSet(f, Z) /\ Used(X, d) = SumFunctionOnSet(f, X)
        /\ Used(Y, d) = SumFunctionOnSet(f, Y)
    BY <1>2, Zenon
  <2> QED BY <2>5, <2>6, SMTT(20)
<1> QED BY <1>4, <1>5, <1>6, <1>7, Zenon

-----------------------------------------------------------------------------
(* Reservations *)

Reservation == [order : Orders, allocated : BOOLEAN]

\* Every order is reserved at most once.
OncePerOrder(rs) == \A i, j \in DOMAIN rs : rs[i].order = rs[j].order => i = j

\* The orders of the pending reservations among the first k, and of those marked allocated.
Waiting(k) == {reservations[i].order : i \in {j \in 1 .. k : ~reservations[j].allocated}}
Allocated == {r.order : r \in {x \in Range(reservations) : x.allocated}}

\* The reserved orders are those that wait and those that are allocated; they are finitely many.
LEMMA ReservedFacts ==
    ASSUME reservations \in Seq(Reservation)
    PROVE  /\ Reserved \in SUBSET Orders /\ IsFiniteSet(Reserved)
           /\ Reserved = {reservations[i].order : i \in DOMAIN reservations}
           /\ Reserved \subseteq Waiting(Len(reservations)) \cup Allocated
           /\ \A k \in 0 .. Len(reservations) : Waiting(k) \in SUBSET Orders /\ IsFiniteSet(Waiting(k))
<1> DEFINE n == Len(reservations)
           Order(i) == reservations[i].order
<1>1. /\ n \in Nat /\ DOMAIN reservations = 1 .. n
      /\ \A i \in 1 .. n : reservations[i].order \in Orders /\ reservations[i].allocated \in BOOLEAN
  <2>1. n \in Nat /\ DOMAIN reservations = 1 .. n /\ \A i \in 1 .. n : reservations[i] \in Reservation
    OBVIOUS
  <2>2. \A r \in Reservation : r.order \in Orders /\ r.allocated \in BOOLEAN
    BY DEF Reservation
  <2> QED BY <2>1, <2>2, Zenon
<1> HIDE DEF n
<1>2. Reserved = {reservations[i].order : i \in DOMAIN reservations}
  BY Zenon DEF Reserved, Range
<1>3. ASSUME NEW S \in SUBSET (1 .. n) PROVE IsFiniteSet({reservations[i].order : i \in S})
  <2>1. IsFiniteSet(S)
    <3>1. IsFiniteSet(1 .. n)
      BY <1>1, FS_Interval
    <3> QED BY <3>1, FS_Subset, Zenon
  <2>2. PICK f : f = [i \in S |-> reservations[i].order]
    BY Zenon
  <2>3. PICK T : T = {reservations[i].order : i \in S}
    BY Zenon
  <2>4. f \in [S -> T] /\ \A t \in T : \E s \in S : f[s] = t
    BY <2>2, <2>3, Zenon
  <2>5. f \in Surjection(S, T)
    BY <2>4, Zenon DEF Surjection
  <2> QED BY <2>1, <2>3, <2>5, FS_Surjection, Zenon
<1>4. Reserved \in SUBSET Orders
  BY <1>1, <1>2, Zenon
<1>5. IsFiniteSet(Reserved)
  <2>1. DOMAIN reservations \in SUBSET (1 .. n)
    BY <1>1, Zenon
  <2> QED BY <1>2, <1>3, <2>1, Zenon
<1>6. ASSUME NEW o \in Reserved PROVE o \in Waiting(n) \cup Allocated
  <2>1. PICK i \in 1 .. n : o = reservations[i].order
    BY <1>1, <1>2, Zenon
  <2>2. CASE reservations[i].allocated
    <3>1. reservations[i] \in Range(reservations)
      BY <1>1, <2>1, Zenon DEF Range
    <3> QED BY <2>1, <2>2, <3>1, Zenon DEF Allocated
  <2>3. CASE ~reservations[i].allocated
    BY <2>1, <2>3, Zenon DEF Waiting
  <2> QED BY <2>2, <2>3, Zenon
<1>7. ASSUME NEW k \in 0 .. n PROVE Waiting(k) \in SUBSET Orders /\ IsFiniteSet(Waiting(k))
  <2>1. 1 .. k \subseteq 1 .. n
    BY <1>1
  <2>2. PICK S \in SUBSET (1 .. n) : S = {j \in 1 .. k : ~reservations[j].allocated}
    BY <2>1, Zenon
  <2>3. Waiting(k) = {reservations[i].order : i \in S}
    BY <2>2, Zenon DEF Waiting
  <2> QED BY <1>1, <1>3, <2>3, Zenon
<1> QED BY <1>2, <1>4, <1>5, <1>6, <1>7, Zenon DEF n

\* One more place: the orders that wait, and what they take of the inventory.
LEMMA WaitingStep ==
    ASSUME reservations \in Seq(Reservation), OncePerOrder(reservations),
           NEW k \in 1 .. Len(reservations), NEW d \in Dims
    PROVE  /\ Pending[k] \in Seq(Resource)
           /\ Used(Waiting(k), d) = Need(Pending[k], d) + Used(Waiting(k - 1), d)
<1>1. /\ k \in DOMAIN reservations /\ reservations[k] \in Reservation
      /\ k - 1 \in 0 .. Len(reservations) /\ k \in 0 .. Len(reservations) /\ k \in 1 .. k
      /\ 1 .. Len(reservations) = DOMAIN reservations
  OBVIOUS
<1>2. \A i \in 1 .. k : i = k \/ i \in 1 .. k - 1
  OBVIOUS
<1>3. \A i \in 1 .. k - 1 : i \in 1 .. k /\ i # k /\ i \in 1 .. Len(reservations)
  OBVIOUS
<1>4. PICK o \in Orders : o = reservations[k].order
  BY <1>1 DEF Reservation
<1>5. Resources[o] \in Seq(Resource)
  BY InventoryAssumption, Zenon
<1>6. << >> \in Seq(Resource)
  OBVIOUS
<1>7. Waiting(k - 1) \in SUBSET Orders /\ IsFiniteSet(Waiting(k - 1))
  BY <1>1, ReservedFacts, Zenon
<1>8. CASE reservations[k].allocated
  <2>1. Pending[k] = << >>
    BY <1>1, <1>8, Zenon DEF Pending
  <2>2. Waiting(k) = Waiting(k - 1)
    BY <1>2, <1>3, <1>8, Zenon DEF Waiting
  <2>3. Need(Pending[k], d) = 0
    BY <1>6, <2>1, NeedNat, Zenon
  <2>4. Used(Waiting(k - 1), d) \in Nat
    BY <1>7, UsedFacts, Zenon
  <2>5. Used(Waiting(k), d) = Need(Pending[k], d) + Used(Waiting(k - 1), d)
    <3>1. PICK u \in Nat : u = Used(Waiting(k - 1), d)
      BY <2>4, Zenon
    <3>2. u = 0 + u
      OBVIOUS
    <3> QED BY <2>2, <2>3, <3>1, <3>2, Zenon
  <2> QED BY <1>6, <2>1, <2>5, Zenon
<1>9. CASE ~reservations[k].allocated
  <2>1. Pending[k] = Resources[o]
    BY <1>1, <1>4, <1>9, Zenon DEF Pending
  <2>2. Waiting(k) = Waiting(k - 1) \cup {o}
    <3>1. ASSUME NEW x \in Waiting(k) PROVE x \in Waiting(k - 1) \cup {o}
      BY <1>2, <1>4, <3>1, Zenon DEF Waiting
    <3>2. Waiting(k - 1) \subseteq Waiting(k) /\ o \in Waiting(k)
      BY <1>1, <1>3, <1>4, <1>9, Zenon DEF Waiting
    <3> QED BY <3>1, <3>2, Zenon
  <2>3. o \notin Waiting(k - 1)
    BY <1>1, <1>3, <1>4, Zenon DEF Waiting, OncePerOrder
  <2>4. Used(Waiting(k - 1) \cup {o}, d) = Need(Resources[o], d) + Used(Waiting(k - 1), d)
    BY <1>7, <2>3, UsedFacts, Zenon
  <2> QED BY <1>5, <2>1, <2>2, <2>4, Zenon
<1> QED BY <1>8, <1>9, Zenon

\* When reservationAllocateable accepts an order, it and all pending reservations fit into what
\* the inventory has.
LEMMA AllocFits ==
    ASSUME inventory \in Inventories, reservations \in Seq(Reservation), OncePerOrder(reservations),
           NEW o \in Orders, Allocateable(inventory, Pending, Resources[o]), NEW d \in Dims
    PROVE  Used(Waiting(Len(reservations)), d) + Need(Resources[o], d) <= Left(inventory, d)
<1> DEFINE n == Len(reservations)
           all == Append(Pending, Resources[o])
<1>1. n \in Nat /\ DOMAIN reservations = 1 .. n
  OBVIOUS
<1>2. Resources[o] \in Seq(Resource)
  BY InventoryAssumption, Zenon
<1>3. \A k \in 1 .. n : Pending[k] \in Seq(Resource)
  BY WaitingStep, Zenon
<1>4. PICK S : S = Seq(Resource)
  BY Zenon
<1>5. Pending = [k \in 1 .. n |-> Pending[k]]
  BY <1>1, Zenon DEF Pending
<1> HIDE DEF n
<1>6. Pending \in Seq(S) /\ Len(Pending) = n
  BY <1>1, <1>3, <1>4, <1>5
<1>7. /\ all \in Seq(S) /\ Len(all) = n + 1 /\ all[n + 1] = Resources[o]
      /\ \A k \in 1 .. n : all[k] = Pending[k]
  <2>1. Resources[o] \in S
    BY <1>2, <1>4, Zenon
  <2> QED BY <1>1, <1>6, <2>1
<1>8. PICK g :
         /\ g[0] = [inventory |-> inventory, ok |-> TRUE]
         /\ \A k \in 0 .. Len(all) : g[k] \in AllocStates
         /\ \A k \in 1 .. Len(all) : g[k] = Take(g[k - 1], all[k])
         /\ Allocateable(inventory, Pending, Resources[o]) = g[Len(all)].ok
  <2>1. all \in Seq(Seq(Resource))
    BY <1>4, <1>7, Zenon
  <2> HIDE DEF all
  <2>2. all = Append(Pending, Resources[o])
    BY Zenon DEF all
  <2>3. TakesEach(inventory, all, Pending, Resources[o])
    BY <2>1, <2>2, AllocSteps, Zenon
  <2> QED BY <2>3, Zenon DEF TakesEach
<1> HIDE DEF all
<1>9. \A k \in 0 .. n + 1 : g[k].inventory \in Inventories
  BY <1>7, <1>8 DEF AllocStates
<1> DEFINE L(k) == Left(g[k].inventory, d)
           W(k) == Used(Waiting(k), d)
           Fit == {k \in 0 .. n : g[k].ok => L(k) + W(k) = Left(inventory, d)}
<1>10. \A k \in 0 .. n + 1 : L(k) \in Nat
  BY <1>9, LeftNat, Zenon
<1>11. \A k \in 0 .. n : W(k) \in Nat
  BY ReservedFacts, UsedFacts, Zenon DEF n
<1>12. Left(inventory, d) \in Nat
  BY LeftNat, Zenon
<1>13. 0 \in Fit
  <2>1. 1 .. 0 = {} /\ 0 \in 0 .. n
    BY <1>1
  <2>2. Waiting(0) = {}
    BY <2>1, Zenon DEF Waiting
  <2>3. W(0) = 0
    BY <2>2, FS_EmptySet, UsedFacts, Zenon
  <2>4. g[0].inventory = inventory
    BY <1>8
  <2>5. L(0) + W(0) = Left(inventory, d)
    BY <1>12, <2>3, <2>4
  <2> QED BY <2>1, <2>5, Zenon
<1>14. ASSUME NEW k \in 0 .. n, k < n, k \in Fit PROVE k + 1 \in Fit
  <2>1. k + 1 \in 1 .. n /\ k + 1 \in 0 .. n /\ (k + 1) - 1 = k /\ k + 1 \in 1 .. n + 1 /\ k \in 0 .. n + 1
    BY <1>1, <1>14
  <2>2. /\ g[k + 1] = Take(g[k], Pending[k + 1]) /\ g[k] \in AllocStates
        /\ Pending[k + 1] \in Seq(Resource)
    BY <1>3, <1>7, <1>8, <2>1, Zenon
  <2> SUFFICES ASSUME g[k + 1].ok PROVE L(k + 1) + W(k + 1) = Left(inventory, d)
    BY <2>1, Zenon
  <2>3. PICK c : c = Need(Pending[k + 1], d)
    BY Zenon
  <2>4. c \in Nat
    BY <2>2, <2>3, NeedNat, Zenon
  <2>5. g[k].ok /\ L(k + 1) + c = L(k)
    <3>1. PICK s \in AllocStates, rs \in Seq(Resource) : s = g[k] /\ rs = Pending[k + 1]
      BY <2>2, Zenon
    <3>2. Take(s, rs).ok => s.ok /\ Left(Take(s, rs).inventory, d) + Need(rs, d) = Left(s.inventory, d)
      BY TakeFacts, ZenonT(30)
    <3> QED BY <2>2, <2>3, <3>1, <3>2, Zenon
  <2>6. L(k) + W(k) = Left(inventory, d)
    BY <1>14, <2>5, Zenon
  <2>7. W(k + 1) = c + W(k)
    <3>1. Used(Waiting(k + 1), d) = Need(Pending[k + 1], d) + Used(Waiting((k + 1) - 1), d)
      BY <2>1, WaitingStep, Zenon DEF n
    <3> QED BY <2>1, <2>3, <3>1, Zenon
  <2>8. L(k + 1) \in Nat /\ L(k) \in Nat /\ W(k) \in Nat
    <3>1. k + 1 \in 0 .. n + 1
      BY <1>1, <2>1
    <3> HIDE DEF L, W
    <3> QED BY <1>10, <1>11, <2>1, <3>1, Zenon
  <2> HIDE DEF L, W
  <2> QED BY <1>12, <2>4, <2>5, <2>6, <2>7, <2>8
<1>15. n \in Fit
  <2> HIDE DEF Fit
  <2>1. \A k \in 0 .. n : k \in Fit
    BY <1>1, <1>13, <1>14, UpTo, Zenon
  <2>2. n \in 0 .. n
    BY <1>1
  <2> QED BY <2>1, <2>2, Zenon
<1>16. n \in 0 .. n /\ n + 1 \in 1 .. n + 1 /\ n + 1 \in 0 .. n + 1 /\ n \in 0 .. n + 1 /\ (n + 1) - 1 = n
  BY <1>1
<1>17. g[n + 1] = Take(g[n], Resources[o]) /\ g[n] \in AllocStates /\ g[n + 1].ok
  BY <1>7, <1>8, <1>16, Zenon
<1>18. g[n].ok /\ L(n + 1) + Need(Resources[o], d) = L(n)
  <2>1. PICK s \in AllocStates, rs \in Seq(Resource) : s = g[n] /\ rs = Resources[o]
    BY <1>2, <1>17, Zenon
  <2>2. Take(s, rs).ok => s.ok /\ Left(Take(s, rs).inventory, d) + Need(rs, d) = Left(s.inventory, d)
    BY TakeFacts, ZenonT(30)
  <2> QED BY <1>17, <2>1, <2>2, Zenon
<1>19. L(n) + W(n) = Left(inventory, d)
  BY <1>15, <1>18, Zenon
<1>20. L(n + 1) \in Nat /\ L(n) \in Nat /\ W(n) \in Nat
  <2> HIDE DEF L, W
  <2> QED BY <1>10, <1>11, <1>16, Zenon
<1>21. Need(Resources[o], d) \in Nat
  BY <1>2, NeedNat, Zenon
<1>22. W(n) + Need(Resources[o], d) <= Left(inventory, d)
  <2> HIDE DEF L, W
  <2> QED BY <1>12, <1>18, <1>19, <1>20, <1>21
<1> QED BY <1>22, Zenon DEF n

-----------------------------------------------------------------------------
(* The inductive invariant *)

\* A finite set of orders.
Workloads(S) == S \in SUBSET Orders /\ IsFiniteSet(S)

InventoryTypes ==
    /\ inventory \in Inventories
    /\ reservations \in Seq(Reservation)
    /\ events \in Seq([order : Orders, deployed : BOOLEAN])
    /\ unseen \in BOOLEAN
    /\ sampled \in SUBSET Orders /\ IsFiniteSet(sampled)

\* What the inventory has left is free next to the workloads that the last check counted in full.
InventoryInv ==
    /\ InventoryTypes
    /\ OncePerOrder(reservations)
    /\ Workloads(running)
    /\ check = None \/ (check = [saw |-> check.saw] /\ Workloads(check.saw))
    /\ \A d \in Dims : Left(inventory, d) + Used(sampled, d) <= Capacity[d]
    /\ OvercommitOnlyIfUnseen

\* The invariant holds when the service starts.
LEMMA InventoryInvInit == Init => InventoryInv
<1> SUFFICES ASSUME Init PROVE InventoryInv
  OBVIOUS
<1>1. Workloads({}) /\ IsFiniteSet({})
  BY FS_EmptySet, Zenon DEF Workloads
<1>0. ASSUME NEW d \in Dims PROVE Used({}, d) <= Capacity[d]
  <2>1. Used({}, d) = 0 /\ Capacity[d] \in Nat
    BY FS_EmptySet, InventoryAssumption, UsedFacts, Zenon
  <2> QED BY <2>1
<1>2. InventoryTypes
  <2>1. inventory \in Inventories /\ sampled = {} /\ unseen \in BOOLEAN
    BY Zenon DEF Init, Inventories
  <2>2. \A S : << >> \in Seq(S)
    OBVIOUS
  <2>3. /\ reservations \in Seq(Reservation)
        /\ events \in Seq([order : Orders, deployed : BOOLEAN])
    BY <2>2, Zenon DEF Init
  <2> QED BY <1>1, <2>1, <2>3, Zenon DEF InventoryTypes
<1>3. OncePerOrder(reservations) /\ Reserved = {}
  BY DEF Init, OncePerOrder, Reserved, Range
<1>4. ASSUME NEW d \in Dims PROVE Left(inventory, d) + Used(sampled, d) <= Capacity[d]
  <2>1. Left(inventory, d) = 0 /\ sampled = {}
    BY Zenon DEF Init, Left
  <2>2. Used({}, d) = 0 /\ Capacity[d] \in Nat
    BY FS_EmptySet, InventoryAssumption, UsedFacts, Zenon
  <2> QED BY <2>1, <2>2
<1>5. OvercommitOnlyIfUnseen
  BY <1>0, <1>3, Zenon DEF OvercommitOnlyIfUnseen
<1> QED BY <1>1, <1>2, <1>3, <1>4, <1>5, Zenon DEF InventoryInv, Init

\* Fewer orders reserved need less: the bound stays.
LEMMA FewerReserved ==
    ASSUME NEW X \in SUBSET Orders, IsFiniteSet(X), NEW Y \in SUBSET X, NEW d \in Dims,
           Used(X, d) <= Capacity[d]
    PROVE  Used(Y, d) <= Capacity[d]
<1>1. {} \in SUBSET Orders /\ IsFiniteSet({}) /\ Y \in SUBSET (X \cup {}) /\ Y \in SUBSET Orders
  BY FS_EmptySet, Zenon
<1>2. Used(Y, d) <= Used(X, d) + Used({}, d)
  BY <1>1, UsedFacts, Zenon
<1>3. IsFiniteSet(Y)
  BY FS_Subset, Zenon
<1>4. Used({}, d) = 0 /\ Used(X, d) \in Nat /\ Used(Y, d) \in Nat
  BY <1>1, <1>3, UsedFacts, Zenon
<1>5. Capacity[d] \in Nat
  BY InventoryAssumption
<1> QED BY <1>2, <1>4, <1>5

\* The first reservation of an order is one of the reservations, and it is the order's.
LEMMA FindFacts ==
    ASSUME reservations \in Seq(Reservation), NEW o, Find(o) # 0
    PROVE  Find(o) \in DOMAIN reservations /\ reservations[Find(o)].order = o
<1> DEFINE found == {i \in DOMAIN reservations : reservations[i].order = o}
<1>1. found # {} /\ Find(o) = Min(found)
  BY Zenon DEF Find
<1>2. found \subseteq Nat
  OBVIOUS
<1>3. \E n \in found : \A m \in found : n <= m
  <2> HIDE DEF found
  <2> QED BY <1>1, <1>2, LeastNat, Zenon
<1>4. Min(found) \in found
  <2> HIDE DEF found
  <2> QED BY <1>3, Zenon DEF Min
<1> QED BY <1>1, <1>4, Zenon

-----------------------------------------------------------------------------
(* The steps *)

\* An order that is accepted while every allocated one was seen by the last check fits next to
\* all that are reserved.
LEMMA ReserveKeeps == ASSUME InventoryInv, NEW o \in Orders, Reserve(o) PROVE InventoryInv'
<1> DEFINE n == Len(reservations)
           r == [order |-> o, allocated |-> FALSE]
<1>1. /\ inventory \in Inventories /\ reservations \in Seq(Reservation) /\ unseen \in BOOLEAN
      /\ sampled \in SUBSET Orders /\ IsFiniteSet(sampled) /\ OncePerOrder(reservations)
      /\ \A d \in Dims : Left(inventory, d) + Used(sampled, d) <= Capacity[d]
  BY Zenon DEF InventoryInv, InventoryTypes
<1>2. /\ o \notin Reserved /\ Allocateable(inventory, Pending, Resources[o])
      /\ reservations' = Append(reservations, r) /\ unseen' = (unseen \/ Uncounted # {})
      /\ inventory' = inventory /\ check' = check /\ sampled' = sampled
      /\ events' = events /\ running' = running
  BY Zenon DEF Reserve, cluster
<1>3. r \in Reservation /\ r.order = o
  BY DEF Reservation
<1> HIDE DEF r
<1>4. /\ reservations' \in Seq(Reservation) /\ n \in Nat /\ DOMAIN reservations = 1 .. n
      /\ DOMAIN reservations' = 1 .. n + 1 /\ reservations'[n + 1] = r
      /\ \A i \in 1 .. n : reservations'[i] = reservations[i]
  BY <1>1, <1>2, <1>3
<1> HIDE DEF n
<1>5. \A i \in 1 .. n + 1 : i = n + 1 \/ i \in 1 .. n
  BY <1>4
<1>6. n + 1 \in 1 .. n + 1 /\ \A i \in 1 .. n : i \in 1 .. n + 1
  BY <1>4
<1>7. Reserved = {reservations[i].order : i \in 1 .. n}
  BY <1>1, <1>4, ReservedFacts, Zenon
<1>8. OncePerOrder(reservations)'
  <2>1. \A i \in 1 .. n : reservations'[i].order = reservations[i].order /\ reservations[i].order # o
    BY <1>2, <1>4, <1>7, Zenon
  <2>2. reservations'[n + 1].order = o
    BY <1>3, <1>4, Zenon
  <2>3. ASSUME NEW i \in 1 .. n + 1, NEW j \in 1 .. n + 1, reservations'[i].order = reservations'[j].order
        PROVE  i = j
    <3>1. CASE i \in 1 .. n /\ j \in 1 .. n
      BY <1>1, <1>4, <2>1, <2>3, <3>1, Zenon DEF OncePerOrder
    <3> QED BY <1>5, <2>1, <2>2, <2>3, <3>1, Zenon
  <2> QED BY <1>4, <2>3, Zenon DEF OncePerOrder
<1>9. Reserved' = Reserved \cup {o}
  <2>1. Reserved' = {reservations'[i].order : i \in 1 .. n + 1}
    BY <1>4, Zenon DEF Reserved, Range
  <2>2. ASSUME NEW x \in Reserved' PROVE x \in Reserved \cup {o}
    BY <1>3, <1>4, <1>5, <1>7, <2>1, Zenon
  <2>3. ASSUME NEW x \in Reserved \cup {o} PROVE x \in Reserved'
    BY <1>3, <1>4, <1>6, <1>7, <2>1, Zenon
  <2> QED BY <2>2, <2>3, Zenon
<1>10. ASSUME ~unseen', NEW d \in Dims PROVE Used(Reserved', d) <= Capacity[d]
  <2>1. Allocated \subseteq sampled
    BY <1>2, <1>10, Zenon DEF Uncounted, Allocated
  <2>2. PICK w : w = Waiting(n)
    BY Zenon
  <2>3. /\ w \in SUBSET Orders /\ IsFiniteSet(w) /\ Reserved \in SUBSET (w \cup sampled)
        /\ Reserved \in SUBSET Orders /\ IsFiniteSet(Reserved)
    <3>1. n \in 0 .. n
      BY <1>4
    <3> QED BY <1>1, <2>1, <2>2, <3>1, ReservedFacts, Zenon DEF n
  <2>4. Used(Reserved, d) <= Used(w, d) + Used(sampled, d)
    BY <1>1, <2>3, UsedFacts, Zenon
  <2>5. Used(w, d) + Need(Resources[o], d) <= Left(inventory, d)
    BY <1>1, <1>2, <2>2, AllocFits, Zenon DEF n
  <2>6. Used(Reserved \cup {o}, d) = Need(Resources[o], d) + Used(Reserved, d)
    BY <1>2, <2>3, UsedFacts, Zenon
  <2>7. Used(Reserved, d) \in Nat /\ Used(w, d) \in Nat /\ Used(sampled, d) \in Nat
    BY <1>1, <2>3, UsedFacts, Zenon
  <2>8. Need(Resources[o], d) \in Nat
    <3>1. Resources[o] \in Seq(Resource)
      BY InventoryAssumption, Zenon
    <3> QED BY <3>1, NeedNat, Zenon
  <2>9. Left(inventory, d) \in Nat
    BY <1>1, LeftNat, Zenon
  <2>10. Capacity[d] \in Nat
    BY InventoryAssumption, Zenon
  <2>11. Left(inventory, d) + Used(sampled, d) <= Capacity[d]
    BY <1>1, Zenon
  <2>12. Used(Reserved \cup {o}, d) <= Capacity[d]
    BY <2>4, <2>5, <2>6, <2>7, <2>8, <2>9, <2>10, <2>11
  <2> QED BY <1>9, <2>12, Zenon
<1>11. OvercommitOnlyIfUnseen'
  <2>1. \A d \in Dims : Used(Reserved, d)' = Used(Reserved', d)
    BY Zenon DEF Used
  <2> QED BY <1>10, <2>1, Zenon DEF OvercommitOnlyIfUnseen
<1>12. InventoryTypes'
  <2>1. unseen' \in BOOLEAN
    BY <1>1, <1>2, Zenon
  <2> QED BY <1>2, <1>4, <2>1, Zenon DEF InventoryInv, InventoryTypes
<1>13. /\ Workloads(running)'
       /\ (check = None \/ (check = [saw |-> check.saw] /\ Workloads(check.saw)))'
       /\ (\A d \in Dims : Left(inventory, d) + Used(sampled, d) <= Capacity[d])'
  BY <1>2, Zenon DEF InventoryInv, Workloads, Used, Left, None
<1> QED BY <1>8, <1>11, <1>12, <1>13, Zenon DEF InventoryInv

\* What the other steps of the loop and of the cluster leave as it is.
LEMMA ReservedSame ==
    ASSUME InventoryInv, unseen' = unseen, Reserved' \subseteq Reserved
    PROVE  OvercommitOnlyIfUnseen'
<1> SUFFICES ASSUME ~unseen, NEW d \in Dims PROVE Used(Reserved', d) <= Capacity[d]
  <2>1. \A d \in Dims : Used(Reserved, d)' = Used(Reserved', d)
    BY Zenon DEF Used
  <2> QED BY <2>1, Zenon DEF OvercommitOnlyIfUnseen
<1>1. Used(Reserved, d) <= Capacity[d]
  BY Zenon DEF InventoryInv, OvercommitOnlyIfUnseen
<1>2. Reserved \in SUBSET Orders /\ IsFiniteSet(Reserved) /\ Reserved' \in SUBSET Reserved
  BY ReservedFacts, Zenon DEF InventoryInv, InventoryTypes
<1> QED BY <1>1, <1>2, FewerReserved, Zenon

\* The part of s before place f and the part after it.
Cut(s, f) == SubSeq(s, 1, f - 1) \o SubSeq(s, f + 1, Len(s))

\* t is s without its element at place f.
Without(t, s, f) ==
    /\ DOMAIN t = 1 .. Len(s) - 1
    /\ \A i \in 1 .. Len(s) - 1 : t[i] = s[IF i < f THEN i ELSE i + 1]

\* The two parts make up such a sequence.
LEMMA TakenOut ==
    ASSUME NEW S, NEW s \in Seq(S), NEW f \in 1 .. Len(s)
    PROVE  Cut(s, f) \in Seq(S) /\ Without(Cut(s, f), s, f)
<1>0. PICK t : t = Cut(s, f)
  BY Zenon
<1>1. ASSUME NEW x \in Seq(S), NEW y \in Seq(S)
      PROVE  /\ x \o y \in Seq(S)
             /\ Len(x \o y) = Len(x) + Len(y)
             /\ \A i \in 1 .. Len(x) : (x \o y)[i] = x[i]
             /\ \A j \in 1 .. Len(y) : (x \o y)[Len(x) + j] = y[j]
  <2>1. x \o y \in Seq(S)
    BY SMTT(20)
  <2>2. Len(x \o y) = Len(x) + Len(y)
    BY SMTT(20)
  <2>3. \A i \in 1 .. Len(x) : (x \o y)[i] = x[i]
    BY SMTT(20)
  <2>4. \A j \in 1 .. Len(y) : (x \o y)[Len(x) + j] = y[j]
    BY SMTT(20)
  <2> QED BY <2>1, <2>2, <2>3, <2>4, Zenon
<1>2. PICK n \in Nat : n = Len(s)
  OBVIOUS
<1>3. f \in 1 .. n
  BY <1>2, Zenon
<1>4. PICK p \in 0 .. n, q \in 0 .. n : p = f - 1 /\ q = f
  BY <1>3
<1>5. PICK u \in Seq(S) : u = SubSeq(s, 1, p) /\ Len(u) = p /\ \A i \in 1 .. p : u[i] = s[i]
  <2>1. SubSeq(s, 1, p) \in Seq(S)
    BY <1>2, SMTT(20)
  <2>2. Len(SubSeq(s, 1, p)) = p
    BY <1>2, SMTT(20)
  <2>3. \A i \in 1 .. p : SubSeq(s, 1, p)[i] = s[i]
    BY <1>2, SMTT(20)
  <2> QED BY <2>1, <2>2, <2>3, Zenon
<1>6. PICK v \in Seq(S) : v = SubSeq(s, q + 1, n) /\ Len(v) = n - q /\ \A j \in 1 .. n - q : v[j] = s[q + j]
  <2>1. SubSeq(s, q + 1, n) \in Seq(S)
    BY <1>2, SMTT(20)
  <2>2. Len(SubSeq(s, q + 1, n)) = n - q
    BY <1>2, SMTT(20)
  <2>3. \A j \in 1 .. n - q : SubSeq(s, q + 1, n)[j] = s[q + j]
    BY <1>2, SMTT(20)
  <2> QED BY <2>1, <2>2, <2>3, Zenon
<1>7. t = u \o v
  BY <1>0, <1>2, <1>4, <1>5, <1>6, Zenon DEF Cut
<1>8. /\ t \in Seq(S) /\ Len(t) = p + (n - q)
      /\ \A i \in 1 .. p : t[i] = u[i]
      /\ \A j \in 1 .. n - q : t[p + j] = v[j]
  <2>1. /\ u \o v \in Seq(S)
        /\ Len(u \o v) = Len(u) + Len(v)
        /\ \A i \in 1 .. Len(u) : (u \o v)[i] = u[i]
        /\ \A j \in 1 .. Len(v) : (u \o v)[Len(u) + j] = v[j]
    BY <1>1, Zenon
  <2>2. Len(u) = p /\ Len(v) = n - q
    BY <1>5, <1>6, Zenon
  <2> QED BY <1>7, <2>1, <2>2, Zenon
<1>9. p + (n - q) = n - 1
  BY <1>2, <1>3, <1>4
<1>10. DOMAIN t = 1 .. n - 1
  <2>1. DOMAIN t = 1 .. Len(t)
    BY <1>8
  <2> QED BY <1>8, <1>9, <2>1, Zenon
<1>11. ASSUME NEW i \in 1 .. n - 1 PROVE t[i] = s[IF i < f THEN i ELSE i + 1]
  <2>1. CASE i < f
    <3>1. i \in 1 .. p
      BY <1>2, <1>3, <1>4, <2>1
    <3>2. t[i] = u[i]
      BY <1>8, <3>1, Zenon
    <3> QED BY <1>5, <2>1, <3>1, <3>2, Zenon
  <2>2. CASE ~(i < f)
    <3>1. PICK j \in 1 .. n - q : i = p + j /\ q + j = i + 1
      <4>1. i - p \in 1 .. n - q /\ i = p + (i - p) /\ q + (i - p) = i + 1
        BY <1>2, <1>3, <1>4, <2>2
      <4> QED BY <4>1, Zenon
    <3>2. t[p + j] = v[j]
      BY <1>8, Zenon
    <3>3. t[i] = s[i + 1]
      BY <1>6, <3>1, <3>2, Zenon
    <3> QED BY <2>2, <3>3, Zenon
  <2> QED BY <2>1, <2>2, Zenon
<1> QED BY <1>0, <1>2, <1>8, <1>10, <1>11, Zenon DEF Without

\* A reservation that is taken out leaves the others as they are.
LEMMA UnreserveKeeps == ASSUME InventoryInv, NEW o \in Orders, Unreserve(o) PROVE InventoryInv'
<1> DEFINE n == Len(reservations)
           f == Find(o)
<1>1. reservations \in Seq(Reservation) /\ OncePerOrder(reservations)
  BY Zenon DEF InventoryInv, InventoryTypes
<1>2. /\ f # 0
      /\ reservations' = SubSeq(reservations, 1, f - 1) \o SubSeq(reservations, f + 1, n)
      /\ inventory' = inventory /\ check' = check /\ sampled' = sampled
      /\ events' = events /\ running' = running /\ unseen' = unseen
  BY Zenon DEF Unreserve, cluster
<1>3. n \in Nat /\ DOMAIN reservations = 1 .. n
  BY <1>1
<1>4. f \in 1 .. n
  BY <1>1, <1>2, <1>3, FindFacts, Zenon
<1> HIDE DEF f
<1> DEFINE At(i) == IF i < f THEN i ELSE i + 1
<1>5. /\ reservations' \in Seq(Reservation) /\ DOMAIN reservations' = 1 .. n - 1
      /\ \A i \in 1 .. n - 1 : reservations'[i] = reservations[At(i)]
  <2>1. reservations' = Cut(reservations, f)
    BY <1>2, Zenon DEF Cut
  <2>2. Cut(reservations, f) \in Seq(Reservation) /\ Without(Cut(reservations, f), reservations, f)
    BY <1>1, <1>4, TakenOut, Zenon
  <2> QED BY <2>1, <2>2, Zenon DEF Without
<1> HIDE DEF n
<1>6. /\ \A i \in 1 .. n - 1 : At(i) \in 1 .. n
      /\ \A i, j \in 1 .. n - 1 : At(i) = At(j) => i = j
  BY <1>3, <1>4
<1> HIDE DEF At
<1>7. OncePerOrder(reservations)'
  <2>1. ASSUME NEW i \in 1 .. n - 1, NEW j \in 1 .. n - 1, reservations'[i].order = reservations'[j].order
        PROVE  i = j
    <3>1. PICK p \in 1 .. n, q \in 1 .. n : p = At(i) /\ q = At(j)
      BY <1>6, Zenon
    <3>2. reservations[p].order = reservations[q].order
      BY <1>5, <2>1, <3>1, Zenon
    <3>3. p = q
      BY <1>1, <1>3, <3>2, Zenon DEF OncePerOrder
    <3> QED BY <1>6, <3>1, <3>3, Zenon
  <2> QED BY <1>5, <2>1, Zenon DEF OncePerOrder
<1>8. Reserved' \subseteq Reserved
  <2>1. ASSUME NEW i \in 1 .. n - 1 PROVE reservations'[i].order \in Reserved
    <3>1. PICK p \in 1 .. n : reservations'[i] = reservations[p]
      BY <1>5, <1>6, Zenon
    <3> QED BY <1>3, <3>1, Zenon DEF Reserved, Range
  <2>2. Reserved' = {reservations'[i].order : i \in 1 .. n - 1}
    BY <1>5, Zenon DEF Reserved, Range
  <2> QED BY <2>1, <2>2, Zenon
<1>9. OvercommitOnlyIfUnseen'
  BY <1>2, <1>8, ReservedSame, Zenon
<1>10. InventoryTypes'
  BY <1>2, <1>5, Zenon DEF InventoryInv, InventoryTypes
<1>11. /\ Workloads(running)'
       /\ (check = None \/ (check = [saw |-> check.saw] /\ Workloads(check.saw)))'
       /\ (\A d \in Dims : Left(inventory, d) + Used(sampled, d) <= Capacity[d])'
  BY <1>2, Zenon DEF InventoryInv, Workloads, Used, Left, None
<1> QED BY <1>7, <1>9, <1>10, <1>11, Zenon DEF InventoryInv

\* A status event changes a mark, and no order.
LEMMA TakeEventKeeps == ASSUME InventoryInv, TakeEvent PROVE InventoryInv'
<1> DEFINE n == Len(reservations)
           ev == Head(events)
<1>1. /\ reservations \in Seq(Reservation) /\ OncePerOrder(reservations)
      /\ events \in Seq([order : Orders, deployed : BOOLEAN])
  BY Zenon DEF InventoryInv, InventoryTypes
<1>2. /\ events # << >> /\ events' = Tail(events)
      /\ inventory' = inventory /\ check' = check /\ sampled' = sampled
      /\ running' = running /\ unseen' = unseen
  BY Zenon DEF TakeEvent
<1>3. events' \in Seq([order : Orders, deployed : BOOLEAN]) /\ ev.deployed \in BOOLEAN
  <2>1. PICK E : E = [order : Orders, deployed : BOOLEAN]
    BY Zenon
  <2>2. PICK es \in Seq(E) : es = events
    BY <1>1, <2>1, Zenon
  <2>3. es # << >> => Head(es) \in E /\ Tail(es) \in Seq(E)
    OBVIOUS
  <2>4. \A e \in E : e.deployed \in BOOLEAN
    BY <2>1
  <2> QED BY <1>2, <2>1, <2>2, <2>3, <2>4, Zenon
<1>4. n \in Nat /\ DOMAIN reservations = 1 .. n
  BY <1>1
<1>5. /\ reservations' \in Seq(Reservation) /\ DOMAIN reservations' = 1 .. n
      /\ \A i \in 1 .. n : reservations'[i].order = reservations[i].order
  <2>1. PICK f : f = Find(ev.order)
    BY Zenon
  <2>2. CASE f = 0
    <3>1. reservations' = reservations
      BY <2>1, <2>2, Zenon DEF TakeEvent
    <3> QED BY <1>1, <1>4, <3>1, Zenon
  <2>3. CASE f # 0
    <3>1. f \in 1 .. n
      BY <1>1, <1>4, <2>1, <2>3, FindFacts, Zenon
    <3>2. reservations' = [reservations EXCEPT ![f].allocated = ev.deployed]
      BY <2>1, <2>3, Zenon DEF TakeEvent, Deployed
    <3>3. \A r \in Reservation, v \in BOOLEAN :
             [r EXCEPT !.allocated = v] \in Reservation /\ [r EXCEPT !.allocated = v].order = r.order
      BY DEF Reservation
    <3>4. PICK x \in Reservation : x = [reservations[f] EXCEPT !.allocated = ev.deployed]
                                   /\ x.order = reservations[f].order
      <4>1. reservations[f] \in Reservation
        BY <1>1, <3>1
      <4> QED BY <1>3, <3>3, <4>1, Zenon
    <3>5. reservations' = [reservations EXCEPT ![f] = x]
      BY <3>2, <3>4, Zenon
    <3> QED BY <1>1, <3>1, <3>4, <3>5
  <2> QED BY <2>2, <2>3, Zenon
<1> HIDE DEF n
<1>6. OncePerOrder(reservations)'
  BY <1>1, <1>4, <1>5, Zenon DEF OncePerOrder
<1>7. Reserved' \subseteq Reserved
  BY <1>4, <1>5, Zenon DEF Reserved, Range
<1>8. OvercommitOnlyIfUnseen'
  BY <1>2, <1>7, ReservedSame, Zenon
<1>9. InventoryTypes'
  BY <1>2, <1>3, <1>5, Zenon DEF InventoryInv, InventoryTypes
<1>10. /\ Workloads(running)'
       /\ (check = None \/ (check = [saw |-> check.saw] /\ Workloads(check.saw)))'
       /\ (\A d \in Dims : Left(inventory, d) + Used(sampled, d) <= Capacity[d])'
  BY <1>2, Zenon DEF InventoryInv, Workloads, Used, Left, None
<1> QED BY <1>6, <1>8, <1>9, <1>10, Zenon DEF InventoryInv

\* The orders that are reserved, and what was accepted when, stay as they are.
Keeps == reservations' = reservations /\ unseen' = unseen

\* A step that leaves the reservations alone keeps what the invariant says of them.
LEMMA KeepsReserved ==
    ASSUME InventoryInv, Keeps
    PROVE  /\ reservations' \in Seq(Reservation) /\ OncePerOrder(reservations)' /\ unseen' \in BOOLEAN
           /\ OvercommitOnlyIfUnseen'
<1>1. Reserved' \subseteq Reserved
  BY Zenon DEF Keeps, Reserved
<1>2. OvercommitOnlyIfUnseen'
  BY <1>1, ReservedSame, Zenon DEF Keeps
<1> QED BY <1>2, Zenon DEF Keeps, InventoryInv, InventoryTypes

\* A check that succeeds leaves room for the workloads that it counted in full.
LEMMA CheckedKeeps ==
    ASSUME InventoryInv, NEW full \in SUBSET Orders, NEW free \in Available, Checked(full, free)
    PROVE  InventoryInv'
<1>1. /\ Keeps /\ events' = events /\ running' = running /\ check' = None /\ check # None
      /\ inventory' = <<free>> /\ sampled' = full /\ full \subseteq check.saw
      /\ \A d \in Dims : free[d] + Used(full, d) <= Capacity[d]
  BY Zenon DEF Checked, Keeps, cluster
<1>2. /\ reservations' \in Seq(Reservation) /\ OncePerOrder(reservations)' /\ unseen' \in BOOLEAN
      /\ OvercommitOnlyIfUnseen'
  BY <1>1, KeepsReserved, Zenon
<1>3. Workloads(running)' /\ events' \in Seq([order : Orders, deployed : BOOLEAN])
  BY <1>1, Zenon DEF InventoryInv, InventoryTypes, Workloads
<1>4. IsFiniteSet(full)
  BY <1>1, FS_Subset, Zenon DEF InventoryInv, Workloads
<1>5. free \in [Dims -> Nat]
  <2>1. \A d \in Dims : 0 .. Capacity[d] \subseteq Nat
    <3>1. \A n \in Nat : 0 .. n \subseteq Nat
      OBVIOUS
    <3> QED BY <3>1, InventoryAssumption, Zenon
  <2>2. free \in [Dims -> UNION {0 .. Capacity[d] : d \in Dims}]
    BY DEF Available
  <2>3. ASSUME NEW n \in UNION {0 .. Capacity[d] : d \in Dims} PROVE n \in Nat
    <3>1. PICK d \in Dims : n \in 0 .. Capacity[d]
      OBVIOUS
    <3> QED BY <2>1, <3>1, Zenon
  <2> QED BY <2>2, <2>3, Zenon
<1>6. \A d \in Dims : Left(<<free>>, d) = free[d]
  BY DEF Left
<1>7. <<free>> \in Inventories
  BY <1>5, Zenon DEF Inventories
<1>8. (\A d \in Dims : Left(inventory, d) + Used(sampled, d) <= Capacity[d])'
  BY <1>1, <1>6, Zenon DEF Left, Used
<1>9. InventoryTypes'
  BY <1>1, <1>2, <1>3, <1>4, <1>7, Zenon DEF InventoryTypes
<1>10. (check = None)'
  BY <1>1, Zenon DEF None
<1> QED BY <1>2, <1>3, <1>8, <1>9, <1>10, Zenon DEF InventoryInv

\* The steps of the cluster, of the check and of the shutdown leave reservations alone.
LEMMA OthersKeep ==
    ASSUME InventoryInv, Keeps, inventory' = inventory, sampled' = sampled,
           events' \in Seq([order : Orders, deployed : BOOLEAN]),
           Workloads(running'), check' = check \/ check' = None \/ check' = [saw |-> running]
    PROVE  InventoryInv'
<1>1. /\ reservations' \in Seq(Reservation) /\ OncePerOrder(reservations)' /\ unseen' \in BOOLEAN
      /\ OvercommitOnlyIfUnseen'
  BY KeepsReserved, Zenon
<1>2. InventoryTypes'
  BY <1>1, Zenon DEF InventoryInv, InventoryTypes
<1>3. (\A d \in Dims : Left(inventory, d) + Used(sampled, d) <= Capacity[d])'
  BY Zenon DEF InventoryInv, Left, Used
<1>4. Workloads(running)'
  BY Zenon DEF Workloads, Used
<1>5. PICK c : c = check'
  BY Zenon
<1>6. c = None \/ (c = [saw |-> c.saw] /\ Workloads(c.saw))
  <2>1. CASE c = check
    BY <2>1, Zenon DEF InventoryInv
  <2>2. CASE c = [saw |-> running]
    <3>1. c.saw = running /\ Workloads(running)
      BY <2>2, Zenon DEF InventoryInv
    <3> QED BY <2>2, <3>1, Zenon
  <2> QED BY <1>5, <2>1, <2>2, Zenon
<1>7. (check = None \/ (check = [saw |-> check.saw] /\ Workloads(check.saw)))'
  BY <1>5, <1>6, Zenon DEF None, Workloads, Used
<1> QED BY <1>1, <1>2, <1>3, <1>4, <1>7, Zenon DEF InventoryInv

\* Every step keeps the invariant.
LEMMA InventoryInvNext == ASSUME InventoryInv, [Next]_vars PROVE InventoryInv'
<1>1. Workloads(running) /\ events \in Seq([order : Orders, deployed : BOOLEAN])
  BY Zenon DEF InventoryInv, InventoryTypes
<1>2. ASSUME NEW o \in Orders, Reserve(o) PROVE InventoryInv'
  BY <1>2, ReserveKeeps, Zenon
<1>3. ASSUME NEW o \in Orders, Unreserve(o) PROVE InventoryInv'
  BY <1>3, UnreserveKeeps, Zenon
<1>4. CASE TakeEvent
  BY <1>4, TakeEventKeeps, Zenon
<1>5. ASSUME NEW full \in SUBSET Orders, NEW free \in Available, Checked(full, free)
      PROVE  InventoryInv'
  BY <1>5, CheckedKeeps, Zenon
<1>6. CASE Check \/ CheckFailed
  BY <1>1, <1>6, OthersKeep, Zenon DEF Check, CheckFailed, Keeps, cluster
<1>7. CASE Shutdown \/ ShutdownCompleted
  BY <1>1, <1>7, OthersKeep, Zenon DEF Shutdown, ShutdownCompleted, Keeps, cluster
<1>8. ASSUME NEW o \in Orders, WorkloadStarts(o) PROVE InventoryInv'
  <2>1. IsFiniteSet(running \cup {o})
    BY <1>1, FS_AddElement, Zenon DEF Workloads
  <2>2. Workloads(running \cup {o})
    BY <1>1, <2>1, Zenon DEF Workloads
  <2> QED BY <1>1, <1>8, <2>2, OthersKeep, Zenon DEF WorkloadStarts, Keeps
<1>9. ASSUME NEW o \in Orders, WorkloadStops(o) PROVE InventoryInv'
  <2>1. PICK S : S = running \ {o}
    BY Zenon
  <2>2. Workloads(S)
    BY <1>1, <2>1, FS_Subset, Zenon DEF Workloads
  <2> QED BY <1>1, <1>9, <2>1, <2>2, OthersKeep, Zenon DEF WorkloadStops, Keeps
<1>10. ASSUME NEW o \in Orders, Report(o) \/ GiveUp(o) PROVE InventoryInv'
  <2>1. PICK E : E = [order : Orders, deployed : BOOLEAN]
    BY Zenon
  <2>2. PICK e \in E : events' = Append(events, e)
    <3>1. [order |-> o, deployed |-> o \in running] \in E /\ [order |-> o, deployed |-> FALSE] \in E
      BY <2>1
    <3> QED BY <1>10, <3>1, Zenon DEF Report, GiveUp
  <2>3. events' \in Seq(E)
    <3>1. \A s \in Seq(E) : Append(s, e) \in Seq(E)
      OBVIOUS
    <3> QED BY <1>1, <2>1, <2>2, <3>1, Zenon
  <2> QED BY <1>1, <1>10, <2>1, <2>3, OthersKeep, Zenon DEF Report, GiveUp, Keeps
<1>12. ASSUME NEW o \in Orders, Redeployed(o) PROVE InventoryInv'
  BY <1>1, <1>12, OthersKeep, Zenon DEF Redeployed, Keeps
<1>11. CASE UNCHANGED vars
  BY <1>1, <1>11, OthersKeep, Zenon DEF vars, cluster, Keeps
<1> QED
  BY <1>2, <1>3, <1>4, <1>5, <1>6, <1>7, <1>8, <1>9, <1>10, <1>11, <1>12, Zenon DEF Next

\* The reservations that the inventory service has accepted together fit into the node, however
\* many orders there are, whatever they ask for and however reports, checks and workloads
\* interleave, unless one was accepted while another was marked allocated and not counted in full
\* by the last check.
THEOREM OvercommitsOnlyIfUnseen == Spec => []OvercommitOnlyIfUnseen
<1>1. Init => InventoryInv
  BY InventoryInvInit
<1>2. InventoryInv /\ [Next]_vars => InventoryInv'
  BY InventoryInvNext
<1>3. InventoryInv => OvercommitOnlyIfUnseen
  BY DEF InventoryInv
<1> QED BY <1>1, <1>2, <1>3, PTL DEF Spec

=============================================================================
