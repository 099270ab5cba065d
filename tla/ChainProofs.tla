---------------------------- MODULE ChainProofs -----------------------------
(***************************************************************************)
(* What holds of the application state machine of Chain for every number   *)
(* of tenants, providers, deployments and blocks.  First come lemmas on    *)
(* sums and stores, type correctness of every action, the numbering of     *)
(* orders, and that every message keeps the inductive invariant; then the  *)
(* end of a block, and the theorems; last, what the providers have earned. *)
(***************************************************************************)
EXTENDS Chain, FiniteSetTheorems, TLAPS

-----------------------------------------------------------------------------
(* Sums over finite sets *)

\* A set of natural numbers has a least element.
LEMMA LeastNat ==
    ASSUME NEW T, T \subseteq Nat, T # {}
    PROVE  \E n \in T : \A m \in T : n <= m
<1> DEFINE R == {ss \in Nat \X Nat : ss[1] < ss[2]}
<1>1. IsWellFoundedOn(R, Nat)
  BY NatLessThanWellFounded DEF OpToRel
<1>2. \A m, n \in Nat : m < n => <<m, n>> \in R
  OBVIOUS
<1> HIDE DEF R
<1>3. PICK x \in T : \A y \in T : ~(<<y, x>> \in R)
  BY <1>1, WFMin, Zenon
<1>4. ASSUME NEW y \in T PROVE x <= y
  <2>1. x \in Nat /\ y \in Nat /\ ~(y < x)
    BY <1>2, <1>3, Zenon
  <2> QED BY <2>1
<1> QED BY <1>3, <1>4

\* No member of B is a proper subset of s.
IsMinimal(s, B) == \A t \in B : t \subseteq s => t = s

\* Of the subsets of a finite set, some one is minimal.
LEMMA MinimalSubset ==
    ASSUME NEW S, IsFiniteSet(S), NEW B \in SUBSET SUBSET S, B # {}
    PROVE  \E s \in B : IsMinimal(s, B)
<1> DEFINE T == {Cardinality(s) : s \in B}
<1>1. \A s \in B : IsFiniteSet(s) /\ Cardinality(s) \in Nat
  BY FS_Subset, FS_CardinalityType, Zenon
<1>2. PICK n \in T : \A m \in T : n <= m
  <2>1. T \subseteq Nat /\ T # {}
    BY <1>1, Zenon
  <2> HIDE DEF T
  <2> QED BY <2>1, LeastNat, Zenon
<1>3. PICK s \in B : Cardinality(s) = n
  BY <1>2, Zenon
<1>4. ASSUME NEW t \in B, t \subseteq s, t # s PROVE FALSE
  <2>1. Cardinality(t) < Cardinality(s)
    BY <1>1, <1>4, FS_Subset
  <2>2. n <= Cardinality(t) /\ n \in Nat /\ Cardinality(t) \in Nat
    BY <1>1, <1>2, <1>3, Zenon
  <2> QED BY <1>3, <2>1, <2>2
<1> QED BY <1>3, <1>4, Zenon DEF IsMinimal

\* The element of s that a sum over s takes first, and what it then adds up.
First(s) == CHOOSE x \in s : TRUE
Others(s) == s \ {First(s)}
Adds(f, h, s) == IF s = {} THEN 0 ELSE f[First(s)] + h[Others(s)]
IsSum(f, h, S) == h = [s \in SUBSET S |-> Adds(f, h, s)]

\* A sum takes some element and leaves fewer.
LEMMA FirstFacts ==
    ASSUME NEW s, s # {}
    PROVE  First(s) \in s /\ Others(s) \subseteq s /\ Others(s) # s
BY DEF First, Others

\* The sum as the library defines it: the solution of the recursion, at S.
LEMMA SumUnfolds ==
    ASSUME NEW f, NEW S
    PROVE  SumFunctionOnSet(f, S) = (CHOOSE h : IsSum(f, h, S))[S]
BY Zenon DEF SumFunctionOnSet, FoldFunctionOnSet, MapThenFoldSet, IsSum, Adds, First, Others

\* The recursion has one solution.
LEMMA SumUnique ==
    ASSUME NEW f, NEW S, IsFiniteSet(S), NEW h, IsSum(f, h, S), NEW k, IsSum(f, k, S)
    PROVE  h = k
<1> DEFINE B == {s \in SUBSET S : h[s] # k[s]}
<1>1. ASSUME NEW s \in SUBSET S
      PROVE  h[s] = Adds(f, h, s) /\ k[s] = Adds(f, k, s)
  BY Zenon DEF IsSum
<1>2. B = {}
  <2> SUFFICES ASSUME B # {} PROVE FALSE
    BY Zenon
  <2>0. PICK s \in B : IsMinimal(s, B)
    <3>1. B \in SUBSET SUBSET S
      BY Zenon
    <3> HIDE DEF B
    <3> QED BY <3>1, MinimalSubset, Zenon
  <2>1. \A t \in B : t \subseteq s => t = s
    BY <2>0, Zenon DEF IsMinimal
  <2>2. s # {}
    BY <1>1, Zenon DEF Adds
  <2>3. Others(s) \in SUBSET S /\ Others(s) \notin B
    BY <2>1, <2>2, FirstFacts, Zenon
  <2> QED BY <1>1, <2>3, Zenon DEF Adds
<1>3. \A s \in SUBSET S : h[s] = k[s]
  BY <1>2, Zenon
<1>4. h = [s \in SUBSET S |-> h[s]] /\ k = [s \in SUBSET S |-> k[s]]
  BY Zenon DEF IsSum
<1> QED BY <1>3, <1>4, Zenon

\* The sum over a finite set, one element at a time.
LEMMA SumRecursion ==
    ASSUME NEW f, NEW S, IsFiniteSet(S)
    PROVE  SumFunctionOnSet(f, S) =
              IF S = {} THEN 0 ELSE f[First(S)] + SumFunctionOnSet(f, Others(S))
<1> DEFINE V(s) == SumFunctionOnSet(f, s)
           Upto(s) == [t \in SUBSET s |-> V(t)]
           B == {s \in SUBSET S : ~IsSum(f, Upto(s), s)}
<1> HIDE DEF V
<1>1. ASSUME NEW s, IsSum(f, Upto(s), s)
      PROVE  V(s) = IF s = {} THEN 0 ELSE f[First(s)] + V(Others(s))
  <2>1. s \in SUBSET s /\ (s # {} => Others(s) \in SUBSET s)
    BY FirstFacts, Zenon
  <2>2. Upto(s)[s] = Adds(f, Upto(s), s)
    BY <1>1, <2>1, Zenon DEF IsSum
  <2>3. Upto(s)[s] = V(s) /\ (s # {} => Upto(s)[Others(s)] = V(Others(s)))
    BY <2>1, Zenon
  <2> QED BY <2>2, <2>3, Zenon DEF Adds
<1>2. B = {}
  <2> SUFFICES ASSUME B # {} PROVE FALSE
    BY Zenon
  <2>0. PICK s \in B : IsMinimal(s, B)
    <3>1. B \in SUBSET SUBSET S
      BY Zenon
    <3> HIDE DEF B
    <3> QED BY <3>1, MinimalSubset, Zenon
  <2>1. \A t \in B : t \subseteq s => t = s
    BY <2>0, Zenon DEF IsMinimal
  <2>2. ASSUME NEW t \in SUBSET s, t # s
        PROVE  V(t) = IF t = {} THEN 0 ELSE f[First(t)] + V(Others(t))
    <3>1. IsSum(f, Upto(t), t)
      BY <2>1, <2>2, Zenon
    <3> QED BY <1>1, <3>1, Zenon
  <2> DEFINE g == [t \in SUBSET s |-> IF t = s THEN (IF s = {} THEN 0 ELSE f[First(s)] + V(Others(s))) ELSE V(t)]
  <2>3. ASSUME NEW t \in SUBSET s PROVE g[t] = Adds(f, g, t)
    <3>1. t # {} => Others(t) \in SUBSET s /\ Others(t) # s
      BY FirstFacts, Zenon
    <3>2. t # {} => g[Others(t)] = V(Others(t))
      BY <3>1, Zenon
    <3>3. g[t] = IF t = {} THEN 0 ELSE f[First(t)] + V(Others(t))
      BY <2>2, Zenon
    <3> HIDE DEF g
    <3> QED BY <3>2, <3>3, Zenon DEF Adds
  <2>4. IsSum(f, g, s)
    <3>1. g = [t \in SUBSET s |-> g[t]]
      BY Zenon
    <3> HIDE DEF g
    <3> QED BY <2>3, <3>1, Zenon DEF IsSum
  <2> HIDE DEF g
  <2>5. IsFiniteSet(s)
    BY <2>1, FS_Subset, Zenon
  <2>6. (CHOOSE h : IsSum(f, h, s)) = g
    <3>1. IsSum(f, CHOOSE h : IsSum(f, h, s), s)
      BY <2>4, Zenon
    <3> QED BY <2>4, <2>5, <3>1, SumUnique, Zenon
  <2>7. V(s) = g[s]
    BY <2>6, SumUnfolds, Zenon DEF V
  <2>8. g = Upto(s)
    <3>1. \A t \in SUBSET s : g[t] = V(t)
      BY <2>7, Zenon DEF g
    <3>2. g = [t \in SUBSET s |-> g[t]]
      BY Zenon DEF g
    <3> QED BY <3>1, <3>2, Zenon
  <2> QED BY <2>1, <2>4, <2>8, Zenon
<1>3. IsSum(f, Upto(S), S)
  BY <1>2, Zenon
<1> QED BY <1>1, <1>3, Zenon DEF V

\* f gives a number to each of finitely many elements.
Addable(f, S) == IsFiniteSet(S) /\ \A x \in S : f[x] \in Nat

\* A sum may take any element first.
LEMMA SumTakes ==
    ASSUME NEW f, NEW S, Addable(f, S)
    PROVE  /\ SumFunctionOnSet(f, S) \in Nat
           /\ \A x \in S : SumFunctionOnSet(f, S) = f[x] + SumFunctionOnSet(f, S \ {x})
<1> SUFFICES ASSUME IsFiniteSet(S), \A x \in S : f[x] \in Nat
             PROVE  /\ SumFunctionOnSet(f, S) \in Nat
                    /\ \A x \in S : SumFunctionOnSet(f, S) = f[x] + SumFunctionOnSet(f, S \ {x})
  BY Zenon DEF Addable
<1> DEFINE V(s) == SumFunctionOnSet(f, s)
           Good(s) == V(s) \in Nat /\ \A x \in s : V(s) = f[x] + V(s \ {x})
           B == {s \in SUBSET S : ~Good(s)}
<1>1. ASSUME NEW s \in SUBSET S
      PROVE  V(s) = IF s = {} THEN 0 ELSE f[First(s)] + V(Others(s))
  BY FS_Subset, SumRecursion, Zenon
<1> HIDE DEF V
<1>2. B = {}
  <2> SUFFICES ASSUME B # {} PROVE FALSE
    BY Zenon
  <2>0. PICK s \in B : IsMinimal(s, B)
    <3>1. B \in SUBSET SUBSET S
      BY Zenon
    <3> HIDE DEF B
    <3> QED BY <3>1, MinimalSubset, Zenon
  <2>1. \A t \in B : t \subseteq s => t = s
    BY <2>0, Zenon DEF IsMinimal
  <2>2. \A t \in SUBSET s : t # s => Good(t)
    BY <2>1, Zenon
  <2>3. CASE s = {}
    <3>1. V(s) = 0
      BY <1>1, <2>3, Zenon
    <3> QED BY <2>1, <2>3, <3>1
  <2>4. CASE s # {}
    <3>1. PICK c \in s : c = First(s) /\ s \ {c} = Others(s) /\ s \ {c} # s
      BY <2>4, FirstFacts, Zenon DEF Others
    <3>2. V(s) = f[c] + V(s \ {c})
      BY <1>1, <2>4, <3>1, Zenon
    <3>3. Good(s \ {c}) /\ f[c] \in Nat
      BY <2>2, <3>1, Zenon
    <3>4. V(s) \in Nat
      BY <3>2, <3>3
    <3>5. ASSUME NEW x \in s, x # c PROVE V(s) = f[x] + V(s \ {x})
      <4>1. V(s \ {c}) = f[x] + V((s \ {c}) \ {x})
        BY <3>3, <3>5, Zenon
      <4>2. V(s \ {x}) = f[c] + V((s \ {x}) \ {c})
        BY <2>2, <3>5, Zenon
      <4>3. (s \ {x}) \ {c} = (s \ {c}) \ {x}
        OBVIOUS
      <4>4. V((s \ {c}) \ {x}) \in Nat /\ f[x] \in Nat /\ f[c] \in Nat
        BY <2>2, <3>1, <3>5
      <4> QED BY <3>2, <4>1, <4>2, <4>3, <4>4
    <3> QED BY <2>1, <3>2, <3>4, <3>5, Zenon
  <2> QED BY <2>3, <2>4
<1>3. Good(S)
  BY <1>2, Zenon
<1> QED BY <1>3, Zenon DEF V

\* f is g on T, and zero on the rest of S.
Extends(f, S, g, T) ==
    /\ Addable(f, S) /\ T \subseteq S
    /\ \A x \in T : f[x] = g[x]
    /\ \A x \in S \ T : f[x] = 0

\* What is zero adds nothing.
LEMMA SumSame ==
    ASSUME NEW f, NEW S, NEW g, NEW T, Extends(f, S, g, T)
    PROVE  SumFunctionOnSet(f, S) = SumFunctionOnSet(g, T)
<1> SUFFICES ASSUME IsFiniteSet(S), \A x \in S : f[x] \in Nat, T \subseteq S,
                    \A x \in T : f[x] = g[x], \A x \in S \ T : f[x] = 0
             PROVE  SumFunctionOnSet(f, S) = SumFunctionOnSet(g, T)
  BY Zenon DEF Extends, Addable
<1> DEFINE F(s) == SumFunctionOnSet(f, s)
           G(s) == SumFunctionOnSet(g, s)
           B == {s \in SUBSET S : F(s) # G(s \cap T)}
<1>1. ASSUME NEW s \in SUBSET S
      PROVE  F(s) = IF s = {} THEN 0 ELSE f[First(s)] + F(Others(s))
  BY FS_Subset, SumRecursion, Zenon
<1>2. ASSUME NEW s \in SUBSET S
      PROVE  G(s \cap T) \in Nat /\ \A x \in s \cap T : G(s \cap T) = g[x] + G((s \cap T) \ {x})
  <2>1. PICK u : u = s \cap T
    BY Zenon
  <2>2. Addable(g, u)
    <3>1. u \subseteq S /\ u \subseteq T
      BY <2>1
    <3>2. IsFiniteSet(u)
      BY <3>1, FS_Subset, Zenon
    <3> QED BY <3>1, <3>2, Zenon DEF Addable
  <2>3. G(u) \in Nat /\ \A x \in u : G(u) = g[x] + G(u \ {x})
    BY <2>2, SumTakes, SMTT(20)
  <2> QED BY <2>1, <2>3, Zenon
<1>3. G({}) = 0
  BY FS_EmptySet, SumRecursion, Zenon
<1> HIDE DEF F, G
<1>4. B = {}
  <2> SUFFICES ASSUME B # {} PROVE FALSE
    BY Zenon
  <2>0. PICK s \in B : IsMinimal(s, B)
    <3>1. B \in SUBSET SUBSET S
      BY Zenon
    <3> HIDE DEF B
    <3> QED BY <3>1, MinimalSubset, Zenon
  <2>1. \A t \in B : t \subseteq s => t = s
    BY <2>0, Zenon DEF IsMinimal
  <2>2. s # {}
    <3>1. {} \cap T = {}
      OBVIOUS
    <3> QED BY <1>1, <1>3, <2>1, <3>1, Zenon
  <2>3. PICK c \in s : c = First(s) /\ s \ {c} = Others(s) /\ s \ {c} # s
    BY <2>2, FirstFacts, Zenon DEF Others
  <2>4. F(s) = f[c] + F(s \ {c})
    BY <1>1, <2>2, <2>3, Zenon
  <2>5. F(s \ {c}) = G((s \ {c}) \cap T)
    BY <2>1, <2>3, Zenon
  <2>6. CASE c \in T
    <3>1. G(s \cap T) = g[c] + G((s \cap T) \ {c})
      BY <1>2, <2>6, Zenon
    <3>2. (s \cap T) \ {c} = (s \ {c}) \cap T
      OBVIOUS
    <3> QED BY <2>1, <2>4, <2>5, <2>6, <3>1, <3>2, Zenon
  <2>7. CASE c \notin T
    <3>1. (s \ {c}) \cap T = s \cap T /\ f[c] = 0
      BY <2>7
    <3>2. G(s \cap T) \in Nat
      BY <1>2, Zenon
    <3>3. F(s) = 0 + G(s \cap T)
      BY <2>4, <2>5, <3>1, Zenon
    <3>4. F(s) = G(s \cap T)
      BY <3>2, <3>3
    <3> QED BY <2>1, <3>4, Zenon
  <2> QED BY <2>6, <2>7
<1>5. S \cap T = T
  OBVIOUS
<1>6. F(S) = G(S \cap T)
  BY <1>4, Zenon
<1> QED BY <1>5, <1>6, Zenon DEF F, G

-----------------------------------------------------------------------------
(* Stores *)

\* Writing one key keeps a store a store (KVStore.Set).
LEMMA PutIsStore ==
    ASSUME NEW S, NEW K, NEW V, IsStore(S, K, V), NEW k \in K, NEW v \in V
    PROVE  IsStore(Put(S, k, v), K, V)
BY Zenon DEF IsStore, Put

\* Writing a set of keys keeps a store a store.
LEMMA PutAllIsStore ==
    ASSUME NEW S, NEW K, NEW V, IsStore(S, K, V), NEW ks \in SUBSET K, NEW vs \in [ks -> V]
    PROVE  IsStore(PutAll(S, ks, vs), K, V)
BY Zenon DEF IsStore, PutAll

\* Assigning a state to some records of a store changes neither its keys nor the
\* other records.
LEMMA SetStatesValue ==
    ASSUME NEW S, NEW ks, NEW s
    PROVE  /\ DOMAIN SetStates(S, ks, s) = DOMAIN S
           /\ \A k \in DOMAIN S :
                 /\ k \in ks => SetStates(S, ks, s)[k] = [S[k] EXCEPT !.state = s]
                 /\ k \notin ks => SetStates(S, ks, s)[k] = S[k]
BY Zenon DEF SetStates

\* It keeps a store of groups well typed.
LEMMA SetStatesGroup ==
    ASSUME NEW S, NEW K, NEW A, NEW B, IsStore(S, K, [state : A, spec : B]), NEW ks, NEW s \in A
    PROVE  IsStore(SetStates(S, ks, s), K, [state : A, spec : B])
BY Zenon DEF IsStore, SetStates

\* The same for a store of orders.
LEMMA SetStatesOrder ==
    ASSUME NEW S, NEW K, NEW A, NEW B, NEW C, NEW ks, NEW s \in A,
           IsStore(S, K, [state : A, startAt : B, spec : C])
    PROVE  IsStore(SetStates(S, ks, s), K, [state : A, startAt : B, spec : C])
BY Zenon DEF IsStore, SetStates

\* The same for a store of bids or of leases.
LEMMA SetStatesBid ==
    ASSUME NEW S, NEW K, NEW A, NEW B, IsStore(S, K, [state : A, price : B]), NEW ks, NEW s \in A
    PROVE  IsStore(SetStates(S, ks, s), K, [state : A, price : B])
BY Zenon DEF IsStore, SetStates

\* It assigns the state of the records it names, and every other field stays.
LEMMA GroupFields ==
    ASSUME TypeOK, NEW ks, NEW s
    PROVE  /\ DOMAIN SetStates(groups, ks, s) = DOMAIN groups
           /\ \A k \in DOMAIN groups :
                 /\ SetStates(groups, ks, s)[k].spec = groups[k].spec
                 /\ SetStates(groups, ks, s)[k].state = IF k \in ks THEN s ELSE groups[k].state
BY DEF TypeOK, IsStore, SetStates

\* The same for orders.
LEMMA OrderFields ==
    ASSUME TypeOK, NEW ks, NEW s
    PROVE  /\ DOMAIN SetStates(orders, ks, s) = DOMAIN orders
           /\ \A k \in DOMAIN orders :
                 /\ SetStates(orders, ks, s)[k].spec = orders[k].spec
                 /\ SetStates(orders, ks, s)[k].startAt = orders[k].startAt
                 /\ SetStates(orders, ks, s)[k].state = IF k \in ks THEN s ELSE orders[k].state
BY DEF TypeOK, IsStore, SetStates

\* The same for bids.
LEMMA BidFields ==
    ASSUME TypeOK, NEW ks, NEW s
    PROVE  /\ DOMAIN SetStates(bids, ks, s) = DOMAIN bids
           /\ \A k \in DOMAIN bids :
                 /\ SetStates(bids, ks, s)[k].price = bids[k].price
                 /\ SetStates(bids, ks, s)[k].state = IF k \in ks THEN s ELSE bids[k].state
BY DEF TypeOK, IsStore, SetStates

\* The same for leases.
LEMMA LeaseFields ==
    ASSUME TypeOK, NEW ks, NEW s
    PROVE  /\ DOMAIN SetStates(leases, ks, s) = DOMAIN leases
           /\ \A k \in DOMAIN leases :
                 /\ SetStates(leases, ks, s)[k].price = leases[k].price
                 /\ SetStates(leases, ks, s)[k].state = IF k \in ks THEN s ELSE leases[k].state
BY Zenon DEF TypeOK, IsStore, SetStates

-----------------------------------------------------------------------------
(* Type correctness *)

\* An empty chain is well typed.
LEMMA TypeInit == Init => TypeOK
<1> SUFFICES ASSUME Init PROVE TypeOK
    BY Zenon
<1>1. \A K, V : IsStore(EmptyStore, K, V)
    BY Zenon DEF IsStore, EmptyStore
<1>2. balance \in [Accounts -> Nat]
    BY ConstantsAssumption, Zenon DEF Init
<1>3. todo \subseteq DOMAIN leases
    BY Zenon DEF Init
<1> QED
    BY <1>1, <1>2, <1>3, Zenon DEF Init, TypeOK

\* handleMsgCreate writes a well-typed deployment and well-typed groups.
LEMMA TypeMsgCreate ==
    ASSUME TypeOK, NEW owner \in Tenants, NEW specs \in GroupSpecs, MsgCreate(owner, specs)
    PROVE  TypeOK'
<1> DEFINE did == <<owner, height>>
           ids == NewGroupIDs(did, specs)
           recs == [g \in ids |-> [state |-> GroupOpen, spec |-> specs[g[2]]]]
<1>1. did \in DeploymentIDs
    BY Zenon DEF TypeOK, DeploymentIDs
<1>2. IsStore(deployments', DeploymentIDs, DeploymentStates)
    BY <1>1, PutIsStore, Zenon DEF TypeOK, MsgCreate, CreateDeployment, DeploymentStates
<1>3. specs \in Seq(GroupSpec)
    BY ConstantsAssumption, Zenon
<1>4. ids \in SUBSET GroupIDs
    BY <1>1, <1>3 DEF NewGroupIDs, GroupIDs
<1>5. recs \in [ids -> [state : GroupStates, spec : GroupSpec]]
    BY <1>3 DEF NewGroupIDs, GroupStates
<1>6. IsStore(groups', GroupIDs, [state : GroupStates, spec : GroupSpec])
    BY <1>4, <1>5, PutAllIsStore, Zenon DEF TypeOK, MsgCreate, CreateGroups
<1> QED
    BY <1>2, <1>6, Zenon DEF TypeOK, MsgCreate, marketVars, blockVars

\* handleMsgClose assigns states that the code names.
LEMMA TypeMsgClose ==
    ASSUME TypeOK, NEW did \in DOMAIN deployments, MsgClose(did)
    PROVE  TypeOK'
<1> DEFINE gids == GetGroups(groups, did)
<1>1. IsStore(deployments', DeploymentIDs, DeploymentStates)
    <2>1. did \in DeploymentIDs
        BY Zenon DEF TypeOK, IsStore
    <2> QED
        BY <2>1, PutIsStore, Zenon DEF TypeOK, MsgClose, UpdateDeployment, Has, DeploymentStates
<1>2. IsStore(groups', GroupIDs, [state : GroupStates, spec : GroupSpec])
    BY SetStatesGroup, Zenon DEF TypeOK, MsgClose, OnDeploymentClosed, GroupStates
<1>3. IsStore(orders', OrderIDs, [state : OrderStates, startAt : Nat, spec : GroupSpec])
    BY SetStatesOrder, Zenon DEF TypeOK, MsgClose, GroupClosedOrders, OrderStates
<1>4. IsStore(bids', BidIDs, [state : BidStates, price : Nat])
    BY SetStatesBid, Zenon DEF TypeOK, MsgClose, GroupClosedBids, BidStates
<1>5. /\ IsStore(leases', BidIDs, [state : LeaseStates, price : Nat])
      /\ DOMAIN leases' = DOMAIN leases
    BY SetStatesBid, SetStatesValue, ZenonT(40) DEF TypeOK, MsgClose, GroupClosedLeases, LeaseStates
<1> QED
    BY <1>1, <1>2, <1>3, <1>4, <1>5, Zenon DEF TypeOK, MsgClose, blockVars

\* handleMsgUpdate writes back the record it has read.
LEMMA UpdateChangesNothing ==
    ASSUME TypeOK, NEW did \in DOMAIN deployments, MsgUpdate(did)
    PROVE  UNCHANGED vars
<1>1. Put(deployments, did, deployments[did]) = deployments
    BY Zenon DEF TypeOK, IsStore, Put
<1> QED
    BY <1>1, Zenon DEF MsgUpdate, UpdateDeployment, Has, vars, marketVars, blockVars

\* handleMsgCreateBid writes a well-typed bid.
LEMMA TypeMsgCreateBid ==
    ASSUME TypeOK, NEW oid \in DOMAIN orders, NEW p \in Hosts, NEW price \in BidPrices,
           MsgCreateBid(oid, p, price)
    PROVE  TypeOK'
<1>1. <<oid, p>> \in BidIDs
    BY Zenon DEF TypeOK, IsStore, BidIDs
<1>2. [state |-> BidOpen, price |-> price] \in [state : BidStates, price : Nat]
    BY ConstantsAssumption, Zenon DEF BidStates
<1>3. IsStore(bids', BidIDs, [state : BidStates, price : Nat])
    BY <1>1, <1>2, PutIsStore, Zenon DEF TypeOK, MsgCreateBid, CreateBid
<1> QED
    BY <1>3, Zenon DEF TypeOK, MsgCreateBid, blockVars

\* handleMsgCloseBid assigns states that the code names.
LEMMA TypeMsgCloseBid ==
    ASSUME TypeOK, NEW bid \in DOMAIN bids, MsgCloseBid(bid)
    PROVE  TypeOK'
<1>1. IsStore(groups', GroupIDs, [state : GroupStates, spec : GroupSpec])
    BY SetStatesGroup, Zenon DEF TypeOK, MsgCloseBid, GroupOnLeaseClosed, SetState, GroupStates
<1>2. IsStore(orders', OrderIDs, [state : OrderStates, startAt : Nat, spec : GroupSpec])
    BY SetStatesOrder, Zenon DEF TypeOK, MsgCloseBid, OnOrderClosed, SetState, OrderStates
<1>3. IsStore(bids', BidIDs, [state : BidStates, price : Nat])
    BY SetStatesBid, Zenon DEF TypeOK, MsgCloseBid, OnBidClosed, SetState, BidStates
<1>4. /\ IsStore(leases', BidIDs, [state : LeaseStates, price : Nat])
      /\ DOMAIN leases' = DOMAIN leases
    BY SetStatesBid, SetStatesValue, ZenonT(40) DEF TypeOK, MsgCloseBid, OnLeaseClosed, SetState, LeaseStates
<1> QED
    BY <1>1, <1>2, <1>3, <1>4, Zenon DEF TypeOK, MsgCloseBid, blockVars

\* handleMsgCloseOrder assigns states that the code names.
LEMMA TypeMsgCloseOrder ==
    ASSUME TypeOK, NEW oid \in DOMAIN orders, MsgCloseOrder(oid)
    PROVE  TypeOK'
<1>1. IsStore(groups', GroupIDs, [state : GroupStates, spec : GroupSpec])
    BY SetStatesGroup, Zenon DEF TypeOK, MsgCloseOrder, GroupOnLeaseClosed, SetState, GroupStates
<1>2. IsStore(orders', OrderIDs, [state : OrderStates, startAt : Nat, spec : GroupSpec])
    BY SetStatesOrder, Zenon DEF TypeOK, MsgCloseOrder, OnOrderClosed, SetState, OrderStates
<1>3. PICK lid \in LeasesForOrder(leases, bids, oid) : leases' = OnLeaseClosed(leases, lid)
    BY Zenon DEF MsgCloseOrder
<1>4. /\ IsStore(leases', BidIDs, [state : LeaseStates, price : Nat])
      /\ DOMAIN leases' = DOMAIN leases
    BY <1>3, SetStatesBid, SetStatesValue, ZenonT(40) DEF TypeOK, OnLeaseClosed, SetState, LeaseStates
<1> QED
    BY <1>1, <1>2, <1>4, Zenon DEF TypeOK, MsgCloseOrder, blockVars

\* The handlers of x/provider write a well-typed provider.
LEMMA TypeProvider ==
    ASSUME TypeOK, NEW p \in Hosts, NEW attrs \in SUBSET Attributes,
           MsgCreateProvider(p, attrs) \/ MsgUpdateProvider(p, attrs)
    PROVE  TypeOK'
<1>1. IsStore(providers', Hosts, SUBSET Attributes)
    BY PutIsStore DEF TypeOK, MsgCreateProvider, MsgUpdateProvider, CreateProvider, UpdateProvider
<1> QED
    BY <1>1, Zenon DEF TypeOK, MsgCreateProvider, MsgUpdateProvider, marketVars, blockVars

\* A transfer the sender can afford overdraws nobody (bank.SendCoins).
LEMMA SendCoinsType ==
    ASSUME NEW A, NEW f \in [A -> Nat], NEW a \in A, NEW b \in A, NEW n \in Nat, f[a] >= n
    PROVE  SendCoins(f, a, b, n) \in [A -> Nat]
<1> DEFINE d == [f EXCEPT ![a] = @ - n]
<1>1. f[a] - n \in Nat
    OBVIOUS
<1>2. d \in [A -> Nat]
    BY <1>1, Zenon
<1>3. d[b] + n \in Nat
    BY <1>2
<1> HIDE DEF d
<1>4. [d EXCEPT ![b] = @ + n] \in [A -> Nat]
    BY <1>2, <1>3, Zenon
<1> QED
    BY <1>4, Zenon DEF SendCoins, d

\* A transfer overdraws no account.
LEMMA TypeBankSend ==
    ASSUME TypeOK, NEW a \in Accounts, NEW b \in Accounts, NEW n \in Transfers, BankSend(a, b, n)
    PROVE  TypeOK'
<1>1. balance' \in [Accounts -> Nat]
    BY SendCoinsType, ConstantsAssumption, Zenon DEF TypeOK, BankSend
<1> QED
    BY <1>1, Zenon DEF TypeOK, BankSend, marketVars, blockVars

\* A payment is made only from an account that has the coins.
LEMMA TypePayLease ==
    ASSUME TypeOK, Integrity, NEW l \in todo, PayLease(l)
    PROVE  TypeOK'
<1> DEFINE owner == LeaseOwner(l)
<1>1. l \in BidIDs /\ l \in DOMAIN leases /\ l \in DOMAIN charges
    BY Zenon DEF TypeOK, IsStore, Integrity
<1>2. owner \in Accounts /\ l[2] \in Accounts
    BY <1>1, Zenon DEF LeaseOwner, BidIDs, OrderIDs, GroupIDs, DeploymentIDs, Accounts
<1>3. leases[l].price \in Nat /\ balance[owner] >= leases[l].price
    BY <1>1, Zenon DEF TypeOK, IsStore, PayLease, HasCoins
<1>4. balance' \in [Accounts -> Nat]
    BY <1>2, <1>3, SendCoinsType, Zenon DEF TypeOK, PayLease
<1>5. [from |-> charges[l].from, count |-> charges[l].count + 1] \in [from : Nat, count : Nat]
    BY <1>1 DEF TypeOK, IsStore
<1>6. IsStore(charges', BidIDs, [from : Nat, count : Nat])
    BY <1>1, <1>5, PutIsStore, Zenon DEF TypeOK, PayLease
<1> QED
    BY <1>4, <1>6, Zenon DEF TypeOK, PayLease, LoopReaches, marketVars

\* A lease that cannot be paid gets a state that the code names.
LEMMA TypeSuspendLease ==
    ASSUME TypeOK, NEW l \in todo, SuspendLease(l)
    PROVE  TypeOK'
<1>1. IsStore(groups', GroupIDs, [state : GroupStates, spec : GroupSpec])
    BY SetStatesGroup, Zenon DEF TypeOK, SuspendLease, OnLeaseInsufficientFunds, SetState, GroupStates
<1>2. /\ IsStore(leases', BidIDs, [state : LeaseStates, price : Nat])
      /\ DOMAIN leases' = DOMAIN leases
    BY SetStatesBid, SetStatesValue, ZenonT(40) DEF TypeOK, SuspendLease, OnInsufficientFunds, SetState, LeaseStates
<1> QED
    BY <1>1, <1>2, Zenon DEF TypeOK, SuspendLease, LoopReaches

\* matchOrders writes well-typed leases and states that the code names.
LEMMA TypeMatchOpenOrders ==
    ASSUME TypeOK, NEW wins \in SUBSET DOMAIN bids, MatchOpenOrders(wins)
    PROVE  TypeOK'
<1>1. wins \in SUBSET BidIDs
    BY Zenon DEF TypeOK, IsStore
<1>2. IsStore(groups', GroupIDs, [state : GroupStates, spec : GroupSpec])
    BY SetStatesGroup, Zenon DEF TypeOK, MatchOpenOrders, OnLeaseCreated, GroupStates
<1>3. IsStore(orders', OrderIDs, [state : OrderStates, startAt : Nat, spec : GroupSpec])
    BY SetStatesOrder, Zenon DEF TypeOK, MatchOpenOrders, OnOrderMatched, OrderStates
<1>4. IsStore(bids', BidIDs, [state : BidStates, price : Nat])
    <2>1. IsStore(SetStates(bids, wins, BidMatched), BidIDs, [state : BidStates, price : Nat])
        BY SetStatesBid, Zenon DEF TypeOK, BidStates
    <2> QED
        BY <2>1, SetStatesBid, Zenon DEF MatchOpenOrders, MatchBids, BidStates
<1>5. IsStore(leases', BidIDs, [state : LeaseStates, price : Nat])
    <2>1. [w \in wins |-> [state |-> LeaseActive, price |-> bids[w].price]]
              \in [wins -> [state : LeaseStates, price : Nat]]
        BY Zenon DEF TypeOK, IsStore, LeaseStates
    <2> QED
        BY <1>1, <2>1, PutAllIsStore, Zenon DEF TypeOK, MatchOpenOrders, CreateLeases
<1>6. IsStore(charges', BidIDs, [from : Nat, count : Nat])
    <2>1. [w \in wins |-> [from |-> height, count |-> 0]] \in [wins -> [from : Nat, count : Nat]]
        BY Zenon DEF TypeOK
    <2> QED
        BY <1>1, <2>1, PutAllIsStore, ZenonT(40) DEF TypeOK, MatchOpenOrders
<1>7. todo' = {} /\ height' \in Nat /\ phase' = "deliver"
    BY DEF TypeOK, MatchOpenOrders
<1> QED
    BY <1>2, <1>3, <1>4, <1>5, <1>6, <1>7, Zenon DEF TypeOK, MatchOpenOrders

-----------------------------------------------------------------------------
(* New orders *)

\* What CreateOrder adds: one new key per group that was open, and nothing else.
LEMMA CreateOrdersValue ==
    ASSUME NEW gids, NEW start
    PROVE  LET next == CreateOrders(orders, gids, groups, start) IN
           /\ DOMAIN next = DOMAIN orders \cup {<<g, NextOSeq(orders, g)>> : g \in gids}
           /\ \A o \in DOMAIN next :
                IF o \in NewOrders(orders, gids)
                THEN next[o] = [state |-> OrderOpen, startAt |-> start, spec |-> groups[o[1]].spec]
                ELSE next[o] = orders[o]
BY Zenon DEF CreateOrders, PutAll, NewOrders, NewOrderID

\* CreateOrder writes well-typed orders.
LEMMA TypeCreateOrders ==
    ASSUME TypeOK, Integrity, FinitelyManyOrders, CreateOrdersForGroups
    PROVE  TypeOK'
<1> DEFINE gids == Orderable(deployments, groups)
           news == NewOrders(orders, gids)
           recs == [o \in news |-> [state |-> OrderOpen, startAt |-> height + OrderTTL,
                                    spec |-> groups[o[1]].spec]]
<1>1. gids \subseteq DOMAIN groups
    BY Zenon DEF Orderable
<1>2. \A g \in gids : g \in GroupIDs /\ NextOSeq(orders, g) \in Nat
    BY <1>1, FS_CardinalityType DEF FinitelyManyOrders, NextOSeq, TypeOK, IsStore
<1>3. news \in SUBSET OrderIDs
    BY <1>2 DEF NewOrders, NewOrderID, OrderIDs
<1>4. recs \in [news -> [state : OrderStates, startAt : Nat, spec : GroupSpec]]
    <2>1. \A o \in news : o[1] \in DOMAIN groups
        BY <1>1 DEF NewOrders, NewOrderID
    <2>2. height + OrderTTL \in Nat
        BY ConstantsAssumption, SMTT(30) DEF TypeOK
    <2> QED
        BY <2>1, <2>2, Zenon DEF TypeOK, IsStore, OrderStates
<1>5. IsStore(orders', OrderIDs, [state : OrderStates, startAt : Nat, spec : GroupSpec])
    BY <1>3, <1>4, PutAllIsStore, Zenon DEF TypeOK, CreateOrdersForGroups, CreateOrders
<1>6. IsStore(groups', GroupIDs, [state : GroupStates, spec : GroupSpec])
    BY SetStatesGroup, Zenon DEF TypeOK, CreateOrdersForGroups, OnOrderCreated, GroupStates
<1>7. todo' \subseteq DOMAIN leases'
    BY Zenon DEF CreateOrdersForGroups, ActiveLeases
<1> QED
    BY <1>5, <1>6, <1>7, Zenon DEF TypeOK, CreateOrdersForGroups

\* An order that CreateOrder writes was not there before.
LEMMA NewOrdersAreFresh ==
    ASSUME TypeOK, FinitelyManyOrders, OrdersNumbered, NEW g \in DOMAIN groups
    PROVE  NewOrderID(orders, g) \notin DOMAIN orders
<1> DEFINE os == OrdersForGroup(orders, g)
<1>1. Cardinality(os) \in Nat
    BY FS_CardinalityType, Zenon DEF FinitelyManyOrders
<1>2. {o[2] : o \in os} = 1..Cardinality(os)
    BY Zenon DEF OrdersNumbered
<1>3. SUFFICES ASSUME <<g, 1 + Cardinality(os)>> \in DOMAIN orders PROVE FALSE
    BY Zenon DEF NewOrderID, NextOSeq
<1>4. <<g, 1 + Cardinality(os)>> \in os
    BY <1>3, Zenon DEF OrdersForGroup
<1>5. 1 + Cardinality(os) \in 1..Cardinality(os)
    BY <1>2, <1>4
<1> QED
    BY <1>1, <1>5

\* The numbering stays without gaps when orders are created.
LEMMA NumberedCreateOrders ==
    ASSUME TypeOK, Integrity, FinitelyManyOrders, OrdersNumbered, CreateOrdersForGroups
    PROVE  FinitelyManyOrders' /\ OrdersNumbered'
<1> DEFINE gids == Orderable(deployments, groups)
<1>1. gids \subseteq DOMAIN groups /\ DOMAIN groups' = DOMAIN groups
    BY SetStatesValue, Zenon DEF Orderable, CreateOrdersForGroups, OnOrderCreated
<1>2. SUFFICES ASSUME NEW g \in DOMAIN groups
               PROVE  /\ IsFiniteSet(OrdersForGroup(orders', g))
                      /\ {o[2] : o \in OrdersForGroup(orders', g)}
                            = 1..Cardinality(OrdersForGroup(orders', g))
    BY <1>1, Zenon DEF FinitelyManyOrders, OrdersNumbered, OrdersForGroup
<1> DEFINE os == OrdersForGroup(orders, g)
           n == Cardinality(os)
<1>3. IsFiniteSet(os) /\ n \in Nat /\ {o[2] : o \in os} = 1..n
    BY FS_CardinalityType, Zenon DEF FinitelyManyOrders, OrdersNumbered
<1>4. DOMAIN orders' = DOMAIN orders \cup {<<h, NextOSeq(orders, h)>> : h \in gids}
    BY CreateOrdersValue, Zenon DEF CreateOrdersForGroups
<1>5. CASE g \in gids
    <2> DEFINE new == <<g, NextOSeq(orders, g)>>
    <2>1. OrdersForGroup(orders', g) = os \cup {new}
        <3>1. \A o \in DOMAIN orders' : o[1] = g => o \in DOMAIN orders \/ o = new
            BY <1>4
        <3>2. new \in DOMAIN orders' /\ new[1] = g /\ DOMAIN orders \subseteq DOMAIN orders'
            BY <1>4, <1>5, Zenon
        <3> QED
            BY <3>1, <3>2, Zenon DEF OrdersForGroup
    <2>2. new[2] = n + 1 /\ new \notin os
        <3>1. new[2] = n + 1
            BY <1>3 DEF NextOSeq
        <3> QED
            BY <1>3, <3>1
    <2> HIDE DEF new
    <2>3. IsFiniteSet(OrdersForGroup(orders', g)) /\ Cardinality(OrdersForGroup(orders', g)) = n + 1
        BY <1>3, <2>1, <2>2, FS_AddElement
    <2>4. {o[2] : o \in OrdersForGroup(orders', g)} = {o[2] : o \in os} \cup {n + 1}
        BY <2>1, <2>2
    <2>5. (1..n) \cup {n + 1} = 1..(n + 1)
        BY <1>3
    <2> QED
        BY <1>3, <2>3, <2>4, <2>5, Zenon
<1>6. CASE g \notin gids
    <2>1. OrdersForGroup(orders', g) = os
        BY <1>4, <1>6 DEF OrdersForGroup
    <2> QED
        BY <1>3, <2>1, Zenon
<1> QED
    BY <1>5, <1>6, Zenon

\* It does not depend on the states of the orders.
LEMMA SameOrders ==
    ASSUME FinitelyManyOrders, OrdersNumbered,
           DOMAIN orders' = DOMAIN orders, DOMAIN groups' = DOMAIN groups
    PROVE  FinitelyManyOrders' /\ OrdersNumbered'
<1>1. \A g : OrdersForGroup(orders, g)' = OrdersForGroup(orders, g)
    BY Zenon DEF OrdersForGroup
<1> QED
    BY <1>1, Zenon DEF FinitelyManyOrders, OrdersNumbered

-----------------------------------------------------------------------------
(* Every message keeps the inductive invariant *)

\* What a step leaves alone when it writes none of the records of the market.
LEMMA SameLeases ==
    ASSUME LeaseBacked, OneLeasePerOrder, CheapestWins, UNCHANGED <<orders, bids, leases>>
    PROVE  LeaseBacked' /\ OneLeasePerOrder' /\ CheapestWins'
<1>1. LeaseBacked'
    BY Zenon DEF LeaseBacked
<1>2. OneLeasePerOrder'
    BY Zenon DEF OneLeasePerOrder
<1>3. CheapestWins'
    BY Zenon DEF CheapestWins
<1> QED
    BY <1>1, <1>2, <1>3, Zenon

\* What a step leaves alone when it writes no order and no bid.
LEMMA SameBids ==
    ASSUME DecidedTogether, BidsWithinPrice, UNCHANGED <<orders, bids>>
    PROVE  DecidedTogether' /\ BidsWithinPrice'
BY Zenon DEF DecidedTogether, BidsWithinPrice

\* What a step leaves alone when it writes no group, order or lease.
LEMMA SameGroups ==
    ASSUME GroupStateBacked, UNCHANGED <<groups, orders, leases>>
    PROVE  GroupStateBacked'
BY Zenon DEF GroupStateBacked, ActiveLeases

\* What a step leaves alone when it writes none of the records.
LEMMA SameClosed ==
    ASSUME ClosedForGood, UNCHANGED <<deployments, groups, orders, bids, leases>>
    PROVE  ClosedForGood'
BY Zenon DEF ClosedForGood

\* What a message leaves alone when it writes no lease.
LEMMA SamePayments ==
    ASSUME PaidEveryBlock, UNCHANGED <<leases, charges, height, phase, todo>>
    PROVE  PaidEveryBlock'
BY Zenon DEF PaidEveryBlock, BlocksDue, ActiveLeases, LeaseOwner

\* Messages that change none of the stores the invariant relates.
LEMMA InvOther ==
    ASSUME IInv, TypeOK',
           UNCHANGED <<deployments, groups, orders, bids, leases, height, phase, todo, charges>>
    PROVE  IInv'
<1>1. Integrity'
    BY Zenon DEF IInv, Integrity, ActiveLeases
<1>2. FinitelyManyOrders' /\ OrdersNumbered'
    BY SameOrders, Zenon DEF IInv
<1> QED
    BY <1>1, <1>2, SameLeases, SameBids, SameGroups, SameClosed, SamePayments, Zenon DEF IInv

\* handleMsgCreate: the new groups are open and nothing refers to them yet.
LEMMA InvMsgCreate ==
    ASSUME IInv, NEW owner \in Tenants, NEW specs \in GroupSpecs, MsgCreate(owner, specs)
    PROVE  IInv'
<1> DEFINE did == <<owner, height>>
           news == NewGroupIDs(did, specs)
<1>1. TypeOK'
    BY TypeMsgCreate, Zenon DEF IInv
<1>2. /\ did \notin DOMAIN deployments
      /\ DOMAIN deployments' = DOMAIN deployments \cup {did}
      /\ deployments'[did] = DeploymentActive
      /\ \A d \in DOMAIN deployments : deployments'[d] = deployments[d]
    BY Zenon DEF MsgCreate, CreateDeployment, Put, Has
<1>3. \A g \in news : g[1] = did /\ g \notin DOMAIN groups
    BY <1>2, SMTT(30) DEF NewGroupIDs, IInv, Integrity, Has
<1>4. /\ DOMAIN groups' = DOMAIN groups \cup news
      /\ \A g \in news : groups'[g].state = GroupOpen
      /\ \A g \in DOMAIN groups : groups'[g] = groups[g]
    BY <1>3, Zenon DEF MsgCreate, CreateGroups, PutAll
<1>5. UNCHANGED <<orders, bids, leases, height, phase, todo, charges>>
    BY Zenon DEF MsgCreate, marketVars, blockVars
<1> HIDE DEF did, news
<1>6. Integrity'
    BY <1>2, <1>3, <1>4, <1>5, Zenon DEF IInv, Integrity, Has, ActiveLeases
<1>7. FinitelyManyOrders' /\ OrdersNumbered'
    <2>1. \A g \in news : OrdersForGroup(orders, g) = {}
        BY <1>3, Zenon DEF OrdersForGroup, IInv, Integrity, Has
    <2>2. IsFiniteSet({}) /\ Cardinality({}) = 0
        BY FS_EmptySet, Zenon
    <2>3. FinitelyManyOrders'
        BY <2>1, <2>2, <1>4, <1>5, Zenon DEF IInv, FinitelyManyOrders
    <2>4. \A g \in news : {o[2] : o \in OrdersForGroup(orders, g)}
                             = 1..Cardinality(OrdersForGroup(orders, g))
        BY <2>1, <2>2
    <2> QED
        BY <2>3, <2>4, <1>4, <1>5, Zenon DEF IInv, OrdersNumbered
<1>8. ClosedForGood'
    BY <1>2, <1>3, <1>4, <1>5, SMTT(30)
    DEF IInv, ClosedForGood, Integrity, Has, DeploymentActive, DeploymentClosed
<1>9. GroupStateBacked'
    BY <1>4, <1>5, ZenonT(30) DEF IInv, GroupStateBacked, ActiveLeases, GroupOpen, GroupOrdered, GroupMatched
<1> QED
    BY <1>1, <1>5, <1>6, <1>7, <1>8, <1>9, SameLeases, SameBids, SamePayments, Zenon DEF IInv

\* handleMsgClose: everything below the deployment is closed in the same step.
LEMMA InvMsgClose ==
    ASSUME IInv, NEW did \in DOMAIN deployments, MsgClose(did)
    PROVE  IInv'
<1> DEFINE gids == GetGroups(groups, did)
<1>1. TypeOK'
    BY TypeMsgClose, Zenon DEF IInv
<1>2. /\ DOMAIN deployments' = DOMAIN deployments
      /\ deployments'[did] = DeploymentClosed
      /\ \A d \in DOMAIN deployments : d # did => deployments'[d] = deployments[d]
    BY Zenon DEF MsgClose, UpdateDeployment, Has, Put
<1>3. \A g \in DOMAIN groups : g \in gids <=> g[1] = did
    BY Zenon DEF GetGroups
<1>4. /\ DOMAIN groups' = DOMAIN groups
      /\ \A g \in DOMAIN groups :
            groups'[g].state = IF g[1] = did THEN GroupClosed ELSE groups[g].state
    BY <1>3, GroupFields DEF IInv, MsgClose, OnDeploymentClosed
<1>5. \A o \in DOMAIN orders : o \in OrdersOfGroups(orders, gids) <=> o[1][1] = did
    BY <1>3, Zenon DEF OrdersOfGroups, IInv, Integrity, Has
<1>6. /\ DOMAIN orders' = DOMAIN orders
      /\ \A o \in DOMAIN orders :
            /\ orders'[o].spec = orders[o].spec
            /\ orders'[o].state = IF o[1][1] = did THEN OrderClosed ELSE orders[o].state
    BY <1>5, OrderFields, SMTT(30) DEF IInv, MsgClose, GroupClosedOrders
<1>7. /\ DOMAIN bids' = DOMAIN bids
      /\ \A b \in DOMAIN bids :
            /\ bids'[b].price = bids[b].price
            /\ bids'[b].state = IF b[1][1][1] = did /\ bids[b].state # BidLost
                                THEN BidClosed ELSE bids[b].state
    <2>1. \A b \in DOMAIN bids : b[1] \in OrdersOfGroups(orders, gids) <=> b[1][1][1] = did
        BY <1>5, Zenon DEF IInv, Integrity, Has
    <2> QED
        BY <2>1, BidFields DEF IInv, MsgClose, GroupClosedBids
<1>8. /\ DOMAIN leases' = DOMAIN leases
      /\ \A l \in DOMAIN leases :
            /\ leases'[l].price = leases[l].price
            /\ leases'[l].state = IF l[1][1][1] = did /\ leases[l].state = LeaseActive
                                  THEN LeaseClosed ELSE leases[l].state
    <2>1. \A l \in DOMAIN leases : /\ l[1] \in OrdersOfGroups(orders, gids) <=> l[1][1][1] = did
                                   /\ Has(bids, l)
        BY <1>5, Zenon DEF IInv, Integrity, Has
    <2> QED
        BY <2>1, LeaseFields DEF IInv, MsgClose, GroupClosedLeases
<1>9. /\ UNCHANGED <<height, phase, todo, charges>>
      /\ phase = "deliver"
    BY Zenon DEF MsgClose, blockVars
<1> HIDE DEF gids
<1>10. Integrity'
    BY <1>2, <1>4, <1>6, <1>7, <1>8, <1>9, Zenon DEF IInv, Integrity, Has, ActiveLeases
<1>11. FinitelyManyOrders' /\ OrdersNumbered'
    BY <1>4, <1>6, SameOrders, Zenon DEF IInv
<1>12. ClosedForGood'
    <2>1. \A g \in DOMAIN groups' :
             deployments'[g[1]] = DeploymentClosed => groups'[g].state = GroupClosed
        BY <1>2, <1>4, Zenon DEF IInv, Integrity, Has, ClosedForGood
    <2>2. \A o \in DOMAIN orders' :
             deployments'[o[1][1]] = DeploymentClosed => orders'[o].state = OrderClosed
        BY <1>2, <1>6, Zenon DEF IInv, Integrity, Has, ClosedForGood
    <2>3. \A b \in DOMAIN bids' :
             deployments'[b[1][1][1]] = DeploymentClosed => bids'[b].state \in {BidLost, BidClosed}
        BY <1>2, <1>7, Zenon DEF IInv, Integrity, Has, ClosedForGood
    <2>4. \A l \in DOMAIN leases' :
             deployments'[l[1][1][1]] = DeploymentClosed => leases'[l].state # LeaseActive
        BY <1>2, <1>8, Zenon DEF IInv, Integrity, Has, ClosedForGood, LeaseActive, LeaseClosed
    <2> QED
        BY <2>1, <2>2, <2>3, <2>4, Zenon DEF ClosedForGood
<1>13. GroupStateBacked'
    BY <1>4, <1>6, <1>8, SMTT(30)
    DEF IInv, GroupStateBacked, OrdersForGroup, ActiveLeases, GroupClosed, GroupOrdered, GroupMatched
<1>14. LeaseBacked'
    BY <1>6, <1>7, <1>8, SMTT(30)
    DEF IInv, Integrity, LeaseBacked, Has, LeaseActive, LeaseClosed, BidLost, BidMatched, BidClosed
<1>15. OneLeasePerOrder' /\ CheapestWins'
    BY <1>6, <1>7, <1>8, SMTT(30)
    DEF IInv, OneLeasePerOrder, CheapestWins, LeaseBacked, Has, BidsForOrder, BidLost, BidClosed
<1>16. DecidedTogether' /\ BidsWithinPrice'
    BY <1>6, <1>7, Zenon
    DEF IInv, Integrity, Has, DecidedTogether, BidsWithinPrice, BidOpen, BidLost, BidClosed,
        OrderOpen, OrderClosed
<1>17. PaidEveryBlock'
    BY <1>8, <1>9, Zenon DEF IInv, PaidEveryBlock, BlocksDue, LeaseOwner, ActiveLeases, LeaseActive, LeaseClosed
<1> QED
    BY <1>1, <1>10, <1>11, <1>12, <1>13, <1>14, <1>15, <1>16, <1>17, Zenon DEF IInv

\* handleMsgCreateBid: an open order has no lease, so a bid that is written over was
\* open and no lease depends on it.
LEMMA InvMsgCreateBid ==
    ASSUME IInv, NEW oid \in DOMAIN orders, NEW p \in Hosts, NEW price \in BidPrices,
           MsgCreateBid(oid, p, price)
    PROVE  IInv'
<1> DEFINE new == <<oid, p>>
<1>1. TypeOK'
    BY TypeMsgCreateBid, Zenon DEF IInv
<1>2. /\ DOMAIN bids' = DOMAIN bids \cup {new}
      /\ bids'[new].state = BidOpen /\ bids'[new].price = price
      /\ \A b \in DOMAIN bids : b # new => bids'[b] = bids[b]
      /\ new[1] = oid
    BY Zenon DEF MsgCreateBid, CreateBid, Put
<1>3. /\ UNCHANGED <<deployments, groups, orders, leases, height, phase, todo, charges>>
      /\ orders[oid].state = OrderOpen
      /\ ~(orders[oid].spec.price < price)
    BY Zenon DEF MsgCreateBid, CanBid, blockVars
<1>4. price <= orders[oid].spec.price
    BY <1>3, ConstantsAssumption, SMTT(30) DEF IInv, TypeOK, IsStore, GroupSpec
<1>5. new \notin DOMAIN leases
    BY <1>2, <1>3, Zenon
    DEF IInv, LeaseBacked, DecidedTogether, Has, BidOpen, BidMatched, BidClosed
<1> HIDE DEF new
<1>6. Integrity'
    BY <1>2, <1>3, Zenon DEF IInv, Integrity, Has, ActiveLeases
<1>7. ClosedForGood'
    BY <1>2, <1>3, Zenon DEF IInv, ClosedForGood, OrderOpen, OrderClosed
<1>8. LeaseBacked'
    BY <1>2, <1>3, <1>5, Zenon DEF IInv, LeaseBacked, Has
<1>9. CheapestWins'
    BY <1>2, <1>3, <1>5, ZenonT(30) DEF IInv, CheapestWins, BidsForOrder, BidOpen, BidLost
<1>10. DecidedTogether' /\ BidsWithinPrice'
    BY <1>2, <1>3, <1>4, Zenon DEF IInv, DecidedTogether, BidsWithinPrice
<1> QED
    BY <1>1, <1>3, <1>6, <1>7, <1>8, <1>9, <1>10, SameOrders, SameGroups, SamePayments, Zenon
    DEF IInv, OneLeasePerOrder

\* handleMsgCloseBid: the lease is active, so its deployment is not closed.
LEMMA InvMsgCloseBid ==
    ASSUME IInv, NEW bid \in DOMAIN bids, MsgCloseBid(bid)
    PROVE  IInv'
<1>1. TypeOK'
    BY TypeMsgCloseBid, Zenon DEF IInv
<1>2. /\ bid \in DOMAIN leases /\ bid[1] \in DOMAIN orders /\ bid[1][1] \in DOMAIN groups
      /\ leases[bid].state = LeaseActive
      /\ bids[bid].state = BidMatched
      /\ deployments[bid[1][1][1]] # DeploymentClosed
      /\ UNCHANGED <<deployments, height, phase, todo, charges>>
      /\ phase = "deliver"
    <2>1. /\ Has(leases, bid) /\ Has(orders, bid[1])
          /\ leases[bid].state = LeaseActive /\ bids[bid].state = BidMatched
          /\ UNCHANGED <<deployments, height, phase, todo, charges>> /\ phase = "deliver"
        BY Zenon DEF MsgCloseBid, blockVars
    <2>2. bid[1][1] \in DOMAIN groups
        BY <2>1, Zenon DEF IInv, Integrity, Has
    <2>3. deployments[bid[1][1][1]] # DeploymentClosed
        BY <2>1, Zenon DEF IInv, ClosedForGood, Has
    <2> QED
        BY <2>1, <2>2, <2>3, Zenon DEF Has
<1>3. /\ DOMAIN bids' = DOMAIN bids
      /\ \A b \in DOMAIN bids :
            /\ bids'[b].price = bids[b].price
            /\ bids'[b].state = IF b = bid THEN BidClosed ELSE bids[b].state
    BY <1>2, BidFields, SMTT(30)
    DEF IInv, MsgCloseBid, OnBidClosed, SetState, BidMatched, BidClosed, BidLost
<1>4. /\ DOMAIN leases' = DOMAIN leases
      /\ \A l \in DOMAIN leases :
            /\ leases'[l].price = leases[l].price
            /\ leases'[l].state = IF l = bid THEN LeaseClosed ELSE leases[l].state
    BY <1>2, LeaseFields, SMTT(30)
    DEF IInv, MsgCloseBid, OnLeaseClosed, SetState, LeaseActive, LeaseClosed, LeaseInsufficientFunds
<1>5. /\ DOMAIN orders' = DOMAIN orders
      /\ \A o \in DOMAIN orders :
            /\ orders'[o].spec = orders[o].spec
            /\ orders'[o].state = IF o = bid[1] THEN OrderClosed ELSE orders[o].state
    BY OrderFields, SMTT(30) DEF IInv, MsgCloseBid, OnOrderClosed, SetState
<1>6. /\ DOMAIN groups' = DOMAIN groups
      /\ \A g \in DOMAIN groups :
            groups'[g].state = IF g = bid[1][1] THEN GroupOpen ELSE groups[g].state
    BY GroupFields, SMTT(30) DEF IInv, MsgCloseBid, GroupOnLeaseClosed, SetState
<1>7. Integrity'
    BY <1>2, <1>3, <1>4, <1>5, <1>6, Zenon DEF IInv, Integrity, Has, ActiveLeases
<1>8. FinitelyManyOrders' /\ OrdersNumbered'
    BY <1>5, <1>6, SameOrders, Zenon DEF IInv
<1>9. ClosedForGood'
    BY <1>2, <1>3, <1>4, <1>5, <1>6, SMTT(30)
    DEF IInv, ClosedForGood, LeaseActive, LeaseClosed, BidClosed
<1>10. GroupStateBacked'
    <2>1. SUFFICES ASSUME NEW g \in DOMAIN groups, g # bid[1][1]
                   PROVE  /\ groups[g].state = GroupOrdered =>
                                \E o \in DOMAIN orders : o[1] = g /\ orders'[o].state = OrderOpen
                          /\ groups[g].state = GroupMatched =>
                                \E l \in DOMAIN leases :
                                    l[1][1] = g /\ leases'[l].state = LeaseActive
        BY <1>4, <1>5, <1>6
        DEF GroupStateBacked, OrdersForGroup, ActiveLeases, GroupOpen, GroupOrdered, GroupMatched
    <2>2. /\ groups[g].state = GroupOrdered =>
                \E o \in DOMAIN orders : o[1] = g /\ orders[o].state = OrderOpen
          /\ groups[g].state = GroupMatched =>
                \E l \in DOMAIN leases : l[1][1] = g /\ leases[l].state = LeaseActive
        BY Zenon DEF IInv, GroupStateBacked, OrdersForGroup, ActiveLeases
    <2> QED
        BY <1>2, <1>4, <1>5, <1>6, <2>1, <2>2, ZenonT(30)
<1>11. LeaseBacked'
    BY <1>2, <1>3, <1>4, <1>5, SMTT(30)
    DEF IInv, LeaseBacked, OneLeasePerOrder, Has, LeaseActive, LeaseClosed, BidMatched, BidClosed
<1>12. OneLeasePerOrder' /\ CheapestWins'
    BY <1>3, <1>4, <1>5, SMTT(30)
    DEF IInv, OneLeasePerOrder, CheapestWins, LeaseBacked, Has, BidsForOrder, BidLost, BidClosed
<1>13. DecidedTogether' /\ BidsWithinPrice'
    BY <1>2, <1>3, <1>5, Zenon
    DEF IInv, Integrity, Has, DecidedTogether, BidsWithinPrice, OrderOpen, OrderClosed
<1>14. PaidEveryBlock'
    BY <1>2, <1>4, Zenon DEF IInv, PaidEveryBlock, BlocksDue, LeaseOwner, ActiveLeases, LeaseActive, LeaseClosed
<1> QED
    BY <1>1, <1>7, <1>8, <1>9, <1>10, <1>11, <1>12, <1>13, <1>14, Zenon DEF IInv

\* handleMsgCloseOrder: the order has a matched bid, so its deployment is not closed.
LEMMA InvMsgCloseOrder ==
    ASSUME IInv, NEW oid \in DOMAIN orders, MsgCloseOrder(oid)
    PROVE  IInv'
<1>1. TypeOK'
    BY TypeMsgCloseOrder, Zenon DEF IInv
<1>2. PICK lid \in LeasesForOrder(leases, bids, oid) : leases' = OnLeaseClosed(leases, lid)
    BY Zenon DEF MsgCloseOrder
<1>3. /\ lid \in DOMAIN leases /\ lid \in DOMAIN bids /\ lid[1] = oid /\ oid[1] \in DOMAIN groups
      /\ bids[lid].state = BidMatched
      /\ deployments[oid[1][1]] # DeploymentClosed
      /\ UNCHANGED <<deployments, bids, height, phase, todo, charges>>
      /\ phase = "deliver"
    BY <1>2, Zenon
    DEF MsgCloseOrder, LeasesForOrder, BidsForOrder, Has, blockVars, IInv, Integrity, ClosedForGood,
        BidMatched, BidLost, BidClosed
<1>4. /\ DOMAIN leases' = DOMAIN leases
      /\ leases'[lid].state # LeaseActive /\ leases'[lid].price = leases[lid].price
      /\ \A l \in DOMAIN leases :
            l # lid => leases'[l].price = leases[l].price /\ leases'[l].state = leases[l].state
    BY <1>2, <1>3, LeaseFields, SMTT(30)
    DEF IInv, OnLeaseClosed, SetState, LeaseActive, LeaseClosed, LeaseInsufficientFunds
<1>5. /\ DOMAIN orders' = DOMAIN orders
      /\ \A o \in DOMAIN orders :
            /\ orders'[o].spec = orders[o].spec
            /\ orders'[o].state = IF o = oid THEN OrderClosed ELSE orders[o].state
    BY OrderFields, SMTT(30) DEF IInv, MsgCloseOrder, OnOrderClosed, SetState
<1>6. /\ DOMAIN groups' = DOMAIN groups
      /\ \A g \in DOMAIN groups :
            groups'[g].state = IF g = oid[1] THEN GroupOpen ELSE groups[g].state
    BY GroupFields, SMTT(30) DEF IInv, MsgCloseOrder, GroupOnLeaseClosed, SetState
<1>7. Integrity'
    BY <1>3, <1>4, <1>5, <1>6, Zenon DEF IInv, Integrity, Has, ActiveLeases
<1>8. FinitelyManyOrders' /\ OrdersNumbered'
    BY <1>5, <1>6, SameOrders, ZenonT(30) DEF IInv
<1>9. ClosedForGood'
    BY <1>3, <1>4, <1>5, <1>6, SMTT(30) DEF IInv, ClosedForGood
<1>10. GroupStateBacked'
    <2>1. SUFFICES ASSUME NEW g \in DOMAIN groups, g # oid[1]
                   PROVE  /\ groups[g].state = GroupOrdered =>
                                \E o \in DOMAIN orders : o[1] = g /\ orders'[o].state = OrderOpen
                          /\ groups[g].state = GroupMatched =>
                                \E l \in DOMAIN leases :
                                    l[1][1] = g /\ leases'[l].state = LeaseActive
        BY <1>4, <1>5, <1>6, SMTT(30)
        DEF GroupStateBacked, OrdersForGroup, ActiveLeases, GroupOpen, GroupOrdered, GroupMatched
    <2>2. /\ groups[g].state = GroupOrdered =>
                \E o \in DOMAIN orders : o[1] = g /\ orders[o].state = OrderOpen
          /\ groups[g].state = GroupMatched =>
                \E l \in DOMAIN leases : l[1][1] = g /\ leases[l].state = LeaseActive
        BY Zenon DEF IInv, GroupStateBacked, OrdersForGroup, ActiveLeases
    <2>3. groups[g].state = GroupOrdered =>
                \E o \in DOMAIN orders : o[1] = g /\ orders'[o].state = OrderOpen
        BY <1>5, <2>1, <2>2, Zenon
    <2>4. groups[g].state = GroupMatched =>
                \E l \in DOMAIN leases : l[1][1] = g /\ leases'[l].state = LeaseActive
        BY <1>3, <1>4, <2>1, <2>2, ZenonT(30)
    <2> QED
        BY <2>3, <2>4, Zenon
<1>11. LeaseBacked'
    BY <1>3, <1>4, <1>5, SMTT(30) DEF IInv, LeaseBacked, OneLeasePerOrder, Has
<1>12. OneLeasePerOrder' /\ CheapestWins'
    BY <1>3, <1>4, <1>5, SMTT(30) DEF IInv, OneLeasePerOrder, CheapestWins, LeaseBacked, Has, BidsForOrder
<1>13. DecidedTogether' /\ BidsWithinPrice'
    BY <1>3, <1>5, Zenon
    DEF IInv, Integrity, Has, DecidedTogether, BidsWithinPrice, OrderOpen, OrderClosed
<1>14. PaidEveryBlock'
    BY <1>3, <1>4, Zenon DEF IInv, PaidEveryBlock, BlocksDue, LeaseOwner, ActiveLeases
<1> QED
    BY <1>1, <1>7, <1>8, <1>9, <1>10, <1>11, <1>12, <1>13, <1>14, ZenonT(30) DEF IInv

-----------------------------------------------------------------------------
(* The end of a block keeps the inductive invariant *)

\* OnEndBlock of x/deployment: new orders are fresh, open, and of active deployments.
LEMMA InvCreateOrders ==
    ASSUME IInv, CreateOrdersForGroups
    PROVE  IInv'
<1> DEFINE gids == Orderable(deployments, groups)
           news == NewOrders(orders, gids)
<1>1. TypeOK' /\ FinitelyManyOrders' /\ OrdersNumbered'
    BY TypeCreateOrders, NumberedCreateOrders, Zenon DEF IInv
<1>2. /\ UNCHANGED <<deployments, bids, leases, height, charges>>
      /\ phase = "deliver" /\ phase' = "pay" /\ todo' = ActiveLeases
    BY Zenon DEF CreateOrdersForGroups
<1>3. \A g \in gids : g \in DOMAIN groups /\ deployments[g[1]] = DeploymentActive
    BY Zenon DEF Orderable
<1>4. \A o \in news : o[1] \in gids /\ o \notin DOMAIN orders
    <2>1. \A g \in gids : NewOrderID(orders, g) \notin DOMAIN orders
        BY <1>3, NewOrdersAreFresh, Zenon DEF IInv
    <2>2. \A o \in news : \E g \in gids : o = NewOrderID(orders, g) /\ o[1] = g
        BY DEF NewOrders, NewOrderID
    <2> QED
        BY <2>1, <2>2, Zenon
<1>5. /\ DOMAIN orders' = DOMAIN orders \cup news
      /\ \A o \in news : orders'[o].state = OrderOpen
      /\ \A o \in DOMAIN orders : orders'[o] = orders[o]
    BY <1>4, ZenonT(30) DEF CreateOrdersForGroups, CreateOrders, PutAll
<1>6. /\ DOMAIN groups' = DOMAIN groups
      /\ \A g \in DOMAIN groups :
            groups'[g].state = IF g \in gids THEN GroupOrdered ELSE groups[g].state
    BY GroupFields DEF IInv, CreateOrdersForGroups, OnOrderCreated
<1>7. \A g \in gids : \E o \in news : o[1] = g
    <2>1. \A g \in gids : NewOrderID(orders, g) \in news /\ NewOrderID(orders, g)[1] = g
        BY Zenon DEF NewOrders, NewOrderID
    <2> QED
        BY <2>1, Zenon
<1> HIDE DEF gids, news
<1>8. Integrity'
    BY <1>2, <1>3, <1>4, <1>5, <1>6, ZenonT(30) DEF IInv, Integrity, Has, ActiveLeases
<1>9. ClosedForGood'
    BY <1>2, <1>3, <1>4, <1>5, <1>6
    DEF IInv, Integrity, Has, ClosedForGood, DeploymentActive, DeploymentClosed
<1>10. GroupStateBacked'
    <2>1. SUFFICES ASSUME NEW g \in DOMAIN groups
                   PROVE  /\ groups'[g].state = GroupOrdered =>
                                \E o \in DOMAIN orders' : o[1] = g /\ orders'[o].state = OrderOpen
                          /\ groups'[g].state = GroupMatched =>
                                \E l \in ActiveLeases : l[1][1] = g
        BY <1>2, <1>6 DEF GroupStateBacked, OrdersForGroup, ActiveLeases
    <2>2. CASE g \in gids
        BY <1>5, <1>6, <1>7, <2>2, ZenonT(30) DEF GroupOrdered, GroupMatched
    <2>3. CASE g \notin gids
        BY <1>5, <1>6, <2>3 DEF IInv, GroupStateBacked, OrdersForGroup
    <2> QED
        BY <2>2, <2>3, ZenonT(30)
<1>11. LeaseBacked' /\ OneLeasePerOrder' /\ CheapestWins'
    BY <1>2, <1>5, ZenonT(30) DEF IInv, LeaseBacked, OneLeasePerOrder, CheapestWins, BidsForOrder, Has
<1>12. DecidedTogether' /\ BidsWithinPrice'
    BY <1>2, <1>5, Zenon DEF IInv, Integrity, Has, DecidedTogether, BidsWithinPrice
<1>13. PaidEveryBlock'
    BY <1>2, Zenon DEF IInv, PaidEveryBlock, BlocksDue, LeaseOwner, ActiveLeases
<1> QED
    BY <1>1, <1>8, <1>9, <1>10, <1>11, <1>12, <1>13, Zenon DEF IInv

\* transferFundsForActiveLeases: a lease that is paid is counted and left alone.
LEMMA InvPayLease ==
    ASSUME IInv, NEW l \in todo, PayLease(l)
    PROVE  IInv'
<1>1. TypeOK'
    BY TypePayLease, Zenon DEF IInv
<1>2. /\ UNCHANGED <<deployments, groups, orders, bids, leases, height, phase>>
      /\ todo' = todo \ {l} /\ phase = "pay"
    BY Zenon DEF PayLease, LoopReaches, marketVars
<1>3. /\ l \in DOMAIN charges /\ DOMAIN charges' = DOMAIN charges
      /\ charges'[l].from = charges[l].from /\ charges'[l].count = charges[l].count + 1
      /\ \A m \in DOMAIN charges : m # l => charges'[m] = charges[m]
    BY Zenon DEF PayLease, Put, IInv, Integrity, ActiveLeases
<1>4. Integrity'
    BY <1>2, <1>3, ZenonT(30) DEF IInv, Integrity, Has, ActiveLeases
<1>5. PaidEveryBlock'
    <2>1. SUFFICES ASSUME NEW m \in ActiveLeases
                   PROVE  /\ charges'[m].count <= BlocksDue(m)'
                          /\ LeaseOwner(m) \notin Vesting => charges'[m].count = BlocksDue(m)'
        BY <1>2, Zenon DEF PaidEveryBlock, ActiveLeases, LeaseOwner
    <2>2. /\ charges[m].count <= BlocksDue(m)
          /\ LeaseOwner(m) \notin Vesting => charges[m].count = BlocksDue(m)
        BY <1>2, Zenon DEF IInv, PaidEveryBlock
    <2>3. m \in DOMAIN charges /\ charges[m].count \in Nat /\ charges[m].from \in Nat /\ height \in Nat
        BY Zenon DEF IInv, TypeOK, IsStore, Integrity, ActiveLeases
    <2> QED
        BY <1>2, <1>3, <2>2, <2>3 DEF BlocksDue
<1> QED
    BY <1>1, <1>2, <1>4, <1>5, SameOrders, SameLeases, SameBids, SameGroups, SameClosed, Zenon DEF IInv

\* transferFundsForActiveLeases: a refused payment leaves the lease one payment behind.
LEMMA InvPaymentRefused ==
    ASSUME IInv, NEW l \in todo, PaymentRefused(l)
    PROVE  IInv'
<1>1. /\ UNCHANGED <<deployments, groups, orders, bids, leases, providers, balance, height, phase, charges>>
      /\ todo' = todo \ {l} /\ phase = "pay" /\ LeaseOwner(l) \in Vesting
    BY Zenon DEF PaymentRefused, LoopReaches, marketVars
<1>2. TypeOK' /\ Integrity'
    BY <1>1, ZenonT(30) DEF IInv, TypeOK, Integrity, Has, ActiveLeases
<1>3. PaidEveryBlock'
    <2>1. SUFFICES ASSUME NEW m \in ActiveLeases
                   PROVE  /\ charges[m].count <= BlocksDue(m)'
                          /\ LeaseOwner(m) \notin Vesting => charges[m].count = BlocksDue(m)'
        BY <1>1, Zenon DEF PaidEveryBlock, ActiveLeases, LeaseOwner
    <2>2. /\ charges[m].count <= BlocksDue(m)
          /\ LeaseOwner(m) \notin Vesting => charges[m].count = BlocksDue(m)
        BY Zenon DEF IInv, PaidEveryBlock
    <2>3. m \in DOMAIN charges /\ charges[m].count \in Nat /\ charges[m].from \in Nat /\ height \in Nat
        BY Zenon DEF IInv, TypeOK, IsStore, Integrity, ActiveLeases
    <2> QED
        BY <1>1, <2>2, <2>3 DEF BlocksDue
<1> QED
    BY <1>1, <1>2, <1>3, SameOrders, SameLeases, SameBids, SameGroups, SameClosed, Zenon DEF IInv

\* transferFundsForActiveLeases: an unpaid lease takes its group out of the market.
LEMMA InvSuspendLease ==
    ASSUME IInv, NEW l \in todo, SuspendLease(l)
    PROVE  IInv'
<1>1. TypeOK'
    BY TypeSuspendLease, Zenon DEF IInv
<1>2. /\ UNCHANGED <<deployments, orders, bids, height, phase, charges>>
      /\ todo' = todo \ {l} /\ phase = "pay"
      /\ l \in DOMAIN leases /\ leases[l].state = LeaseActive
      /\ deployments[l[1][1][1]] # DeploymentClosed
    BY Zenon DEF SuspendLease, LoopReaches, IInv, Integrity, ActiveLeases, ClosedForGood
<1>3. /\ DOMAIN leases' = DOMAIN leases
      /\ \A m \in DOMAIN leases :
            /\ leases'[m].price = leases[m].price
            /\ leases'[m].state = IF m = l THEN LeaseInsufficientFunds ELSE leases[m].state
    BY <1>2, LeaseFields
    DEF IInv, SuspendLease, OnInsufficientFunds, SetState, LeaseActive, LeaseClosed,
        LeaseInsufficientFunds
<1>4. /\ DOMAIN groups' = DOMAIN groups
      /\ \A g \in DOMAIN groups :
            groups'[g].state = IF g = l[1][1] THEN GroupInsufficientFunds ELSE groups[g].state
    BY GroupFields DEF IInv, SuspendLease, OnLeaseInsufficientFunds, SetState
<1>5. Integrity'
    BY <1>2, <1>3, <1>4, Zenon
    DEF IInv, Integrity, Has, ActiveLeases, LeaseActive, LeaseInsufficientFunds
<1>6. FinitelyManyOrders' /\ OrdersNumbered'
    BY <1>2, <1>4, SameOrders, ZenonT(30) DEF IInv
<1>7. ClosedForGood'
    BY <1>2, <1>3, <1>4, SMTT(30) DEF IInv, ClosedForGood, LeaseActive, LeaseInsufficientFunds
<1>8. GroupStateBacked'
    <2>1. SUFFICES ASSUME NEW g \in DOMAIN groups, g # l[1][1]
                   PROVE  /\ groups[g].state = GroupOrdered =>
                                \E o \in OrdersForGroup(orders, g) : orders[o].state = OrderOpen
                          /\ groups[g].state = GroupMatched =>
                                \E m \in DOMAIN leases :
                                    m[1][1] = g /\ leases'[m].state = LeaseActive
        BY <1>2, <1>3, <1>4, SMTT(30)
        DEF GroupStateBacked, ActiveLeases, GroupInsufficientFunds, GroupOrdered, GroupMatched
    <2> QED
        BY <1>2, <1>3, <2>1, SMTT(30) DEF IInv, GroupStateBacked, ActiveLeases
<1>9. LeaseBacked' /\ OneLeasePerOrder' /\ CheapestWins'
    BY <1>2, <1>3, Zenon
    DEF IInv, LeaseBacked, OneLeasePerOrder, CheapestWins, BidsForOrder, Has, LeaseActive,
        LeaseInsufficientFunds
<1>10. PaidEveryBlock'
    BY <1>2, <1>3, Zenon DEF IInv, PaidEveryBlock, BlocksDue, LeaseOwner, ActiveLeases, LeaseActive, LeaseInsufficientFunds
<1> QED
    BY <1>1, <1>2, <1>5, <1>6, <1>7, <1>8, <1>9, <1>10, ZenonT(30) DEF IInv, DecidedTogether, BidsWithinPrice

\* matchOrders: winners are bids on open orders, which have no lease yet and no bid
\* that was decided before.
LEMMA InvMatchOpenOrders ==
    ASSUME IInv, NEW wins \in SUBSET DOMAIN bids, MatchOpenOrders(wins)
    PROVE  IInv'
<1> DEFINE won == OrdersOf(wins)
<1>1. TypeOK'
    BY TypeMatchOpenOrders, Zenon DEF IInv
<1>2. /\ UNCHANGED <<deployments, todo>>
      /\ phase = "pay" /\ phase' = "deliver" /\ todo = {} /\ height' = height + 1
    BY Zenon DEF MatchOpenOrders
<1>3. /\ \A w \in wins : /\ w[1] \in DOMAIN orders /\ orders[w[1]].state = OrderOpen
                         /\ bids[w].state = BidOpen
                         /\ \A c \in DOMAIN bids :
                               c[1] = w[1] /\ bids[c].state = BidOpen => bids[w].price <= bids[c].price
      /\ \A v, w \in wins : v[1] = w[1] => v = w
    BY Zenon DEF MatchOpenOrders, Winners, Contested, Matchable, Cheapest, OpenBids, BidsForOrder
<1>4. \A o : o \in won <=> \E w \in wins : w[1] = o
    BY Zenon DEF OrdersOf
<1>5. \A l \in DOMAIN leases : l \notin wins /\ l[1] \notin won
    BY <1>3, <1>4, SMTT(30)
    DEF IInv, LeaseBacked, DecidedTogether, Has, BidOpen, BidMatched, BidClosed
<1>6. /\ DOMAIN leases' = DOMAIN leases \cup wins
      /\ \A w \in wins : leases'[w].state = LeaseActive /\ leases'[w].price = bids[w].price
      /\ \A l \in DOMAIN leases : leases'[l] = leases[l]
    BY <1>5, Zenon DEF MatchOpenOrders, CreateLeases, PutAll
<1>7. /\ DOMAIN charges' = DOMAIN charges \cup wins
      /\ \A w \in wins : charges'[w].from = height /\ charges'[w].count = 0
      /\ \A l \in DOMAIN charges : charges'[l] = charges[l]
    BY <1>5, Zenon DEF IInv, Integrity, MatchOpenOrders, PutAll
<1>8. /\ DOMAIN bids' = DOMAIN bids
      /\ \A b \in DOMAIN bids :
            /\ bids'[b].price = bids[b].price
            /\ bids'[b].state = IF b \in wins THEN BidMatched
                                ELSE IF b[1] \in won /\ bids[b].state = BidOpen THEN BidLost
                                ELSE bids[b].state
    BY SMTT(30) DEF IInv, TypeOK, IsStore, MatchOpenOrders, MatchBids, SetStates
<1>9. /\ DOMAIN orders' = DOMAIN orders
      /\ \A o \in DOMAIN orders :
            /\ orders'[o].spec = orders[o].spec
            /\ orders'[o].state = IF o \in won THEN OrderMatched ELSE orders[o].state
    BY OrderFields, SMTT(30) DEF IInv, MatchOpenOrders, OnOrderMatched
<1>10. /\ DOMAIN groups' = DOMAIN groups
       /\ \A g \in DOMAIN groups :
             groups'[g].state = IF \E w \in wins : w[1][1] = g THEN GroupMatched
                                ELSE groups[g].state
    <2>1. \A g : g \in {w[1][1] : w \in wins} <=> \E w \in wins : w[1][1] = g
        BY Zenon
    <2> QED
        BY <2>1, GroupFields DEF IInv, MatchOpenOrders, OnLeaseCreated
<1>11. \A w \in wins : deployments[w[1][1][1]] # DeploymentClosed
    BY <1>3, Zenon DEF IInv, ClosedForGood, OrderOpen, OrderClosed
<1> HIDE DEF won
<1>12. Integrity'
    BY <1>2, <1>6, <1>7, <1>8, <1>9, <1>10, ZenonT(30) DEF IInv, Integrity, Has, ActiveLeases
<1>13. FinitelyManyOrders' /\ OrdersNumbered'
    BY <1>9, <1>10, SameOrders, ZenonT(30) DEF IInv
<1>14. ClosedForGood'
    <2>1. \A o \in won : deployments[o[1][1]] # DeploymentClosed
        BY <1>4, <1>11, Zenon
    <2> QED
        BY <1>2, <1>6, <1>8, <1>9, <1>10, <1>11, <2>1, SMTT(30) DEF IInv, ClosedForGood
<1>15. GroupStateBacked'
    <2>1. SUFFICES ASSUME NEW g \in DOMAIN groups
                   PROVE  /\ groups'[g].state = GroupOrdered =>
                                \E o \in DOMAIN orders : o[1] = g /\ orders'[o].state = OrderOpen
                          /\ groups'[g].state = GroupMatched =>
                                \E l \in DOMAIN leases' :
                                    l[1][1] = g /\ leases'[l].state = LeaseActive
        BY <1>9, <1>10 DEF GroupStateBacked, OrdersForGroup, ActiveLeases
    <2>2. CASE \E w \in wins : w[1][1] = g
        BY <1>6, <1>10, <2>2, ZenonT(30) DEF GroupOrdered, GroupMatched
    <2>3. CASE ~\E w \in wins : w[1][1] = g
        BY <1>4, <1>6, <1>9, <1>10, <2>3, SMTT(30) DEF IInv, GroupStateBacked, OrdersForGroup, ActiveLeases
    <2> QED
        BY <2>2, <2>3, ZenonT(30)
<1>16. LeaseBacked'
    BY <1>3, <1>4, <1>5, <1>6, <1>8, <1>9, SMTT(30) DEF IInv, Integrity, LeaseBacked, Has
<1>17. OneLeasePerOrder'
    BY <1>3, <1>4, <1>5, <1>6, Zenon DEF IInv, OneLeasePerOrder
<1>18. CheapestWins'
    <2>1. SUFFICES ASSUME NEW l \in DOMAIN leases'
                   PROVE  /\ leases'[l].price <= orders[l[1]].spec.price
                          /\ \A b \in DOMAIN bids : b[1] = l[1] /\ bids'[b].state = BidLost =>
                                leases'[l].price <= bids[b].price
        BY <1>3, <1>6, <1>8, <1>9, SMTT(30) DEF CheapestWins, BidsForOrder, IInv, LeaseBacked, Has
    <2>2. CASE l \in wins
        BY <1>3, <1>6, <1>8, <2>2, SMTT(30)
        DEF IInv, BidsWithinPrice, DecidedTogether, BidOpen, BidLost, BidMatched
    <2>3. CASE l \in DOMAIN leases
        BY <1>4, <1>5, <1>6, <1>8, <2>3, ZenonT(30) DEF IInv, CheapestWins, BidsForOrder, BidLost, BidMatched
    <2> QED
        BY <1>6, <2>2, <2>3, ZenonT(30)
<1>19. DecidedTogether' /\ BidsWithinPrice'
    BY <1>3, <1>4, <1>8, <1>9, SMTT(30)
    DEF IInv, Integrity, Has, DecidedTogether, BidsWithinPrice, OrderOpen, OrderMatched
<1>20. PaidEveryBlock'
    <2>1. SUFFICES ASSUME NEW l \in DOMAIN leases', leases'[l].state = LeaseActive
                   PROVE  LET due == (height + 1) - charges'[l].from - 1 IN
                          /\ charges'[l].count <= due
                          /\ LeaseOwner(l) \notin Vesting => charges'[l].count = due
        BY <1>2, Zenon DEF PaidEveryBlock, BlocksDue, LeaseOwner, ActiveLeases
    <2>2. height \in Nat
        BY Zenon DEF IInv, TypeOK
    <2>3. CASE l \in wins
        BY <1>7, <2>2, <2>3, SMTT(30)
    <2>4. CASE l \in DOMAIN leases
        <3>1. /\ charges[l].count <= height - charges[l].from - 0
              /\ LeaseOwner(l) \notin Vesting => charges[l].count = height - charges[l].from - 0
            BY <1>2, <1>6, <2>1, <2>4, ZenonT(30) DEF IInv, PaidEveryBlock, BlocksDue, ActiveLeases
        <3>2. l \in DOMAIN charges /\ charges[l].from \in Nat /\ charges[l].count \in Nat
            BY <2>4, ZenonT(30) DEF IInv, TypeOK, IsStore, Integrity
        <3> QED
            BY <1>7, <2>2, <3>1, <3>2, SMTT(30)
    <2> QED
        BY <1>6, <2>3, <2>4, Zenon
<1> QED
    BY <1>1, <1>12, <1>13, <1>14, <1>15, <1>16, <1>17, <1>18, <1>19, <1>20, ZenonT(30) DEF IInv

-----------------------------------------------------------------------------
(* Theorems *)

\* A chain that starts empty satisfies the inductive invariant.
LEMMA InvInit == Init => IInv
<1> SUFFICES ASSUME Init PROVE IInv
    BY Zenon
<1>1. TypeOK
    BY TypeInit, Zenon
<1> QED
    BY <1>1, ZenonT(30)
    DEF Init, EmptyStore, IInv, Integrity, FinitelyManyOrders, OrdersNumbered, ClosedForGood,
        GroupStateBacked, LeaseBacked, OneLeasePerOrder, CheapestWins, DecidedTogether,
        BidsWithinPrice, PaidEveryBlock, BlocksDue, LeaseOwner, ActiveLeases, Has

\* Every handler and every step of the end of a block preserves it.
LEMMA InvNext == IInv /\ [Next]_vars => IInv'
<1> SUFFICES ASSUME IInv, [Next]_vars PROVE IInv'
    BY Zenon
<1>1. ASSUME NEW owner \in Tenants, NEW specs \in GroupSpecs, MsgCreate(owner, specs) PROVE IInv'
    BY <1>1, InvMsgCreate, Zenon
<1>2. ASSUME NEW did \in DOMAIN deployments, MsgClose(did) PROVE IInv'
    BY <1>2, InvMsgClose, Zenon
<1>3. ASSUME NEW oid \in DOMAIN orders, NEW p \in Hosts, NEW price \in BidPrices,
             MsgCreateBid(oid, p, price)
      PROVE  IInv'
    BY <1>3, InvMsgCreateBid, Zenon
<1>4. ASSUME NEW bid \in DOMAIN bids, MsgCloseBid(bid) PROVE IInv'
    BY <1>4, InvMsgCloseBid, Zenon
<1>5. ASSUME NEW oid \in DOMAIN orders, MsgCloseOrder(oid) PROVE IInv'
    BY <1>5, InvMsgCloseOrder, Zenon
<1>6. ASSUME NEW p \in Hosts, NEW attrs \in SUBSET Attributes,
             MsgCreateProvider(p, attrs) \/ MsgUpdateProvider(p, attrs)
      PROVE  IInv'
    <2>1. TypeOK'
        BY <1>6, TypeProvider, Zenon DEF IInv
    <2> QED
        BY <1>6, <2>1, InvOther, Zenon DEF MsgCreateProvider, MsgUpdateProvider, marketVars, blockVars
<1>7. ASSUME NEW a \in Tenants, NEW b \in Tenants, NEW n \in Transfers, BankSend(a, b, n)
      PROVE  IInv'
    <2>1. TypeOK'
        BY <1>7, TypeBankSend, Zenon DEF IInv, Accounts
    <2> QED
        BY <1>7, <2>1, InvOther, Zenon DEF BankSend, marketVars, blockVars
<1>8. CASE CreateOrdersForGroups
    BY <1>8, InvCreateOrders, Zenon
<1>9. ASSUME NEW l \in todo, PayLease(l) PROVE IInv'
    BY <1>9, InvPayLease, Zenon
<1>10. ASSUME NEW l \in todo, PaymentRefused(l) \/ SuspendLease(l) PROVE IInv'
    BY <1>10, InvPaymentRefused, InvSuspendLease, Zenon
<1>11. ASSUME NEW wins \in SUBSET DOMAIN bids, MatchOpenOrders(wins) PROVE IInv'
    BY <1>11, InvMatchOpenOrders, Zenon
<1>12. CASE UNCHANGED vars
    <2>1. TypeOK'
        BY <1>12, Zenon DEF IInv, TypeOK, vars
    <2> QED
        BY <1>12, <2>1, InvOther, Zenon DEF vars
<1> QED
    BY <1>1, <1>2, <1>3, <1>4, <1>5, <1>6, <1>7, <1>8, <1>9, <1>10, <1>11, <1>12, UpdateChangesNothing, ZenonT(30)
    DEF Next, IInv

\* The invariant holds in every state of every execution of the chain.
THEOREM Invariant == Spec => []IInv
BY InvInit, InvNext, PTL DEF Spec

\* Stores stay well typed and no account is overdrawn, whatever the messages and
\* the end-of-block payments.
THEOREM TypeCorrect == Spec => []TypeOK
<1>1. IInv => TypeOK
    BY Zenon DEF IInv
<1> QED
    BY <1>1, Invariant, PTL

\* The records the keepers look up without checking the result are there.
THEOREM ReferencesResolve == Spec => []Integrity
<1>1. IInv => Integrity
    BY Zenon DEF IInv
<1> QED
    BY <1>1, Invariant, PTL

\* After handleMsgClose nothing below the deployment is live again: no later message
\* and no end-of-block step reopens a group, an order, a bid or a lease of it.
THEOREM DeploymentClosedForGood == Spec => []ClosedForGood
<1>1. IInv => ClosedForGood
    BY Zenon DEF IInv
<1> QED
    BY <1>1, Invariant, PTL

\* An ordered group has an open order and a matched group an active lease.
THEOREM GroupsWaitForSomething == Spec => []GroupStateBacked
<1>1. IInv => GroupStateBacked
    BY Zenon DEF IInv
<1> QED
    BY <1>1, Invariant, PTL

\* A lease has the price of its bid, and an active lease a matched bid and order.
THEOREM LeasesFollowBids == Spec => []LeaseBacked
<1>1. IInv => LeaseBacked
    BY Zenon DEF IInv
<1> QED
    BY <1>1, Invariant, PTL

\* matchOrders awards an order at most one lease in the life of the chain.
THEOREM OrdersAwardedOnce == Spec => []OneLeasePerOrder
<1>1. IInv => OneLeasePerOrder
    BY Zenon DEF IInv
<1> QED
    BY <1>1, Invariant, PTL

\* No bid that lost was below the lease that won the order.
THEOREM LowestBidWins == Spec => []CheapestWins
<1>1. IInv => CheapestWins
    BY Zenon DEF IInv
<1> QED
    BY <1>1, Invariant, PTL

\* CreateOrder numbers the orders of a group without gaps, so it overwrites none.
THEOREM OrdersNeverOverwritten == Spec => []OrdersNumbered
<1>1. IInv => OrdersNumbered
    BY Zenon DEF IInv
<1> QED
    BY <1>1, Invariant, PTL

\* transferFundsForActiveLeases pays an active lease once per block and never twice.
THEOREM PaidOncePerBlock == Spec => []PaidEveryBlock
<1>1. IInv => PaidEveryBlock
    BY Zenon DEF IInv
<1> QED
    BY <1>1, Invariant, PTL
-----------------------------------------------------------------------------
(* Steps *)

\* The parts of Forward, one for each store.
DeploymentsForward ==
    \A d \in DOMAIN deployments :
        deployments[d] = DeploymentClosed => deployments'[d] = DeploymentClosed

OrdersForward ==
    \A o \in DOMAIN orders :
        /\ orders[o].state = OrderMatched => orders'[o].state # OrderOpen
        /\ orders[o].state = OrderClosed => orders'[o] = orders[o]

BidsForward ==
    \A b \in DOMAIN bids :
        /\ bids[b].state # BidOpen => bids'[b].price = bids[b].price
        /\ bids[b].state = BidMatched => bids'[b].state \in {BidMatched, BidClosed}
        /\ bids[b].state \in {BidLost, BidClosed} => bids'[b] = bids[b]

LeasesForward ==
    \A l \in DOMAIN leases :
        /\ leases'[l].price = leases[l].price
        /\ leases[l].state # LeaseActive => leases'[l] = leases[l]

\* Every store forward is Forward.
LEMMA AllForward == DeploymentsForward /\ OrdersForward /\ BidsForward /\ LeasesForward => Forward
BY Zenon DEF DeploymentsForward, OrdersForward, BidsForward, LeasesForward, Forward

\* A store in which the decided records stay goes forward.
LEMMA KeptForward ==
    /\ UNCHANGED deployments => DeploymentsForward
    /\ (\A o \in DOMAIN orders : orders[o].state # OrderOpen => orders'[o] = orders[o]) => OrdersForward
    /\ (\A b \in DOMAIN bids : bids[b].state # BidOpen => bids'[b] = bids[b]) => BidsForward
    /\ (\A l \in DOMAIN leases : leases'[l] = leases[l]) => LeasesForward
<1>1. UNCHANGED deployments => DeploymentsForward
    BY Zenon DEF DeploymentsForward
<1>2. (\A o \in DOMAIN orders : orders[o].state # OrderOpen => orders'[o] = orders[o]) => OrdersForward
    BY Zenon DEF OrdersForward, OrderOpen, OrderMatched, OrderClosed
<1>3. (\A b \in DOMAIN bids : bids[b].state # BidOpen => bids'[b] = bids[b]) => BidsForward
    BY Zenon DEF BidsForward, BidOpen, BidMatched, BidLost, BidClosed
<1>4. (\A l \in DOMAIN leases : leases'[l] = leases[l]) => LeasesForward
    BY Zenon DEF LeasesForward
<1> QED
    BY <1>1, <1>2, <1>3, <1>4, Zenon

\* Closing orders goes forward: one that is closed already stays as it is.
LEMMA CloseOrdersForward ==
    ASSUME TypeOK, NEW ks, orders' = SetStates(orders, ks, OrderClosed)
    PROVE  OrdersForward
BY Zenon DEF TypeOK, IsStore, SetStates, OrdersForward, OrderMatched, OrderOpen, OrderClosed

\* Closing bids that have not lost goes forward.
LEMMA CloseBidsForward ==
    ASSUME TypeOK, NEW ks, bids' = SetStates(bids, ks, BidClosed),
           \A b \in DOMAIN bids : b \in ks => bids[b].state # BidLost
    PROVE  BidsForward
BY SMTT(30) DEF TypeOK, IsStore, SetStates, BidsForward, BidMatched, BidLost, BidClosed

\* Giving active leases another state goes forward.
LEMMA EndLeasesForward ==
    ASSUME TypeOK, NEW ks, NEW s, leases' = SetStates(leases, ks, s),
           \A l \in DOMAIN leases : l \in ks => leases[l].state = LeaseActive
    PROVE  LeasesForward
BY Zenon DEF TypeOK, IsStore, SetStates, LeasesForward

\* OnLeaseClosed and OnInsufficientFunds do so: they leave a lease that has ended alone.
LEMMA EndLeaseForward ==
    ASSUME TypeOK, NEW l \in DOMAIN leases,
           leases' = OnLeaseClosed(leases, l) \/ leases' = OnInsufficientFunds(leases, l)
    PROVE  LeasesForward
<1>1. CASE leases' = leases
    BY <1>1, KeptForward, Zenon
<1>2. CASE leases' # leases
    <2>1. leases[l].state = LeaseActive
        BY <1>2, Zenon DEF OnLeaseClosed, OnInsufficientFunds, TypeOK, IsStore, LeaseStates
    <2>2. \E s : leases' = SetStates(leases, {l}, s)
        BY <1>2, Zenon DEF OnLeaseClosed, OnInsufficientFunds, SetState
    <2>3. PICK s : leases' = SetStates(leases, {l}, s)
        BY <2>2, Zenon
    <2> QED
        BY <2>1, <2>3, EndLeasesForward
<1> QED
    BY <1>1, <1>2, Zenon

\* No message and no step of the end of a block takes a record back.
LEMMA StepForward == IInv /\ Next => Forward
<1> SUFFICES ASSUME IInv, Next PROVE Forward
    BY Zenon
<1>t. TypeOK
    BY Zenon DEF IInv
<1>1. ASSUME NEW owner \in Tenants, NEW specs \in GroupSpecs, MsgCreate(owner, specs) PROVE Forward
    <2>1. DeploymentsForward
        BY <1>1, Zenon DEF MsgCreate, CreateDeployment, Put, Has, DeploymentsForward
    <2> QED
        BY <1>1, <2>1, KeptForward, AllForward, Zenon DEF MsgCreate, marketVars
<1>2. ASSUME NEW did \in DOMAIN deployments, MsgClose(did) PROVE Forward
    <2>1. DeploymentsForward
        BY <1>2, Zenon DEF MsgClose, UpdateDeployment, Has, Put, DeploymentsForward
    <2>2. OrdersForward
        BY <1>2, <1>t, CloseOrdersForward, ZenonT(30) DEF MsgClose, GroupClosedOrders
    <2>3. BidsForward
        BY <1>2, <1>t, CloseBidsForward, SMTT(30) DEF MsgClose, GroupClosedBids
    <2>4. LeasesForward
        BY <1>2, <1>t, EndLeasesForward DEF MsgClose, GroupClosedLeases
    <2> QED
        BY <2>1, <2>2, <2>3, <2>4, AllForward, Zenon
<1>3. ASSUME NEW oid \in DOMAIN orders, NEW p \in Hosts, NEW price \in BidPrices,
             MsgCreateBid(oid, p, price)
      PROVE  Forward
    <2>1. \A b \in DOMAIN bids : bids[b].state # BidOpen => bids'[b] = bids[b]
        BY <1>3 DEF MsgCreateBid, CreateBid, CanBid, Put, IInv, DecidedTogether
    <2> QED
        BY <1>3, <2>1, KeptForward, AllForward, ZenonT(30) DEF MsgCreateBid
<1>4. ASSUME NEW bid \in DOMAIN bids, MsgCloseBid(bid) PROVE Forward
    <2>1. OrdersForward
        BY <1>4, <1>t, CloseOrdersForward, Zenon DEF MsgCloseBid, OnOrderClosed, SetState
    <2>2. BidsForward
        <3>1. bids[bid].state = BidMatched /\ bids' = SetStates(bids, {bid}, BidClosed)
            BY <1>4, Zenon DEF MsgCloseBid, OnBidClosed, SetState, BidMatched, BidClosed, BidLost
        <3> QED
            BY <1>t, <3>1, CloseBidsForward DEF BidMatched, BidLost
    <2>3. LeasesForward
        BY <1>4, <1>t, EndLeaseForward, Zenon DEF MsgCloseBid, Has
    <2> QED
        BY <1>4, <2>1, <2>2, <2>3, KeptForward, AllForward, Zenon DEF MsgCloseBid
<1>5. ASSUME NEW oid \in DOMAIN orders, MsgCloseOrder(oid) PROVE Forward
    <2>1. OrdersForward
        BY <1>5, <1>t, CloseOrdersForward, Zenon DEF MsgCloseOrder, OnOrderClosed, SetState
    <2>2. PICK lid \in LeasesForOrder(leases, bids, oid) : leases' = OnLeaseClosed(leases, lid)
        BY <1>5, Zenon DEF MsgCloseOrder
    <2>3. LeasesForward
        BY <2>2, <1>t, EndLeaseForward, Zenon DEF LeasesForOrder
    <2> QED
        BY <1>5, <2>1, <2>3, KeptForward, AllForward, Zenon DEF MsgCloseOrder
<1>6. ASSUME NEW l \in todo, SuspendLease(l) PROVE Forward
    <2>1. LeasesForward
        BY <1>6, <1>t, EndLeaseForward, Zenon DEF SuspendLease, TypeOK
    <2> QED
        BY <1>6, <2>1, KeptForward, AllForward, Zenon DEF SuspendLease
<1>7. CASE CreateOrdersForGroups
    <2> DEFINE gids == Orderable(deployments, groups)
    <2>1. \A o \in DOMAIN orders : o \notin NewOrders(orders, gids)
        BY <1>t, NewOrdersAreFresh, Zenon DEF IInv, NewOrders, Orderable
    <2>2. \A o \in DOMAIN orders : orders'[o] = orders[o]
        BY <1>7, <2>1, Zenon DEF CreateOrdersForGroups, CreateOrders, PutAll
    <2> QED
        BY <1>7, <2>2, KeptForward, AllForward, Zenon DEF CreateOrdersForGroups
<1>8. ASSUME NEW wins \in SUBSET DOMAIN bids, MatchOpenOrders(wins) PROVE Forward
    <2>1. /\ \A w \in wins : orders[w[1]].state = OrderOpen
          /\ \A w \in wins : bids[w].state = BidOpen
        BY <1>8, Zenon DEF MatchOpenOrders, Winners, Contested, Matchable, Cheapest, OpenBids, BidsForOrder
    <2>2. \A o \in OrdersOf(wins) : orders[o].state = OrderOpen
        BY <2>1, Zenon DEF OrdersOf
    <2>3. \A o \in DOMAIN orders : orders[o].state # OrderOpen => orders'[o] = orders[o]
        BY <1>8, <2>2, Zenon DEF MatchOpenOrders, OnOrderMatched, SetStates
    <2>4. \A b \in DOMAIN bids : bids[b].state # BidOpen => bids'[b] = bids[b]
        BY <1>8, <2>1, Zenon DEF MatchOpenOrders, MatchBids, SetStates
    <2>5. \A l \in DOMAIN leases : l \notin wins
        BY <2>1, Zenon DEF IInv, LeaseBacked, BidOpen, BidMatched, BidClosed
    <2>6. \A l \in DOMAIN leases : leases'[l] = leases[l]
        BY <1>8, <2>5, Zenon DEF MatchOpenOrders, CreateLeases, PutAll
    <2> QED
        BY <1>8, <2>3, <2>4, <2>6, KeptForward, AllForward, Zenon DEF MatchOpenOrders
<1>9. ASSUME UNCHANGED <<deployments, orders, bids, leases>> PROVE Forward
    BY <1>9, KeptForward, AllForward, Zenon
<1> QED
    BY <1>1, <1>2, <1>3, <1>4, <1>5, <1>6, <1>7, <1>8, <1>9, UpdateChangesNothing, ZenonT(30)
    DEF Next, IInv, vars, marketVars, MsgCreateProvider, MsgUpdateProvider, BankSend,
        PayLease, PaymentRefused

\* A store in which only keys of K differ from before.
Within(old, new, K) == \A k \in DOMAIN new : k \in K \/ (k \in DOMAIN old /\ new[k] = old[k])

\* What the operations on stores change is what they name.
LEMMA StoresWithin ==
    ASSUME NEW S, NEW K
    PROVE  /\ Within(S, S, K)
           /\ \A k \in K : \A v : Within(S, Put(S, k, v), K)
           /\ \A ks \in SUBSET K : \A vs : Within(S, PutAll(S, ks, vs), K)
           /\ \A ks : \A s : ks \cap DOMAIN S \subseteq K => Within(S, SetStates(S, ks, s), K)
BY Zenon DEF Within, Put, PutAll, SetStates

\* A step that writes only below one deployment touches no other.
LEMMA TouchesOne ==
    ASSUME NEW did,
           Within(deployments, deployments', {did}),
           Within(groups, groups', {g \in DOMAIN groups' : g[1] = did}),
           Within(orders, orders', {o \in DOMAIN orders' : o[1][1] = did}),
           Within(bids, bids', {b \in DOMAIN bids' : b[1][1][1] = did}),
           Within(leases, leases', {l \in DOMAIN leases' : l[1][1][1] = did})
    PROVE  OneDeploymentPerMessage
<1> SUFFICES ASSUME NEW d, Touched(d) PROVE d = did
    BY Zenon DEF OneDeploymentPerMessage
<1> QED
    BY DEF Touched, Within, Has

\* Every message writes below one deployment: the one it creates or closes, or the one of the
\* order or bid it names.
LEMMA StepTouchesOne == IInv /\ Next => OneDeploymentPerMessage
<1> SUFFICES ASSUME IInv, Next, phase = "deliver", phase' = "deliver" PROVE OneDeploymentPerMessage
    BY Zenon DEF OneDeploymentPerMessage
<1> DEFINE D(did) == Within(deployments, deployments', {did})
           G(did) == Within(groups, groups', {g \in DOMAIN groups' : g[1] = did})
           O(did) == Within(orders, orders', {o \in DOMAIN orders' : o[1][1] = did})
           B(did) == Within(bids, bids', {b \in DOMAIN bids' : b[1][1][1] = did})
           L(did) == Within(leases, leases', {l \in DOMAIN leases' : l[1][1][1] = did})
<1>u. /\ UNCHANGED deployments => \A did : D(did)
      /\ UNCHANGED groups => \A did : G(did)
      /\ UNCHANGED orders => \A did : O(did)
      /\ UNCHANGED bids => \A did : B(did)
      /\ UNCHANGED leases => \A did : L(did)
    BY Zenon DEF Within
<1>q. ASSUME NEW did, D(did), G(did), O(did), B(did), L(did) PROVE OneDeploymentPerMessage
    BY <1>q, TouchesOne, Zenon
<1>1. ASSUME NEW owner \in Tenants, NEW specs \in GroupSpecs, MsgCreate(owner, specs)
      PROVE  OneDeploymentPerMessage
    <2>1. D(<<owner, height>>)
        BY <1>1, ZenonT(30) DEF MsgCreate, CreateDeployment, Put, Within
    <2>2. G(<<owner, height>>)
        BY <1>1 DEF MsgCreate, CreateGroups, NewGroupIDs, PutAll, Within
    <2> HIDE DEF D, G, O, B, L
    <2> QED
        BY <1>1, <1>u, <1>q, <2>1, <2>2, Zenon DEF MsgCreate, marketVars
<1>2. ASSUME NEW did \in DOMAIN deployments, MsgClose(did) PROVE OneDeploymentPerMessage
    <2>1. D(did)
        BY <1>2, Zenon DEF MsgClose, UpdateDeployment, Has, Put, Within
    <2>2. G(did)
        BY <1>2, Zenon DEF MsgClose, OnDeploymentClosed, GetGroups, SetStates, Within
    <2>3. O(did)
        BY <1>2, Zenon DEF MsgClose, GroupClosedOrders, OrdersOfGroups, GetGroups, SetStates, Within
    <2>4. B(did)
        BY <1>2, Zenon DEF MsgClose, GroupClosedBids, OrdersOfGroups, GetGroups, SetStates, Within
    <2>5. L(did)
        BY <1>2, Zenon DEF MsgClose, GroupClosedLeases, OrdersOfGroups, GetGroups, SetStates, Within
    <2> HIDE DEF D, G, O, B, L
    <2> QED
        BY <1>q, <2>1, <2>2, <2>3, <2>4, <2>5, Zenon
<1>3. ASSUME NEW oid \in DOMAIN orders, NEW p \in Hosts, NEW price \in BidPrices,
             MsgCreateBid(oid, p, price)
      PROVE  OneDeploymentPerMessage
    <2>1. B(oid[1][1])
        BY <1>3 DEF MsgCreateBid, CreateBid, Put, Within
    <2> HIDE DEF D, G, O, B, L
    <2> QED
        BY <1>3, <1>u, <1>q, <2>1, ZenonT(30) DEF MsgCreateBid
<1>4. ASSUME NEW bid \in DOMAIN bids, MsgCloseBid(bid) PROVE OneDeploymentPerMessage
    <2> DEFINE did == bid[1][1][1]
    <2>1. G(did)
        BY <1>4, Zenon DEF MsgCloseBid, GroupOnLeaseClosed, SetState, SetStates, Within
    <2>2. O(did)
        BY <1>4, Zenon DEF MsgCloseBid, OnOrderClosed, SetState, SetStates, Within
    <2>3. B(did)
        BY <1>4, Zenon DEF MsgCloseBid, OnBidClosed, SetState, SetStates, Within
    <2>4. L(did)
        BY <1>4, Zenon DEF MsgCloseBid, OnLeaseClosed, SetState, SetStates, Within
    <2> HIDE DEF D, G, O, B, L, did
    <2> QED
        BY <1>4, <1>u, <1>q, <2>1, <2>2, <2>3, <2>4, ZenonT(30) DEF MsgCloseBid
<1>5. ASSUME NEW oid \in DOMAIN orders, MsgCloseOrder(oid) PROVE OneDeploymentPerMessage
    <2> DEFINE did == oid[1][1]
    <2>1. G(did)
        BY <1>5, Zenon DEF MsgCloseOrder, GroupOnLeaseClosed, SetState, SetStates, Within
    <2>2. O(did)
        BY <1>5, Zenon DEF MsgCloseOrder, OnOrderClosed, SetState, SetStates, Within
    <2>3. L(did)
        <3>1. PICK lid \in LeasesForOrder(leases, bids, oid) : leases' = OnLeaseClosed(leases, lid)
            BY <1>5, Zenon DEF MsgCloseOrder
        <3> QED
            BY <3>1, Zenon DEF LeasesForOrder, BidsForOrder, OnLeaseClosed, SetState, SetStates, Within
    <2> HIDE DEF D, G, O, B, L, did
    <2> QED
        BY <1>5, <1>u, <1>q, <2>1, <2>2, <2>3, Zenon DEF MsgCloseOrder
<1>6. ASSUME UNCHANGED <<deployments, groups, orders, bids, leases>> PROVE OneDeploymentPerMessage
    <2> HIDE DEF D, G, O, B, L
    <2> QED
        BY <1>6, <1>u, <1>q, Zenon
<1>7. ~CreateOrdersForGroups /\ \A wins : ~MatchOpenOrders(wins)
    BY Zenon DEF CreateOrdersForGroups, MatchOpenOrders
<1>8. \A l : ~PayLease(l) /\ ~PaymentRefused(l) /\ ~SuspendLease(l)
    BY Zenon DEF PayLease, PaymentRefused, SuspendLease, LoopReaches
<1> QED
    BY <1>1, <1>2, <1>3, <1>4, <1>5, <1>6, <1>7, <1>8, UpdateChangesNothing, ZenonT(30)
    DEF Next, IInv, vars, marketVars, MsgCreateProvider, MsgUpdateProvider, BankSend

\* Only the last step of a block changes the height, and it leaves no order that may be
\* matched with an open bid (matchOrders).
LEMMA StepMatchesAll == IInv /\ Next => NoneLeftUnmatched
<1> SUFFICES ASSUME IInv, Next, height' # height PROVE NoneLeftUnmatched
    BY Zenon DEF NoneLeftUnmatched
<1>1. PICK wins \in SUBSET DOMAIN bids : MatchOpenOrders(wins)
    BY ZenonT(30) DEF Next, MsgUpdate, vars, blockVars, MsgCreate, MsgClose, MsgCreateBid, MsgCloseBid,
        MsgCloseOrder, MsgCreateProvider, MsgUpdateProvider, BankSend, CreateOrdersForGroups,
        PayLease, PaymentRefused, SuspendLease
<1>2. /\ DOMAIN orders' = DOMAIN orders
      /\ \A o \in DOMAIN orders :
            /\ orders'[o].startAt = orders[o].startAt
            /\ orders'[o].state = IF o \in OrdersOf(wins) THEN OrderMatched ELSE orders[o].state
    BY <1>1, OrderFields DEF IInv, MatchOpenOrders, OnOrderMatched
<1>3. /\ DOMAIN bids' = DOMAIN bids
      /\ \A b \in DOMAIN bids : bids'[b].state = BidOpen => bids[b].state = BidOpen
    BY <1>1, SMTT(30) DEF IInv, TypeOK, IsStore, MatchOpenOrders, MatchBids, SetStates,
        BidMatched, BidLost, BidOpen
<1>4. SUFFICES ASSUME NEW o \in DOMAIN orders', orders'[o].state = OrderOpen,
                      orders'[o].startAt <= height, NEW b \in DOMAIN bids', b[1] = o,
                      bids'[b].state = BidOpen
               PROVE  FALSE
    BY Zenon DEF NoneLeftUnmatched, OpenBids, BidsForOrder
<1>5. o \notin OrdersOf(wins) /\ o \in DOMAIN orders /\ orders[o].state = OrderOpen
    BY <1>2, <1>4, Zenon DEF OrderOpen, OrderMatched
<1>6. o \in Contested
    BY <1>2, <1>3, <1>4, <1>5, Zenon DEF Contested, Matchable, OpenBids, BidsForOrder
<1> QED
    BY <1>1, <1>5, <1>6, Zenon DEF MatchOpenOrders, Winners, OrdersOf

\* Every step of the chain is proper: no record goes back, no message writes below more than
\* one deployment, and no block ends with an order that could have been matched.
THEOREM StepsAreProper == Spec => ProperSteps
<1>1. IInv /\ [Next]_vars => [Forward /\ OneDeploymentPerMessage /\ NoneLeftUnmatched]_vars
    BY StepForward, StepTouchesOne, StepMatchesAll, Zenon
<1> QED
    BY <1>1, Invariant, PTL DEF Spec, ProperSteps

-----------------------------------------------------------------------------
(* Earnings *)

\* There are finitely many bids and leases, so that what was paid for them adds up.
FinitelyMany == IsFiniteSet(DOMAIN bids) /\ IsFiniteSet(DOMAIN leases)

EarnInv == FinitelyMany /\ ProvidersEarnTheirLeases

\* Nobody is paid, and no lease is added.
LEMMA EarnSame ==
    ASSUME EarnInv, IsFiniteSet(DOMAIN bids'), DOMAIN leases' = DOMAIN leases, charges' = charges,
           \A l \in DOMAIN leases : leases'[l].price = leases[l].price,
           \A p \in Hosts \ Tenants : balance'[p] = balance[p]
    PROVE  EarnInv'
<1>1. Paid' = Paid /\ \A p : LeasesOf(p)' = LeasesOf(p)
    BY Zenon DEF Paid, LeasesOf
<1> QED
    BY <1>1, Zenon DEF EarnInv, FinitelyMany, ProvidersEarnTheirLeases

\* The leases of a provider are finitely many and have been paid a number of coins.
LEMMA PaidFacts ==
    ASSUME IInv, FinitelyMany, NEW p
    PROVE  /\ Paid \in [DOMAIN leases -> Nat]
           /\ LeasesOf(p) \subseteq DOMAIN leases /\ IsFiniteSet(LeasesOf(p))
<1>1. ASSUME NEW l \in DOMAIN leases PROVE charges[l].count * leases[l].price \in Nat
    <2>1. charges[l].count \in Nat /\ leases[l].price \in Nat
        BY Zenon DEF IInv, TypeOK, Integrity, IsStore
    <2> QED
        BY <2>1
<1>2. Paid \in [DOMAIN leases -> Nat]
    BY <1>1, Zenon DEF Paid
<1>3. LeasesOf(p) \subseteq DOMAIN leases
    BY Zenon DEF LeasesOf
<1> QED
    BY <1>2, <1>3, FS_Subset, Zenon DEF FinitelyMany

\* Coins that a tenant sends reach the receiver, and nobody else's change but the tenant's.
LEMMA Received ==
    ASSUME balance \in [Accounts -> Nat],
           NEW a, NEW b, NEW n, balance' = SendCoins(balance, a, b, n),
           NEW p \in Accounts, p # a
    PROVE  /\ p = b => balance'[p] = balance[p] + n
           /\ p # b => balance'[p] = balance[p]
BY Zenon DEF SendCoins

\* transferFundsForActiveLeases: the provider of the lease gets what is counted as paid for it.
LEMMA EarnPayLease ==
    ASSUME IInv, EarnInv, NEW l \in todo, PayLease(l)
    PROVE  EarnInv'
<1>1. leases' = leases /\ bids' = bids /\ l \in DOMAIN leases
    BY Zenon DEF PayLease, marketVars, IInv, TypeOK
<1>2. LeaseOwner(l) \in Tenants /\ l[2] \in Hosts /\ leases[l].price \in Nat
    <2>1. l \in BidIDs /\ leases[l].price \in Nat
        BY <1>1, ZenonT(30) DEF IInv, TypeOK, IsStore
    <2> QED
        BY <2>1, Zenon DEF LeaseOwner, BidIDs, OrderIDs, GroupIDs, DeploymentIDs
<1>3. /\ charges'[l].count = charges[l].count + 1 /\ charges[l].count \in Nat
      /\ \A m \in DOMAIN leases : m # l => charges'[m] = charges[m]
    BY <1>1, Zenon DEF PayLease, Put, IInv, Integrity, TypeOK, IsStore
<1>4. Paid \in [DOMAIN leases -> Nat] /\ \A p : LeasesOf(p) \subseteq DOMAIN leases /\ IsFiniteSet(LeasesOf(p))
    BY PaidFacts, Zenon DEF EarnInv
<1>5. /\ Paid'[l] = Paid[l] + leases[l].price
      /\ \A m \in DOMAIN leases : m # l => Paid'[m] = Paid[m]
    <2>1. ASSUME NEW c \in Nat, NEW n \in Nat PROVE (c + 1) * n = c * n + n
        OBVIOUS
    <2>2. Paid'[l] = (charges[l].count + 1) * leases[l].price /\ Paid[l] = charges[l].count * leases[l].price
        BY <1>1, <1>3, Zenon DEF Paid
    <2>3. \A m \in DOMAIN leases : m # l => Paid'[m] = Paid[m]
        BY <1>1, <1>3, Zenon DEF Paid
    <2> QED
        BY <1>2, <1>3, <2>1, <2>2, <2>3, Zenon
<1>6. ASSUME NEW p \in Hosts \ Tenants PROVE balance'[p] = SumFunctionOnSet(Paid', LeasesOf(p))
    <2>1. PICK S, f, g : S = LeasesOf(p) /\ f = Paid' /\ g = Paid
        BY Zenon
    <2>2. /\ IsFiniteSet(S) /\ S \subseteq DOMAIN leases
          /\ \A m \in S : g[m] \in Nat
          /\ \A m \in S : m # l => f[m] = g[m]
          /\ f[l] = g[l] + leases[l].price
        BY <1>4, <1>5, <2>1, Zenon
    <2>3. balance[p] = SumFunctionOnSet(g, S)
        BY <2>1, Zenon DEF EarnInv, ProvidersEarnTheirLeases
    <2>4. /\ p = l[2] => balance'[p] = balance[p] + leases[l].price
          /\ p # l[2] => balance'[p] = balance[p]
        <3>1. /\ balance' = SendCoins(balance, LeaseOwner(l), l[2], leases[l].price)
              /\ balance \in [Accounts -> Nat] /\ p \in Accounts /\ p # LeaseOwner(l)
            BY <1>2, Zenon DEF PayLease, IInv, TypeOK, Accounts
        <3> QED
            BY <3>1, Received, SMTT(20)
    <2>5. CASE p # l[2]
        <3>1. \A m \in S : f[m] = g[m] /\ f[m] \in Nat
            BY <2>1, <2>2, <2>5, Zenon DEF LeasesOf
        <3>2. Extends(f, S, g, S)
            BY <2>2, <3>1, Zenon DEF Extends, Addable
        <3>3. SumFunctionOnSet(f, S) = SumFunctionOnSet(g, S)
            BY <3>2, SumSame, SMTT(20)
        <3> QED
            BY <2>1, <2>3, <2>4, <2>5, <3>3, Zenon
    <2>6. CASE p = l[2]
        <3>1. l \in S
            BY <1>1, <2>1, <2>6, Zenon DEF LeasesOf
        <3>2. f[l] \in Nat /\ g[l] \in Nat
            BY <1>2, <2>2, <3>1
        <3>3. Addable(f, S) /\ Addable(g, S)
            BY <2>2, <3>2, Zenon DEF Addable
        <3>4. PICK R : R = S \ {l}
            BY Zenon
        <3>5. Extends(f, R, g, R) /\ Addable(g, R)
            <4>1. R \subseteq S /\ l \notin R
                BY <3>4
            <4>2. IsFiniteSet(R)
                BY <2>2, <4>1, FS_Subset, Zenon
            <4> QED
                BY <2>2, <4>1, <4>2, Zenon DEF Extends, Addable
        <3>6. SumFunctionOnSet(f, R) = SumFunctionOnSet(g, R)
            BY <3>5, SumSame, SMTT(20)
        <3>7. SumFunctionOnSet(g, R) \in Nat
            BY <3>5, SumTakes, Zenon
        <3>8. SumFunctionOnSet(f, S) = f[l] + SumFunctionOnSet(f, R)
            BY <3>1, <3>3, <3>4, SumTakes, SMTT(20)
        <3>9. SumFunctionOnSet(g, S) = g[l] + SumFunctionOnSet(g, R)
            BY <3>1, <3>3, <3>4, SumTakes, SMTT(20)
        <3>10. SumFunctionOnSet(f, S) = SumFunctionOnSet(g, S) + leases[l].price
            <4>1. PICK u, v, n : u = g[l] /\ v = SumFunctionOnSet(g, R) /\ n = leases[l].price
                BY Zenon
            <4>2. u \in Nat /\ v \in Nat /\ n \in Nat
                BY <1>2, <3>2, <3>7, <4>1, Zenon
            <4>3. (u + n) + v = (u + v) + n
                BY <4>2
            <4>4. SumFunctionOnSet(f, S) = (u + n) + v /\ SumFunctionOnSet(g, S) = u + v
                BY <2>2, <3>6, <3>8, <3>9, <4>1, Zenon
            <4> QED
                BY <4>1, <4>3, <4>4, Zenon
        <3> QED
            BY <2>1, <2>3, <2>4, <2>6, <3>10, Zenon
    <2> QED
        BY <2>5, <2>6, Zenon
<1>7. \A p : LeasesOf(p)' = LeasesOf(p)
    BY <1>1, Zenon DEF LeasesOf
<1> QED
    BY <1>1, <1>6, <1>7, Zenon DEF EarnInv, FinitelyMany, ProvidersEarnTheirLeases

\* matchOrders: nothing has been paid for a lease that begins.
LEMMA EarnMatchOpenOrders ==
    ASSUME IInv, EarnInv, NEW wins \in SUBSET DOMAIN bids, MatchOpenOrders(wins)
    PROVE  EarnInv'
<1>1. balance' = balance
    BY Zenon DEF MatchOpenOrders
<1>2. \A w \in wins : bids[w].state = BidOpen /\ bids[w].price \in Nat
    BY Zenon DEF MatchOpenOrders, Winners, Cheapest, OpenBids, IInv, TypeOK, IsStore
<1>3. \A l \in DOMAIN leases : l \notin wins
    BY <1>2, SMTT(30) DEF IInv, LeaseBacked, BidOpen, BidMatched, BidClosed
<1>4. /\ DOMAIN leases' = DOMAIN leases \cup wins
      /\ \A w \in wins : leases'[w].price = bids[w].price
      /\ \A l \in DOMAIN leases : leases'[l] = leases[l]
    BY <1>3, Zenon DEF MatchOpenOrders, CreateLeases, PutAll
<1>5. /\ \A w \in wins : charges'[w].count = 0
      /\ \A l \in DOMAIN leases : charges'[l] = charges[l]
    BY <1>3, Zenon DEF IInv, Integrity, MatchOpenOrders, PutAll
<1>6. DOMAIN bids' = DOMAIN bids
    BY Zenon DEF MatchOpenOrders, MatchBids, SetStates
<1>7. IsFiniteSet(DOMAIN leases')
    <2>1. IsFiniteSet(wins)
        BY FS_Subset, Zenon DEF EarnInv, FinitelyMany
    <2> QED
        BY <1>4, <2>1, FS_Union, Zenon DEF EarnInv, FinitelyMany
<1>8. /\ \A l \in DOMAIN leases : Paid'[l] = Paid[l]
      /\ \A w \in wins : Paid'[w] = 0
    <2>1. \A l \in DOMAIN leases : Paid'[l] = Paid[l]
        BY <1>4, <1>5, Zenon DEF Paid
    <2>2. \A w \in wins : Paid'[w] = 0 * bids[w].price
        BY <1>4, <1>5, Zenon DEF Paid
    <2>3. \A n \in Nat : 0 * n = 0
        OBVIOUS
    <2> QED
        BY <1>2, <2>1, <2>2, <2>3, Zenon
<1>9. ASSUME NEW p \in Hosts \ Tenants PROVE balance[p] = SumFunctionOnSet(Paid', LeasesOf(p)')
    <2>1. PICK S, T, f, g : S = LeasesOf(p)' /\ T = LeasesOf(p) /\ f = Paid' /\ g = Paid
        BY Zenon
    <2>2. /\ S \subseteq DOMAIN leases' /\ T \subseteq S /\ T \subseteq DOMAIN leases
          /\ \A m \in S \ T : m \in wins
        BY <1>4, <2>1, Zenon DEF LeasesOf
    <2>3. IsFiniteSet(S)
        BY <1>7, <2>2, FS_Subset, Zenon
    <2>4. /\ \A m \in T : f[m] = g[m]
          /\ \A m \in S \ T : f[m] = 0
        BY <1>8, <2>1, <2>2, Zenon
    <2>5. \A m \in T : g[m] \in Nat
        BY <2>1, <2>2, PaidFacts, Zenon DEF EarnInv
    <2>6. 0 \in Nat
        OBVIOUS
    <2>7. Extends(f, S, g, T)
        BY <2>2, <2>3, <2>4, <2>5, <2>6, Zenon DEF Extends, Addable
    <2>8. SumFunctionOnSet(f, S) = SumFunctionOnSet(g, T)
        BY <2>7, SumSame, SMTT(20)
    <2> QED
        BY <2>1, <2>8, Zenon DEF EarnInv, ProvidersEarnTheirLeases
<1> QED
    BY <1>1, <1>6, <1>7, <1>9, Zenon DEF EarnInv, FinitelyMany, ProvidersEarnTheirLeases

\* Closing or suspending a lease leaves every lease in the store.
LEMMA LeasesStay ==
    ASSUME NEW L, NEW l
    PROVE  /\ DOMAIN OnLeaseClosed(L, l) = DOMAIN L
           /\ DOMAIN OnInsufficientFunds(L, l) = DOMAIN L
<1>1. DOMAIN OnLeaseClosed(L, l) = DOMAIN L
    BY Zenon DEF OnLeaseClosed, SetState, SetStates
<1>2. DOMAIN OnInsufficientFunds(L, l) = DOMAIN L
    BY Zenon DEF OnInsufficientFunds, SetState, SetStates
<1> QED
    BY <1>1, <1>2

\* Only a payment changes what a provider holds, and only a match adds a lease.
LEMMA EarnNext == IInv /\ EarnInv /\ [Next]_vars => EarnInv'
<1> SUFFICES ASSUME IInv, EarnInv, [Next]_vars PROVE EarnInv'
    BY Zenon
<1>1. CASE UNCHANGED vars
    BY <1>1, EarnSame, Zenon DEF vars, EarnInv, FinitelyMany
<1>2. ASSUME Next, charges' = charges, DOMAIN leases' = DOMAIN leases, IsFiniteSet(DOMAIN bids'),
             \A p \in Hosts \ Tenants : balance'[p] = balance[p]
      PROVE  EarnInv'
    <2>1. \A l \in DOMAIN leases : leases'[l].price = leases[l].price
        BY <1>2, StepForward, Zenon DEF Forward
    <2> QED
        BY <1>2, <2>1, EarnSame, Zenon
<1>3. ASSUME Next, charges' = charges, balance' = balance, DOMAIN leases' = DOMAIN leases,
             DOMAIN bids' = DOMAIN bids
      PROVE  EarnInv'
    BY <1>2, <1>3, Zenon DEF EarnInv, FinitelyMany
<1>4. ASSUME Next, NEW did \in DOMAIN deployments, MsgClose(did) PROVE EarnInv'
    <2>1. DOMAIN leases' = DOMAIN leases
        BY <1>4, Zenon DEF MsgClose, GroupClosedLeases, SetStates
    <2>2. DOMAIN bids' = DOMAIN bids
        BY <1>4, Zenon DEF MsgClose, GroupClosedBids, SetStates
    <2> QED
        BY <1>3, <1>4, <2>1, <2>2, Zenon DEF MsgClose, blockVars
<1>5. ASSUME Next, NEW oid \in DOMAIN orders, NEW p \in Hosts, NEW price \in BidPrices,
             MsgCreateBid(oid, p, price)
      PROVE  EarnInv'
    <2>1. DOMAIN bids' = DOMAIN bids \cup {<<oid, p>>}
        BY <1>5, Zenon DEF MsgCreateBid, CreateBid, Put
    <2>2. IsFiniteSet(DOMAIN bids')
        BY <2>1, FS_AddElement, Zenon DEF EarnInv, FinitelyMany
    <2> QED
        BY <1>2, <1>5, <2>2, Zenon DEF MsgCreateBid, blockVars
<1>6. ASSUME Next, NEW bid \in DOMAIN bids, MsgCloseBid(bid) PROVE EarnInv'
    <2>1. DOMAIN leases' = DOMAIN leases
        BY <1>6, LeasesStay, Zenon DEF MsgCloseBid
    <2>2. DOMAIN bids' = DOMAIN bids
        BY <1>6, Zenon DEF MsgCloseBid, OnBidClosed, SetState, SetStates
    <2> QED
        BY <1>3, <1>6, <2>1, <2>2, Zenon DEF MsgCloseBid, blockVars
<1>7. ASSUME Next, NEW oid \in DOMAIN orders, MsgCloseOrder(oid) PROVE EarnInv'
    <2>1. DOMAIN leases' = DOMAIN leases
        BY <1>7, LeasesStay, Zenon DEF MsgCloseOrder
    <2> QED
        BY <1>3, <1>7, <2>1, Zenon DEF MsgCloseOrder, blockVars
<1>8. ASSUME Next, NEW a \in Tenants, NEW b \in Tenants, NEW n \in Transfers, BankSend(a, b, n)
      PROVE  EarnInv'
    <2>1. ASSUME NEW p \in Hosts \ Tenants PROVE balance'[p] = balance[p]
        <3>1. /\ balance' = SendCoins(balance, a, b, n) /\ balance \in [Accounts -> Nat]
              /\ p \in Accounts /\ p # a /\ p # b
            BY <1>8, Zenon DEF BankSend, IInv, TypeOK, Accounts
        <3> QED
            BY <3>1, Received, SMTT(20)
    <2> QED
        BY <1>2, <1>8, <2>1, ZenonT(30) DEF BankSend, marketVars, blockVars, EarnInv, FinitelyMany
<1>9. ASSUME Next, NEW l \in todo, SuspendLease(l) PROVE EarnInv'
    <2>1. DOMAIN leases' = DOMAIN leases
        BY <1>9, LeasesStay, Zenon DEF SuspendLease
    <2> QED
        BY <1>3, <1>9, <2>1, Zenon DEF SuspendLease
<1>10. ASSUME Next, UNCHANGED <<leases, bids, balance, charges>> PROVE EarnInv'
    BY <1>3, <1>10, Zenon
<1>11. ASSUME Next,
              \/ \E owner \in Tenants, specs \in GroupSpecs : MsgCreate(owner, specs)
              \/ \E did \in DOMAIN deployments : MsgUpdate(did)
              \/ \E p \in Hosts, attrs \in SUBSET Attributes :
                    MsgCreateProvider(p, attrs) \/ MsgUpdateProvider(p, attrs)
              \/ CreateOrdersForGroups
              \/ \E l \in todo : PaymentRefused(l)
       PROVE  EarnInv'
    <2>1. UNCHANGED <<leases, bids, balance, charges>>
        BY <1>11, Zenon DEF MsgCreate, MsgUpdate, MsgCreateProvider, MsgUpdateProvider,
            CreateOrdersForGroups, PaymentRefused, marketVars, blockVars
    <2> QED
        BY <1>10, <1>11, <2>1, Zenon
<1> QED
    BY <1>1, <1>4, <1>5, <1>6, <1>7, <1>8, <1>9, <1>11, EarnPayLease, EarnMatchOpenOrders, ZenonT(30) DEF Next

\* Every coin that reaches a provider is the price of one of its leases for one block that was
\* counted, and every block that was counted has reached it, for any number of leases and blocks.
THEOREM ProvidersEarn == Spec => []ProvidersEarnTheirLeases
<1>1. Init => EarnInv
    <2> SUFFICES ASSUME Init PROVE EarnInv
        BY Zenon
    <2>1. DOMAIN bids = {} /\ DOMAIN leases = {} /\ \A p \in Hosts \ Tenants : balance[p] = 0
        BY Zenon DEF Init, EmptyStore, Accounts
    <2>2. \A p : LeasesOf(p) = {}
        BY <2>1, Zenon DEF LeasesOf
    <2>3. SumFunctionOnSet(Paid, {}) = 0
        BY FS_EmptySet, SumRecursion, Zenon
    <2> QED
        BY <2>1, <2>2, <2>3, FS_EmptySet, Zenon DEF EarnInv, FinitelyMany, ProvidersEarnTheirLeases
<1>2. EarnInv => ProvidersEarnTheirLeases
    BY Zenon DEF EarnInv
<1> QED
    BY <1>1, <1>2, EarnNext, Invariant, PTL DEF Spec

=============================================================================
