----------------------------- MODULE KubeProofs -----------------------------
(***************************************************************************)
(* What the Kubernetes client leaves in the cluster and reads from it, for *)
(* any leases and groups and any number of calls, failures and crashes.    *)
(* As lidNS gives all leases the same namespace, a Deploy has the cluster  *)
(* to itself only while no other one is under way, and what it leaves      *)
(* lasts until the next call.                                              *)
(***************************************************************************)
EXTENDS Kube, WellFoundedInduction, TLAPS

-----------------------------------------------------------------------------
(* Induction *)

\* A set of natural numbers has a least element.
LEMMA LeastNat ==
    ASSUME NEW T, T \subseteq Nat, T # {}
    PROVE  \E n \in T : \A m \in T : n <= m
<1> DEFINE R == {ss \in Nat \X Nat : ss[1] < ss[2]}
<1>1. IsWellFoundedOn(R, Nat)
  BY NatLessThanWellFounded DEF OpToRel
<1>2. \A m, n \in Nat : m < n => <<m, n>> \in R
  OBVIOUS
<1> HIDE DEF R
<1>3. PICK x \in T : \A y \in T : ~(<<y, x>> \in R)
  BY <1>1, WFMin, Zenon
<1>4. ASSUME NEW y \in T PROVE x <= y
  <2>1. x \in Nat /\ y \in Nat /\ ~(y < x)
    BY <1>2, <1>3, Zenon
  <2> QED BY <2>1
<1> QED BY <1>3, <1>4

\* What holds of 0, and of k + 1 if it holds of k < n, holds up to n.
LEMMA UpTo ==
    ASSUME NEW n \in Nat, NEW S, 0 \in S, \A k \in 0 .. n : k < n /\ k \in S => k + 1 \in S
    PROVE  \A k \in 0 .. n : k \in S
<1> DEFINE T == {k \in 0 .. n : k \notin S}
<1> SUFFICES ASSUME T # {} PROVE FALSE
  OBVIOUS
<1>0. T \subseteq Nat
  OBVIOUS
<1>1. PICK k \in T : \A m \in T : k <= m
  <2> HIDE DEF T
  <2> QED BY <1>0, LeastNat, Zenon
<1>2. k \in 1 .. n /\ k - 1 \in 0 .. n /\ k - 1 < n
  BY <1>1
<1>3. k - 1 \in S
  BY <1>1, <1>2
<1> QED BY <1>1, <1>2, <1>3

-----------------------------------------------------------------------------
(* The requests of Deploy *)

\* The requests for the objects of a group.
ApplySteps(g) == {Apply(kind, name) : kind \in Kinds, name \in NamesOf(g)}

\* What is known of the requests that make up p, the plan of g.
IsPlan(p, g) ==
    /\ Len(p) \in Nat /\ DOMAIN p = 1 .. Len(p) /\ Len(p) > 4
    /\ p[1].do = "namespace" /\ p[2].do = "manifest"
    /\ \A i \in 1 .. Len(p) : i > 2 => p[i].do \in {"clean", "apply"}
    /\ \A i \in 1 .. Len(p) : p[i].do = "apply" => p[i].obj \in Kinds \X NamesOf(g)
    /\ \A kind \in Kinds : \E i \in 1 .. Len(p) : p[i].do = "clean" /\ p[i].kind = kind
    /\ \A o \in Wanted(g) : \E i \in 1 .. Len(p) : p[i].do = "apply" /\ p[i].obj = o

\* What the loop of Deploy has applied after each service of the group.
LEMMA Parts ==
    ASSUME NEW g, NEW S, Len(g) \in Nat, \A i \in 1 .. Len(g) : Applied(g[i]) \in Seq(S)
    PROVE  \E f \in [0 .. Len(g) -> Seq(S)] :
              /\ Applies(g) = f[Len(g)] /\ f[0] = << >>
              /\ \A i \in 1 .. Len(g) : f[i] = f[i - 1] \o Applied(g[i])
<1> DEFINE n == Len(g)
           Part(i) == Applied(g[i])
           After(f, i) == IF i = 0 THEN << >> ELSE f[i - 1] \o Part(i)
           Rec(f, k) == f = [i \in 0 .. k |-> After(f, i)]
           Defined == {k \in 0 .. n : \E f \in [0 .. k -> Seq(S)] : Rec(f, k)}
<1>1. n \in Nat /\ \A i \in 1 .. n : Part(i) \in Seq(S)
  OBVIOUS
<1>2. << >> \in Seq(S) /\ \A x, y \in Seq(S) : x \o y \in Seq(S)
  OBVIOUS
<1> HIDE DEF n, Part
<1>3. 0 \in Defined
  <2> DEFINE f == [i \in 0 .. 0 |-> << >>]
  <2>1. f \in [0 .. 0 -> Seq(S)] /\ Rec(f, 0)
    BY <1>2
  <2>2. 0 \in 0 .. n
    BY <1>1
  <2> HIDE DEF f, Rec
  <2> QED BY <2>1, <2>2, Zenon
<1>4. ASSUME NEW k \in 0 .. n, k < n, k \in Defined PROVE k + 1 \in Defined
  <2>1. PICK f \in [0 .. k -> Seq(S)] : Rec(f, k)
    BY <1>4, Zenon
  <2> DEFINE h == [i \in 0 .. k + 1 |-> IF i = k + 1 THEN f[k] \o Part(k + 1) ELSE f[i]]
  <2>2. k \in 0 .. k /\ k + 1 \in 1 .. n /\ k + 1 \in 0 .. n /\ k + 1 # 0 /\ (k + 1) - 1 = k
    BY <1>1, <1>4
  <2>3. f[k] \o Part(k + 1) \in Seq(S)
    BY <1>1, <1>2, <2>1, <2>2, Zenon
  <2>4. \A i \in 0 .. k : f[i] \in Seq(S) /\ f[i] = After(f, i)
    BY <2>1, Zenon
  <2>5. \A i \in 0 .. k + 1 : i = 0 \/ (i - 1 \in 0 .. k + 1 /\ i - 1 # k + 1)
    BY <1>1, <1>4
  <2>6. \A i \in 0 .. k + 1 : After(h, i) = After(f, i)
    BY <2>5, Zenon
  <2>7. \A i \in 0 .. k + 1 : i = k + 1 \/ i \in 0 .. k
    BY <1>1, <1>4
  <2>8. h \in [0 .. k + 1 -> Seq(S)] /\ \A i \in 0 .. k + 1 : h[i] = After(h, i)
    <3>1. \A i \in 0 .. k + 1 : (IF i = k + 1 THEN f[k] \o Part(k + 1) ELSE f[i]) \in Seq(S)
      BY <2>3, <2>4, <2>7, Zenon
    <3>2. After(f, k + 1) = f[k] \o Part(k + 1)
      BY <2>2, Zenon
    <3>3. \A i \in 0 .. k + 1 : h[i] = After(f, i)
      BY <2>4, <2>7, <3>2, Zenon
    <3>4. h \in [0 .. k + 1 -> Seq(S)]
      BY <3>1
    <3>5. \A i \in 0 .. k + 1 : h[i] = After(h, i)
      <4> HIDE DEF h, After
      <4> QED BY <2>6, <3>3, Zenon
    <3> QED BY <3>4, <3>5, Zenon
  <2>9. Rec(h, k + 1)
    BY <2>8, Zenon
  <2> HIDE DEF h, Rec
  <2> QED BY <2>2, <2>8, <2>9, Zenon
<1>5. n \in Defined
  <2> HIDE DEF Defined
  <2>1. \A k \in 0 .. n : k \in Defined
    BY <1>1, <1>3, <1>4, UpTo, Zenon
  <2>2. n \in 0 .. n
    BY <1>1
  <2> QED BY <2>1, <2>2, Zenon
<1> DEFINE F == CHOOSE f : Rec(f, n)
<1>6. Rec(F, n)
  BY <1>5, Zenon
<1>7. Applies(g) = F[n]
  BY DEF Applies, n, Part
<1> HIDE DEF F
<1>8. 0 \in 0 .. n /\ \A i \in 1 .. n : i \in 0 .. n /\ i # 0
  BY <1>1
<1>9. F[0] = << >> /\ \A i \in 1 .. n : F[i] = F[i - 1] \o Part(i)
  <2>1. \A i \in 0 .. n : F[i] = After(F, i)
    BY <1>6, Zenon
  <2> QED BY <1>8, <2>1, Zenon
<1> DEFINE Typed == {k \in 0 .. n : F[k] \in Seq(S)}
<1>10. \A k \in 0 .. n : k \in Typed
  <2>1. 0 \in Typed
    BY <1>2, <1>8, <1>9, Zenon
  <2>2. ASSUME NEW k \in 0 .. n, k < n, k \in Typed PROVE k + 1 \in Typed
    <3>1. k + 1 \in 1 .. n /\ k + 1 \in 0 .. n /\ (k + 1) - 1 = k
      BY <1>1, <2>2
    <3>2. F[k + 1] = F[k] \o Part(k + 1)
      BY <1>9, <3>1, Zenon
    <3> QED BY <1>1, <1>2, <2>2, <3>1, <3>2, Zenon
  <2> HIDE DEF Typed
  <2> QED BY <1>1, <2>1, <2>2, UpTo, Zenon
<1>11. F \in [0 .. n -> Seq(S)]
  <2>1. \A i \in 0 .. n : F[i] \in Seq(S)
    BY <1>10
  <2>2. F = [i \in 0 .. n |-> F[i]]
    BY <1>6
  <2> QED BY <2>1, <2>2
<1> QED BY <1>7, <1>9, <1>11, Zenon DEF n, Part

\* The loop applies everything that any of the services needs.
LEMMA AllParts ==
    ASSUME NEW g, NEW S, Len(g) \in Nat, \A i \in 1 .. Len(g) : Applied(g[i]) \in Seq(S)
    PROVE  /\ Applies(g) \in Seq(S)
           /\ \A m \in 1 .. Len(g) : \A j \in DOMAIN Applied(g[m]) :
                 \E p \in DOMAIN Applies(g) : Applies(g)[p] = Applied(g[m])[j]
<1> DEFINE n == Len(g)
           Part(i) == Applied(g[i])
<1>1. PICK f \in [0 .. n -> Seq(S)] :
         /\ Applies(g) = f[n] /\ f[0] = << >>
         /\ \A i \in 1 .. n : f[i] = f[i - 1] \o Part(i)
  BY Parts, Zenon
<1>2. n \in Nat /\ \A i \in 1 .. n : Part(i) \in Seq(S)
  OBVIOUS
<1> HIDE DEF n, Part
<1> DEFINE Has(s, x) == \E p \in DOMAIN s : s[p] = x
           All(k) == \A m \in 1 .. k : \A j \in DOMAIN Part(m) : Has(f[k], Part(m)[j])
           Full == {k \in 0 .. n : All(k)}
<1>3. ASSUME NEW x \in Seq(S), NEW y \in Seq(S)
      PROVE  /\ \A j \in DOMAIN x : Has(x \o y, x[j])
             /\ \A j \in DOMAIN y : Has(x \o y, y[j])
  <2>1. ASSUME NEW j \in DOMAIN x PROVE Has(x \o y, x[j])
    <3>1. j \in DOMAIN (x \o y) /\ (x \o y)[j] = x[j]
      OBVIOUS
    <3> QED BY <3>1
  <2>2. ASSUME NEW j \in DOMAIN y PROVE Has(x \o y, y[j])
    <3>1. Len(x) + j \in DOMAIN (x \o y) /\ (x \o y)[Len(x) + j] = y[j]
      OBVIOUS
    <3> QED BY <3>1
  <2> QED BY <2>1, <2>2, Zenon
<1>4. 0 \in Full
  BY <1>2
<1>5. ASSUME NEW k \in 0 .. n, k < n, k \in Full PROVE k + 1 \in Full
  <2>1. k + 1 \in 1 .. n /\ k + 1 \in 0 .. n /\ (k + 1) - 1 = k /\ k \in Nat
    BY <1>2, <1>5
  <2>2. f[k + 1] = f[k] \o Part(k + 1) /\ f[k] \in Seq(S) /\ Part(k + 1) \in Seq(S)
    BY <1>1, <1>2, <2>1, Zenon
  <2>3. \A m \in 1 .. k + 1 : m = k + 1 \/ m \in 1 .. k
    BY <2>1
  <2>4. ASSUME NEW m \in 1 .. k, NEW j \in DOMAIN Part(m) PROVE Has(f[k + 1], Part(m)[j])
    <3>1. PICK p \in DOMAIN f[k] : f[k][p] = Part(m)[j]
      BY <1>5, Zenon
    <3>2. Has(f[k] \o Part(k + 1), f[k][p])
      <4> HIDE DEF Has
      <4> QED BY <1>3, <2>2, <3>1, Zenon
    <3> QED BY <2>2, <3>1, <3>2, Zenon
  <2>5. \A j \in DOMAIN Part(k + 1) : Has(f[k + 1], Part(k + 1)[j])
    <3>1. \A j \in DOMAIN Part(k + 1) : Has(f[k] \o Part(k + 1), Part(k + 1)[j])
      <4> HIDE DEF Has
      <4> QED BY <1>3, <2>2, Zenon
    <3> QED BY <2>2, <3>1, Zenon
  <2> QED BY <2>1, <2>3, <2>4, <2>5, Zenon
<1>6. All(n)
  <2>1. n \in 0 .. n
    BY <1>2
  <2>2. \A k \in 0 .. n : k \in Full
    <3> HIDE DEF Full
    <3> QED BY <1>2, <1>4, <1>5, UpTo, Zenon
  <2> QED BY <2>1, <2>2, Zenon
<1>7. f[n] \in Seq(S)
  BY <1>1, <1>2
<1>8. \A m \in 1 .. n : \A j \in DOMAIN Part(m) :
         \E p \in DOMAIN Applies(g) : Applies(g)[p] = Part(m)[j]
  BY <1>1, <1>6
<1> QED BY <1>1, <1>7, <1>8, Zenon DEF n, Part

\* What the loop of Deploy applies are objects of the services of the group, and a
\* deployment for every one of them.
LEMMA AppliesFacts ==
    ASSUME NEW g \in Groups
    PROVE  /\ Applies(g) \in Seq(ApplySteps(g))
           /\ \A name \in NamesOf(g) : <<"deployment", name>> \in Wanted(g)
<1> DEFINE S == ApplySteps(g)
<1>1. Len(g) \in Nat /\ DOMAIN g = 1 .. Len(g)
  <2>1. g \in Seq(Range(g))
    BY KubeAssumption
  <2> QED BY <2>1
<1>2. ASSUME NEW i \in DOMAIN g
      PROVE  Applied(g[i]) \in Seq(S) /\ 1 \in DOMAIN Applied(g[i]) /\ Applied(g[i])[1] = DeploymentOf(g[i])
  <2>1. \A kind \in Kinds : Apply(kind, g[i].name) \in S
    BY DEF ApplySteps, NamesOf
  <2>2. DeploymentOf(g[i]) \in S /\ ServiceOf(g[i]) \in S /\ IngressOf(g[i]) \in S
    BY <2>1 DEF DeploymentOf, ServiceOf, IngressOf, Kinds
  <2> HIDE DEF S
  <2> QED BY <2>2 DEF Applied
<1>3. /\ Applies(g) \in Seq(S)
      /\ \A m \in DOMAIN g : \A j \in DOMAIN Applied(g[m]) :
            \E p \in DOMAIN Applies(g) : Applies(g)[p] = Applied(g[m])[j]
  <2> HIDE DEF S
  <2>1. \A i \in 1 .. Len(g) : Applied(g[i]) \in Seq(S)
    BY <1>1, <1>2, Zenon
  <2>2. /\ Applies(g) \in Seq(S)
        /\ \A m \in 1 .. Len(g) : \A j \in DOMAIN Applied(g[m]) :
              \E p \in DOMAIN Applies(g) : Applies(g)[p] = Applied(g[m])[j]
    BY <1>1, <2>1, AllParts, Zenon
  <2> QED BY <1>1, <2>2
<1>4. ASSUME NEW name \in NamesOf(g) PROVE <<"deployment", name>> \in Wanted(g)
  <2>1. PICK i \in DOMAIN g : g[i].name = name
    BY DEF NamesOf
  <2>2. PICK p \in DOMAIN Applies(g) : Applies(g)[p] = DeploymentOf(g[i])
    <3>1. 1 \in DOMAIN Applied(g[i]) /\ Applied(g[i])[1] = DeploymentOf(g[i])
      BY <1>2, Zenon
    <3>2. \E p \in DOMAIN Applies(g) : Applies(g)[p] = Applied(g[i])[1]
      BY <1>3, <3>1, Zenon
    <3> QED BY <3>1, <3>2
  <2>3. DeploymentOf(g[i]).obj = <<"deployment", name>>
    BY <2>1 DEF DeploymentOf, Apply
  <2> QED BY <2>2, <2>3, Zenon DEF Wanted, Range
<1> QED BY <1>3, <1>4

\* Deploy makes the namespace, saves the manifest, cleans up and applies the objects, in this
\* order.
LEMMA PlanFacts ==
    ASSUME NEW g \in Groups
    PROVE  IsPlan(Plan(g), g)
<1> DEFINE S == ApplySteps(g)
           five == <<[do |-> "namespace"], [do |-> "manifest"],
                     [do |-> "clean", kind |-> "deployment"], [do |-> "clean", kind |-> "ingress"],
                     [do |-> "clean", kind |-> "service"]>>
<1>1. PICK a \in Seq(S) : a = Applies(g)
  BY AppliesFacts, Zenon
<1>2. PICK p : p = Plan(g)
  OBVIOUS
<1>3. p = five \o a
  BY <1>1, <1>2, Zenon DEF Plan, Applies
<1>4. \A x \in S : x.do = "apply" /\ x.obj \in Kinds \X NamesOf(g)
  BY DEF ApplySteps, Apply
<1>5. /\ Len(p) \in Nat /\ DOMAIN p = 1 .. Len(p) /\ Len(p) = 5 + Len(a) /\ Len(a) \in Nat
      /\ \A i \in 1 .. 5 : p[i] = five[i]
      /\ \A i \in 1 .. Len(a) : p[5 + i] = a[i] /\ a[i] \in S
  <2> HIDE DEF S
  <2> QED BY <1>3
<1>6. /\ p[1] = [do |-> "namespace"] /\ p[2] = [do |-> "manifest"]
      /\ p[3] = [do |-> "clean", kind |-> "deployment"]
      /\ p[4] = [do |-> "clean", kind |-> "ingress"]
      /\ p[5] = [do |-> "clean", kind |-> "service"]
  BY <1>5
<1>7. /\ p[1].do = "namespace" /\ p[2].do = "manifest"
      /\ p[3].do = "clean" /\ p[3].kind = "deployment"
      /\ p[4].do = "clean" /\ p[4].kind = "ingress"
      /\ p[5].do = "clean" /\ p[5].kind = "service"
  BY <1>6
<1>8. ASSUME NEW i \in 1 .. Len(p)
      PROVE  i \in {1, 2, 3, 4, 5} \/ (i > 5 /\ p[i] \in S)
  <2>1. CASE i > 5
    <3>1. i - 5 \in 1 .. Len(a) /\ 5 + (i - 5) = i
      BY <1>5, <2>1
    <3> QED BY <1>5, <2>1, <3>1, ZenonT(30)
  <2>2. CASE ~(i > 5)
    BY <1>5, <2>2
  <2> QED BY <2>1, <2>2
<1> HIDE DEF S
<1>9. \A i \in 1 .. Len(p) : i > 2 => p[i].do \in {"clean", "apply"}
  BY <1>4, <1>7, <1>8
<1>10. \A i \in 1 .. Len(p) : p[i].do = "apply" => p[i].obj \in Kinds \X NamesOf(g)
  BY <1>4, <1>7, <1>8
<1>11. \A kind \in Kinds : \E i \in 1 .. Len(p) : p[i].do = "clean" /\ p[i].kind = kind
  <2>1. 3 \in 1 .. Len(p) /\ 4 \in 1 .. Len(p) /\ 5 \in 1 .. Len(p)
    BY <1>5
  <2> QED BY <1>7, <2>1 DEF Kinds
<1>12. ASSUME NEW o \in Wanted(g)
       PROVE  \E i \in 1 .. Len(p) : p[i].do = "apply" /\ p[i].obj = o
  <2>1. PICK j \in DOMAIN a : o = a[j].obj
    BY <1>1, Zenon DEF Wanted, Applies, Range
  <2>2. j \in 1 .. Len(a) /\ 5 + j \in 1 .. Len(p)
    BY <1>5, <2>1
  <2> QED BY <1>4, <1>5, <2>1, <2>2, Zenon
<1>13. Len(p) > 4
  BY <1>5
<1>14. IsPlan(p, g)
  BY <1>5, <1>7, <1>9, <1>10, <1>11, <1>12, <1>13 DEF IsPlan
<1> QED BY <1>2, <1>14

\* What is left of the plan of g after k steps.
Rest(g, k) == SubSeq(Plan(g), k + 1, Len(Plan(g)))

\* Deploy goes through its plan step by step.
LEMMA RestFacts ==
    ASSUME NEW g \in Groups, NEW k \in 0 .. Len(Plan(g))
    PROVE  /\ Rest(g, 0) = Plan(g)
           /\ k < Len(Plan(g)) => /\ Rest(g, k) # << >> /\ Head(Rest(g, k)) = Plan(g)[k + 1]
                                  /\ Tail(Rest(g, k)) = Rest(g, k + 1)
           /\ Rest(g, k) = << >> => k = Len(Plan(g))
<1>1. PICK p : p = Plan(g)
  OBVIOUS
<1>2. p \in Seq(Range(p))
  <2>1. Len(p) \in Nat /\ DOMAIN p = 1 .. Len(p)
    BY <1>1, PlanFacts, Zenon DEF IsPlan
  <2>2. \E S : p \in Seq(S)
    <3>1. PICK a \in Seq(ApplySteps(g)) : a = Applies(g)
      BY AppliesFacts, Zenon
    <3> DEFINE five == <<[do |-> "namespace"], [do |-> "manifest"],
                     [do |-> "clean", kind |-> "deployment"], [do |-> "clean", kind |-> "ingress"],
                     [do |-> "clean", kind |-> "service"]>>
               S == ApplySteps(g) \cup {five[i] : i \in 1 .. 5}
    <3>2. p = five \o a
      BY <1>1, <3>1, Zenon DEF Plan, Applies
    <3>3. five \in Seq(S) /\ a \in Seq(S)
      OBVIOUS
    <3>4. p \in Seq(S)
      <4> HIDE DEF S, five
      <4> QED BY <3>2, <3>3
    <3> QED BY <3>4
  <2> QED BY <2>1, <2>2 DEF Range
<1>3. ASSUME NEW S, NEW s \in Seq(S), NEW i \in 0 .. Len(s)
      PROVE  /\ SubSeq(s, 1, Len(s)) = s
             /\ i < Len(s) => /\ SubSeq(s, i + 1, Len(s)) # << >>
                              /\ Head(SubSeq(s, i + 1, Len(s))) = s[i + 1]
                              /\ Tail(SubSeq(s, i + 1, Len(s))) = SubSeq(s, i + 2, Len(s))
             /\ SubSeq(s, i + 1, Len(s)) = << >> => i = Len(s)
  <2>1. ASSUME NEW m \in 0 .. Len(s)
        PROVE  /\ SubSeq(s, m + 1, Len(s)) \in Seq(S)
               /\ Len(SubSeq(s, m + 1, Len(s))) = Len(s) - m
               /\ \A j \in 1 .. Len(s) - m : SubSeq(s, m + 1, Len(s))[j] = s[m + j]
    BY SMTT(20)
  <2>2. \A x, y \in Seq(S) : Len(x) = Len(y) /\ (\A j \in 1 .. Len(x) : x[j] = y[j]) => x = y
    OBVIOUS
  <2>3. SubSeq(s, 1, Len(s)) = s
    <3>1. 0 \in 0 .. Len(s) /\ 0 + 1 = 1 /\ Len(s) - 0 = Len(s) /\ \A j \in 1 .. Len(s) : 0 + j = j
      OBVIOUS
    <3>2. PICK x : x = SubSeq(s, 0 + 1, Len(s))
      OBVIOUS
    <3>3. x \in Seq(S) /\ Len(x) = Len(s) - 0 /\ \A j \in 1 .. Len(s) - 0 : x[j] = s[0 + j]
      BY <2>1, <3>1, <3>2, Zenon
    <3>4. Len(x) = Len(s) /\ \A j \in 1 .. Len(x) : x[j] = s[j]
      BY <3>1, <3>3
    <3> QED BY <2>2, <3>1, <3>2, <3>3, <3>4, Zenon
  <2>4. ASSUME i < Len(s)
        PROVE  /\ SubSeq(s, i + 1, Len(s)) # << >>
               /\ Head(SubSeq(s, i + 1, Len(s))) = s[i + 1]
               /\ Tail(SubSeq(s, i + 1, Len(s))) = SubSeq(s, i + 2, Len(s))
    <3>1. PICK x, y : x = SubSeq(s, i + 1, Len(s)) /\ y = SubSeq(s, i + 2, Len(s))
      BY Zenon
    <3>2. i + 1 \in 0 .. Len(s) /\ (i + 1) + 1 = i + 2 /\ Len(s) \in Nat /\ i \in Nat
      BY <2>4
    <3>3. x \in Seq(S) /\ Len(x) = Len(s) - i /\ \A j \in 1 .. Len(s) - i : x[j] = s[i + j]
      BY <2>1, <3>1, Zenon
    <3>4. /\ y \in Seq(S) /\ Len(y) = Len(s) - (i + 1)
          /\ \A j \in 1 .. Len(s) - (i + 1) : y[j] = s[(i + 1) + j]
      BY <2>1, <3>1, <3>2, Zenon
    <3>5. x # << >> /\ Head(x) = s[i + 1] /\ Tail(x) \in Seq(S) /\ Len(Tail(x)) = Len(y)
      <4>1. Len(x) # 0 /\ 1 \in 1 .. Len(s) - i /\ Len(x) - 1 = Len(y)
        BY <2>4, <3>2, <3>3, <3>4
      <4>2. x[1] = s[i + 1]
        BY <3>3, <4>1, Zenon
      <4>3. x # << >> /\ Head(x) = x[1] /\ Tail(x) \in Seq(S) /\ Len(Tail(x)) = Len(x) - 1
        BY <3>3, <4>1
      <4> QED BY <4>1, <4>2, <4>3, Zenon
    <3>6. ASSUME NEW j \in 1 .. Len(y) PROVE Tail(x)[j] = y[j]
      <4>1. /\ j \in 1 .. Len(s) - (i + 1) /\ j \in 1 .. Len(x) - 1 /\ j + 1 \in 1 .. Len(s) - i
            /\ i + (j + 1) = (i + 1) + j
        BY <2>4, <3>2, <3>3, <3>4
      <4>2. \A z \in Seq(S) : \A q \in 1 .. Len(z) - 1 : Tail(z)[q] = z[q + 1]
        OBVIOUS
      <4>3. Tail(x)[j] = x[j + 1]
        BY <3>3, <4>1, <4>2, Zenon
      <4>4. x[j + 1] = s[i + (j + 1)] /\ y[j] = s[(i + 1) + j]
        BY <3>3, <3>4, <4>1, Zenon
      <4> QED BY <4>1, <4>3, <4>4, Zenon
    <3>7. Tail(x) = y
      BY <2>2, <3>4, <3>5, <3>6, Zenon
    <3> QED BY <3>1, <3>5, <3>7, Zenon
  <2>5. SubSeq(s, i + 1, Len(s)) = << >> => i = Len(s)
    <3>1. Len(SubSeq(s, i + 1, Len(s))) = Len(s) - i
      BY <2>1, Zenon
    <3>2. Len(<< >>) = 0 /\ i \in Nat /\ Len(s) \in Nat /\ (Len(s) - i = 0 => i = Len(s))
      OBVIOUS
    <3> QED BY <3>1, <3>2, Zenon
  <2> QED BY <2>3, <2>4, <2>5, Zenon
<1>4. 0 + 1 = 1 /\ (k + 1) + 1 = k + 2
  OBVIOUS
<1>5. /\ SubSeq(p, 1, Len(p)) = p
      /\ k < Len(p) => /\ SubSeq(p, k + 1, Len(p)) # << >>
                       /\ Head(SubSeq(p, k + 1, Len(p))) = p[k + 1]
                       /\ Tail(SubSeq(p, k + 1, Len(p))) = SubSeq(p, k + 2, Len(p))
      /\ SubSeq(p, k + 1, Len(p)) = << >> => k = Len(p)
  BY <1>1, <1>2, <1>3, ZenonT(30)
<1> QED BY <1>1, <1>4, <1>5, Zenon DEF Rest

-----------------------------------------------------------------------------
(* The inductive invariant *)

\* What the call of number n that deploys g for l writes.
Written(l, g, n) == [lease |-> l, group |-> g, by |-> n]

\* What a step of such a call has brought about, as long as nothing but the namespace goes
\* away: an object that was applied is there, or has gone with everything else.
Effect(s, l, g, n) ==
    /\ s.do = "manifest" => manifest = Written(l, g, n)
    /\ s.do = "clean" => Stale(s.kind, g) = {}
    /\ s.do = "apply" => objects[s.obj] = Written(l, g, n) \/ (ns = "none" /\ There = {})

\* A call has k of its steps behind it.
Behind(k, l, g, n) == \A j \in 1 .. k : Effect(Plan(g)[j], l, g, n)

\* The call of number n deploys g for l and has k of its steps behind it, with what they have
\* brought about if no other Deploy has been under way with it.
At(l, g, k, n) ==
    /\ call[l] = [group |-> g, by |-> n, todo |-> Rest(g, k)]
    /\ n <= calls /\ (k > 1 => manifest # None)
    /\ n \notin mixed => Behind(k, l, g, n)

\* The Deploy under way for l, if any.
UnderWay(l) ==
    call[l] # None =>
        /\ settled[l] = None
        /\ \E g \in Groups : \E k \in 0 .. Len(Plan(g)) : \E n \in Nat : At(l, g, k, n)

\* A Deploy that has succeeded has all its steps behind it, and their effect lasts while it is
\* the last word.
Settled(l) ==
    settled[l] # None =>
        /\ settled[l].group \in Groups /\ settled[l].by \in Nat /\ settled[l].by <= calls
        /\ LastWord(l) => Behind(Len(Plan(settled[l].group)), l, settled[l].group, settled[l].by)

\* A Deploy under way that has not overlapped with another one is alone, and later than all
\* that is settled or in the cluster and has not overlapped either.
InTurn(l) ==
    call[l] # None =>
        /\ \A x \in Leases : x # l /\ call[x] # None => call[l].by \in mixed
        /\ \A x \in Leases : settled[x] # None => settled[x].by \in mixed \/ settled[x].by < call[l].by
        /\ \A o \in There : objects[o].by \in mixed \/ objects[o].by <= call[l].by

\* What is in the cluster is covered by the manifest.
Covered ==
    \A o \in There : /\ objects[o].by <= calls /\ manifest # None
                     /\ objects[o].by \in mixed \/ objects[o].by <= manifest.by

\* The verdict of a check that sees the cluster as it is now.
VerdictNow(g, available) ==
    IF deploymentsForLease = {} \/ Ingresses = {} THEN "bad"
    ELSE IF ~(Ingresses \subseteq deploymentsForLease) THEN "panic"
    ELSE IF available /\ NamesOf(g) \subseteq deploymentsForLease THEN "good" ELSE "bad"

KubeTypes ==
    /\ ns \in {"none", "active", "terminating"} /\ calls \in Nat
    /\ objects \in [Objects -> [lease : Leases, group : Groups, by : Nat] \cup {None}]
    /\ manifest \in [lease : Leases, group : Groups, by : Nat] \cup {None}
    /\ DOMAIN call = Leases /\ DOMAIN settled = Leases

\* The inductive invariant.
KubeInv ==
    /\ KubeTypes /\ Covered
    /\ ns = "none" => There = {}
    /\ \A l \in Leases : UnderWay(l) /\ Settled(l) /\ InTurn(l)
    /\ quiet /\ snapshot # None => snapshot = deploymentsForLease
    /\ quiet /\ verdict # None =>
          verdict.group \in Groups /\ verdict.is = VerdictNow(verdict.group, verdict.available)

\* Nothing is in the cluster at first.
LEMMA InitKube ==
    Init => KubeInv
<1> SUFFICES ASSUME Init PROVE KubeInv
  OBVIOUS
<1>1. /\ ns = "none" /\ calls = 0 /\ manifest = None /\ snapshot = None /\ verdict = None
      /\ objects = [o \in Objects |-> None]
      /\ call = [l \in Leases |-> None] /\ settled = [l \in Leases |-> None]
  BY DEF Init
<1>2. There = {}
  BY <1>1, Zenon DEF There
<1>3. KubeTypes
  BY <1>1 DEF KubeTypes
<1>4. \A l \in Leases : UnderWay(l) /\ Settled(l) /\ InTurn(l)
  BY <1>1, Zenon DEF UnderWay, Settled, InTurn
<1>5. Covered
  BY <1>2, Zenon DEF Covered
<1> QED BY <1>1, <1>2, <1>3, <1>4, <1>5, Zenon DEF KubeInv

\* What a step that leaves the cluster and the calls alone keeps.
LEMMA ClusterSame ==
    ASSUME UNCHANGED <<ns, objects, manifest>>
    PROVE  /\ There' = There /\ deploymentsForLease' = deploymentsForLease /\ Ingresses' = Ingresses
           /\ UNCHANGED verdict => UNCHANGED VerdictNow(verdict.group, verdict.available)
           /\ \A k, l, g, n : Behind(k, l, g, n)' <=> Behind(k, l, g, n)
<1>1. There' = There
  BY Zenon DEF There
<1>2. deploymentsForLease' = deploymentsForLease /\ Ingresses' = Ingresses
  BY <1>1, Zenon DEF deploymentsForLease, Ingresses
<1>3. UNCHANGED verdict => UNCHANGED VerdictNow(verdict.group, verdict.available)
  BY <1>2, Zenon DEF VerdictNow
<1>4. \A s, l, g, n : Effect(s, l, g, n)' <=> Effect(s, l, g, n)
  <2>1. \A kind, g : Stale(kind, g)' = Stale(kind, g)
    BY <1>1, Zenon DEF Stale
  <2>2. ASSUME NEW s, NEW l, NEW g, NEW n PROVE Effect(s, l, g, n)' <=> Effect(s, l, g, n)
    BY <1>1, <2>1 DEF Effect
  <2> QED BY <2>2, Zenon
<1>5. \A k, l, g, n : Behind(k, l, g, n)' <=> Behind(k, l, g, n)
  BY <1>4, Zenon DEF Behind
<1> QED BY <1>1, <1>2, <1>3, <1>5, Zenon

\* A step that leaves the cluster and the numbers alone keeps what is said of it.
LEMMA CallsChange ==
    ASSUME KubeInv, UNCHANGED <<ns, objects, manifest>>,
           calls' \in Nat, calls <= calls', mixed \subseteq mixed',
           DOMAIN call' = Leases, DOMAIN settled' = Leases,
           \A l \in Leases : UnderWay(l)' /\ Settled(l)' /\ InTurn(l)',
           (quiet /\ snapshot # None => snapshot = deploymentsForLease)',
           (quiet /\ verdict # None =>
              verdict.group \in Groups /\ verdict.is = VerdictNow(verdict.group, verdict.available))'
    PROVE  KubeInv'
<1>1. There' = There
  BY ClusterSame, Zenon
<1>2. KubeTypes' /\ (ns' = "none" => There' = {})
  BY <1>1, Zenon DEF KubeInv, KubeTypes
<1>3. Covered'
  <2>1. ASSUME NEW o \in There PROVE objects[o].by <= calls'
    <3>1. objects[o].by <= calls /\ calls \in Nat
      BY Zenon DEF KubeInv, Covered, KubeTypes
    <3>2. objects[o].by \in Nat
      BY DEF KubeInv, KubeTypes, There
    <3> QED BY <3>1, <3>2
  <2> QED BY <1>1, <2>1, Zenon DEF Covered, KubeInv
<1> QED BY <1>2, <1>3, Zenon DEF KubeInv

\* What LeaseStatus has seen and judged stays true of a cluster that is left alone.
LEMMA VerdictSame ==
    ASSUME KubeInv, UNCHANGED <<ns, objects, manifest, quiet, verdict>>,
           snapshot' = snapshot \/ snapshot' = None
    PROVE  /\ (quiet /\ snapshot # None => snapshot = deploymentsForLease)'
           /\ (quiet /\ verdict # None =>
                 verdict.group \in Groups /\ verdict.is = VerdictNow(verdict.group, verdict.available))'
<1>1. deploymentsForLease' = deploymentsForLease /\ UNCHANGED VerdictNow(verdict.group, verdict.available)
  BY ClusterSame, Zenon
<1>2. (quiet /\ snapshot # None => snapshot = deploymentsForLease)'
  BY <1>1, Zenon DEF KubeInv
<1>3. (quiet /\ verdict # None =>
          verdict.group \in Groups /\ verdict.is = VerdictNow(verdict.group, verdict.available))'
  BY <1>1, Zenon DEF KubeInv
<1> QED BY <1>2, <1>3

\* What is said of a lease depends on the cluster, its calls and the numbers.
LEMMA LeaseSame ==
    ASSUME UNCHANGED <<ns, objects, manifest, settled, calls, mixed>>, NEW l \in Leases,
           UnderWay(l), Settled(l), InTurn(l), call' = call \/ call' = [x \in Leases |-> None]
    PROVE  UnderWay(l)' /\ Settled(l)' /\ InTurn(l)'
<1>1. There' = There /\ \A k, x, g, n : Behind(k, x, g, n)' <=> Behind(k, x, g, n)
  BY ClusterSame, Zenon
<1>2. Settled(l)'
  BY <1>1, ZenonT(30) DEF Settled, LastWord
<1>3. CASE call' = call
  <2>1. \A g, k, n : At(l, g, k, n) => At(l, g, k, n)'
    BY <1>1, <1>3, Zenon DEF At
  <2>2. UnderWay(l)'
    BY <1>3, <2>1, Zenon DEF UnderWay
  <2>3. InTurn(l)'
    BY <1>1, <1>3, Zenon DEF InTurn
  <2> QED BY <1>2, <2>2, <2>3
<1>4. CASE call' = [x \in Leases |-> None]
  <2>1. call'[l] = None
    BY <1>4
  <2> QED BY <1>2, <2>1, Zenon DEF UnderWay, InTurn
<1> QED BY <1>3, <1>4

\* LeaseStatus looks at the cluster twice, and judges what it has seen.
LEMMA StatusKube ==
    ASSUME KubeInv, \/ StatusBegins \/ StatusFails
                    \/ \E g \in Groups, available \in BOOLEAN : StatusEnds(g, available)
    PROVE  KubeInv'
<1>1. UNCHANGED <<ns, objects, manifest, call, settled, calls, mixed>>
  BY Zenon DEF StatusBegins, StatusFails, StatusEnds
<1>2. deploymentsForLease' = deploymentsForLease /\ Ingresses' = Ingresses
  BY <1>1, ClusterSame, Zenon
<1>3. \A l \in Leases : UnderWay(l)' /\ Settled(l)' /\ InTurn(l)'
  BY <1>1, LeaseSame, Zenon DEF KubeInv
<1>4. /\ calls' \in Nat /\ calls <= calls' /\ mixed \subseteq mixed'
      /\ DOMAIN call' = Leases /\ DOMAIN settled' = Leases
  BY <1>1 DEF KubeInv, KubeTypes
<1>5. CASE StatusBegins
  <2>1. snapshot' = deploymentsForLease' /\ verdict' = None
    BY <1>2, <1>5, Zenon DEF StatusBegins
  <2> QED BY <1>1, <1>3, <1>4, <2>1, CallsChange, Zenon
<1>6. CASE StatusFails
  <2>1. snapshot' = None /\ verdict' = None
    BY <1>6, Zenon DEF StatusFails
  <2> QED BY <1>1, <1>3, <1>4, <2>1, CallsChange, Zenon
<1>7. ASSUME NEW g \in Groups, NEW available \in BOOLEAN, StatusEnds(g, available)
      PROVE  KubeInv'
  <2>1. /\ snapshot # None /\ snapshot' = None /\ quiet' = quiet
        /\ verdict' = [group |-> g, available |-> available, is |-> StatusOf(g, available)]
    BY <1>7, Zenon DEF StatusEnds
  <2>2. verdict'.group = g /\ verdict'.available = available /\ verdict'.is = StatusOf(g, available)
    BY <2>1
  <2>3. quiet => StatusOf(g, available) = VerdictNow(g, available)
    BY <2>1, Zenon DEF KubeInv, StatusOf, VerdictNow
  <2>4. (quiet => verdict.group \in Groups /\ verdict.is = VerdictNow(verdict.group, verdict.available))'
    <3>1. NamesOf(verdict'.group) = NamesOf(g)
      BY <2>2, Zenon
    <3> QED BY <1>2, <2>1, <2>2, <2>3, <3>1, Zenon DEF VerdictNow
  <2> QED BY <1>1, <1>3, <1>4, <2>1, <2>4, CallsChange, Zenon
<1> QED BY <1>5, <1>6, <1>7, Zenon

\* A crash loses the calls; what has been settled stays so.
LEMMA CrashKube ==
    ASSUME KubeInv, Crash \/ UNCHANGED vars
    PROVE  KubeInv'
<1>1. /\ UNCHANGED <<ns, objects, manifest, quiet, verdict, settled, calls, mixed>>
      /\ snapshot' = snapshot \/ snapshot' = None
      /\ call' = call \/ call' = [l \in Leases |-> None]
  BY Zenon DEF Crash, vars
<1>2. /\ calls' \in Nat /\ calls <= calls' /\ mixed \subseteq mixed'
      /\ DOMAIN call' = Leases /\ DOMAIN settled' = Leases
  BY <1>1 DEF KubeInv, KubeTypes
<1>3. \A l \in Leases : UnderWay(l)' /\ Settled(l)' /\ InTurn(l)'
  BY <1>1, LeaseSame, Zenon DEF KubeInv
<1> QED BY <1>1, <1>2, <1>3, VerdictSame, CallsChange, Zenon

\* The numbers of a lease.
LEMMA NumbersOf ==
    ASSUME KubeInv, NEW l \in Leases
    PROVE  /\ calls \in Nat /\ DOMAIN call = Leases /\ DOMAIN settled = Leases
           /\ call[l] # None => settled[l] = None /\ call[l].by \in Nat /\ call[l].by <= calls
           /\ settled[l] # None => settled[l].by \in Nat /\ settled[l].by <= calls
           /\ \A o \in There : objects[o].by \in Nat /\ objects[o].by <= calls
<1>1. calls \in Nat /\ DOMAIN call = Leases /\ DOMAIN settled = Leases
  BY DEF KubeInv, KubeTypes
<1>2. ASSUME call[l] # None PROVE settled[l] = None /\ call[l].by \in Nat /\ call[l].by <= calls
  <2>1. PICK g \in Groups : \E k \in 0 .. Len(Plan(g)) : \E n \in Nat : At(l, g, k, n)
    BY <1>2, Zenon DEF KubeInv, UnderWay
  <2>2. PICK n \in Nat : n <= calls /\ \E t : call[l] = [group |-> g, by |-> n, todo |-> t]
    BY <2>1, Zenon DEF At
  <2>3. call[l].by = n
    BY <2>2
  <2> QED BY <1>2, <2>2, <2>3, Zenon DEF KubeInv, UnderWay
<1>3. settled[l] # None => settled[l].by \in Nat /\ settled[l].by <= calls
  BY Zenon DEF KubeInv, Settled
<1>4. \A o \in There : objects[o].by \in Nat
  BY DEF KubeInv, KubeTypes, There
<1> QED BY <1>1, <1>2, <1>3, <1>4, Zenon DEF KubeInv, Covered

\* Deploy begins: all of its plan is ahead of it, and from now on it overlaps with those that
\* are under way.
LEMMA DeployKube ==
    ASSUME KubeInv, NEW l \in Leases, NEW g \in Groups, Deploy(l, g)
    PROVE  KubeInv'
<1>1. /\ UNCHANGED <<ns, objects, manifest, quiet, verdict, snapshot>> /\ calls' = calls + 1
      /\ call' = [call EXCEPT ![l] = [group |-> g, by |-> calls', todo |-> Plan(g)]]
      /\ settled' = [settled EXCEPT ![l] = None]
      /\ mixed' = IF UnderWayNow = {} THEN mixed ELSE mixed \cup UnderWayNow \cup {calls'}
  BY Zenon DEF Deploy
<1>2. calls \in Nat /\ calls' \in Nat /\ calls <= calls' /\ calls < calls'
  BY <1>1, NumbersOf
<1>3. /\ DOMAIN call' = Leases /\ DOMAIN settled' = Leases /\ settled'[l] = None
      /\ call'[l] = [group |-> g, by |-> calls', todo |-> Plan(g)]
      /\ \A x \in Leases : x # l => call'[x] = call[x] /\ settled'[x] = settled[x]
  BY <1>1, NumbersOf, Zenon
<1>4. call'[l].by = calls'
  BY <1>3
<1>5. mixed \subseteq mixed' /\ \A x \in Leases : call[x] # None => call[x].by \in mixed' /\ calls' \in mixed'
  BY <1>1, Zenon DEF UnderWayNow
<1>6. There' = There
  BY <1>1, Zenon DEF There
<1>7. \A n \in Nat : n <= calls => n <= calls' /\ n < calls' /\ n # calls'
  BY <1>2
<1>8. UnderWay(l)' /\ Settled(l)' /\ InTurn(l)'
  <2>1. 0 \in 0 .. Len(Plan(g)) /\ (\A j \in 1 .. 0 : FALSE) /\ ~(0 > 1) /\ calls' <= calls'
    <3>1. Len(Plan(g)) \in Nat
      BY PlanFacts, Zenon DEF IsPlan
    <3> QED BY <1>2, <3>1
  <2>2. Behind(0, l, g, calls)'
    BY <2>1, Zenon DEF Behind
  <2>3. call'[l] = [group |-> g, by |-> calls', todo |-> Rest(g, 0)]
    BY <1>3, <2>1, RestFacts, Zenon
  <2>4. At(l, g, 0, calls)'
    BY <2>1, <2>2, <2>3, Zenon DEF At
  <2>5. UnderWay(l)'
    BY <1>2, <1>3, <2>1, <2>4, Zenon DEF UnderWay
  <2>6. Settled(l)'
    BY <1>3, Zenon DEF Settled
  <2>7. InTurn(l)'
    <3>1. \A x \in Leases : x # l /\ call'[x] # None => call'[l].by \in mixed'
      BY <1>3, <1>4, <1>5, Zenon
    <3>2. \A x \in Leases : settled'[x] # None => settled'[x].by < call'[l].by
      BY <1>3, <1>4, <1>7, NumbersOf, Zenon
    <3>3. \A o \in There' : objects'[o].by <= call'[l].by
      BY <1>1, <1>4, <1>6, <1>7, NumbersOf, Zenon
    <3> QED BY <3>1, <3>2, <3>3, Zenon DEF InTurn
  <2> QED BY <2>5, <2>6, <2>7
<1>9. ASSUME NEW x \in Leases, x # l PROVE UnderWay(x)' /\ Settled(x)' /\ InTurn(x)'
  <2>1. call'[x] = call[x] /\ settled'[x] = settled[x]
    BY <1>3, <1>9, Zenon
  <2>2. UnderWay(x)'
    <3> SUFFICES ASSUME call[x] # None
                 PROVE  /\ settled'[x] = None
                        /\ \E h \in Groups : \E k \in 0 .. Len(Plan(h)) : \E n \in Nat : At(x, h, k, n)'
      BY <2>1, Zenon DEF UnderWay
    <3>1. PICK h \in Groups : \E k \in 0 .. Len(Plan(h)) : \E n \in Nat : At(x, h, k, n)
      BY Zenon DEF KubeInv, UnderWay
    <3>2. PICK k \in 0 .. Len(Plan(h)) : \E n \in Nat : At(x, h, k, n)
      BY <3>1
    <3>3. PICK n \in Nat : At(x, h, k, n)
      BY <3>2
    <3>4. call[x].by = n
      BY <3>3 DEF At
    <3>5. At(x, h, k, n)'
      BY <1>1, <1>5, <1>7, <2>1, <3>3, <3>4, Zenon DEF At
    <3> QED BY <2>1, <3>5, NumbersOf, Zenon
  <2>3. Settled(x)'
    <3>1. settled'[x] # None => settled'[x].by <= calls' /\ settled'[x].by # calls'
      BY <1>7, <2>1, NumbersOf, Zenon
    <3> QED BY <2>1, <3>1, Zenon DEF Settled, LastWord, KubeInv
  <2>4. InTurn(x)'
    <3>1. InTurn(x)
      BY DEF KubeInv
    <3>2. call[x] # None => call'[x].by \in mixed'
      BY <1>5, <2>1, Zenon
    <3> QED BY <1>1, <1>3, <1>5, <1>6, <2>1, <3>1, <3>2, Zenon DEF InTurn
  <2> QED BY <2>2, <2>3, <2>4
<1> QED BY <1>1, <1>2, <1>3, <1>5, <1>8, <1>9, VerdictSame, CallsChange, Zenon

\* Deploy returns: all of its plan is behind it.
LEMMA ReturnsKube ==
    ASSUME KubeInv, NEW l \in Leases, DeployReturns(l)
    PROVE  KubeInv'
<1>1. /\ UNCHANGED <<ns, objects, manifest, quiet, verdict, snapshot, calls, mixed>>
      /\ call[l] # None /\ call[l].todo = << >>
      /\ call' = [call EXCEPT ![l] = None]
      /\ settled' = [settled EXCEPT ![l] = [group |-> call[l].group, by |-> call[l].by]]
  BY Zenon DEF DeployReturns
<1>2. calls' \in Nat /\ calls <= calls' /\ mixed \subseteq mixed'
  BY <1>1, NumbersOf
<1>3. There' = There /\ \A i, x, y, n : Behind(i, x, y, n)' <=> Behind(i, x, y, n)
  BY <1>1, ClusterSame, Zenon
<1>4. PICK g \in Groups : \E k \in 0 .. Len(Plan(g)) : \E n \in Nat : At(l, g, k, n)
  BY <1>1, Zenon DEF KubeInv, UnderWay
<1>5. PICK k \in 0 .. Len(Plan(g)) : \E n \in Nat : At(l, g, k, n)
  BY <1>4
<1>6. PICK n \in Nat : At(l, g, k, n)
  BY <1>5
<1>7. call[l].group = g /\ call[l].by = n /\ Rest(g, k) = << >> /\ n <= calls
  BY <1>1, <1>6 DEF At
<1>8. n \notin mixed => Behind(Len(Plan(g)), l, g, n)
  <2>1. k = Len(Plan(g))
    BY <1>7, RestFacts, Zenon
  <2> QED BY <1>6, <2>1, Zenon DEF At
<1>9. /\ DOMAIN call' = Leases /\ DOMAIN settled' = Leases /\ call'[l] = None
      /\ settled'[l] = [group |-> g, by |-> n]
      /\ \A x \in Leases : x # l => call'[x] = call[x] /\ settled'[x] = settled[x]
  BY <1>1, <1>7, NumbersOf, Zenon
<1>10. settled'[l].group = g /\ settled'[l].by = n
  BY <1>9
<1>11. UnderWay(l)' /\ Settled(l)' /\ InTurn(l)'
  <2>1. UnderWay(l)' /\ InTurn(l)'
    BY <1>9, Zenon DEF UnderWay, InTurn
  <2>2. LastWord(l)' => n \notin mixed
    BY <1>1, <1>10, Zenon DEF LastWord
  <2>3. Settled(l)'
    BY <1>1, <1>3, <1>7, <1>8, <1>10, <2>2, ZenonT(30) DEF Settled
  <2> QED BY <2>1, <2>3
<1>12. ASSUME NEW x \in Leases, x # l PROVE UnderWay(x)' /\ Settled(x)' /\ InTurn(x)'
  <2>1. call'[x] = call[x] /\ settled'[x] = settled[x] /\ UnderWay(x) /\ Settled(x) /\ InTurn(x)
    BY <1>9, <1>12, Zenon DEF KubeInv
  <2>2. \A h, i, m : At(x, h, i, m) => At(x, h, i, m)'
    BY <1>1, <1>3, <2>1, Zenon DEF At
  <2>3. UnderWay(x)'
    BY <2>1, <2>2, Zenon DEF UnderWay
  <2>4. Settled(x)'
    BY <1>1, <1>3, <2>1, ZenonT(30) DEF Settled, LastWord
  <2>5. InTurn(x)'
    <3> SUFFICES ASSUME call[x] # None PROVE InTurn(x)'
      BY <2>1, Zenon DEF InTurn
    <3>1. n \in mixed
      BY <1>1, <1>7, <1>12, Zenon DEF KubeInv, InTurn
    <3>2. \A y \in Leases : settled'[y] # None => settled'[y].by \in mixed' \/ settled'[y].by < call'[x].by
      BY <1>1, <1>9, <1>10, <2>1, <3>1, Zenon DEF InTurn
    <3>3. \A y \in Leases : y # x /\ call'[y] # None => call'[x].by \in mixed'
      BY <1>1, <1>9, <2>1, Zenon DEF InTurn
    <3> QED BY <1>1, <1>3, <2>1, <3>2, <3>3, Zenon DEF InTurn
  <2> QED BY <2>3, <2>4, <2>5
<1> QED BY <1>1, <1>2, <1>9, <1>11, <1>12, VerdictSame, CallsChange, Zenon

\* TeardownLease forgets what was deployed; the namespace may go, in its own time.
LEMMA TeardownKube ==
    ASSUME KubeInv, NEW l \in Leases, TeardownLease(l)
    PROVE  KubeInv'
<1>1. /\ UNCHANGED <<objects, manifest, call, mixed>> /\ calls' = calls + 1 /\ call[l] = None
      /\ settled' = [settled EXCEPT ![l] = None] /\ quiet' = FALSE
      /\ ns' = ns \/ (ns = "active" /\ ns' = "terminating")
  BY DEF TeardownLease
<1>2. There' = There /\ (ns' = "none" <=> ns = "none")
  BY <1>1 DEF There
<1>3. KubeTypes' /\ (ns' = "none" => There' = {})
  BY <1>1, <1>2 DEF KubeInv, KubeTypes
<1>4. settled'[l] = None /\ \A x \in Leases : x # l => settled'[x] = settled[x]
  BY <1>1, NumbersOf, Zenon
<1>5. \A n \in Nat : n <= calls => n <= calls' /\ n # calls'
  BY <1>1, NumbersOf
<1>6. Covered'
  BY <1>1, <1>2, <1>5, NumbersOf, Zenon DEF KubeInv, Covered
<1>7. ASSUME NEW k, NEW x, NEW g, NEW n, Behind(k, x, g, n)
      PROVE  Behind(k, x, g, n)'
  <2>1. \A kind, h : Stale(kind, h)' = Stale(kind, h)
    BY <1>2, Zenon DEF Stale
  <2>2. ASSUME NEW s, Effect(s, x, g, n) PROVE Effect(s, x, g, n)'
    BY <1>1, <1>2, <2>1, <2>2, Zenon DEF Effect
  <2> QED BY <1>7, <2>2, Zenon DEF Behind
<1>8. ASSUME NEW x \in Leases PROVE UnderWay(x)' /\ Settled(x)' /\ InTurn(x)'
  <2>1. UnderWay(x) /\ Settled(x) /\ InTurn(x) /\ (settled'[x] = None \/ settled'[x] = settled[x])
    BY <1>4, Zenon DEF KubeInv
  <2>2. \A h, i : \A m \in Nat : At(x, h, i, m) => At(x, h, i, m)'
    BY <1>1, <1>5, <1>7, Zenon DEF At
  <2>3. UnderWay(x)'
    BY <1>1, <2>1, <2>2, ZenonT(30) DEF UnderWay
  <2>4. settled'[x] # None => settled'[x].by <= calls' /\ settled'[x].by # calls'
    BY <1>5, <2>1, NumbersOf, Zenon
  <2>5. Settled(x)'
    BY <2>1, <2>4, Zenon DEF Settled, LastWord
  <2>6. InTurn(x)'
    <3>1. \A y \in Leases : settled'[y] # None => settled'[y] = settled[y]
      BY <1>4, Zenon
    <3>2. \A y \in Leases : settled'[y] # None => settled[y] # None
      BY <3>1
    <3> SUFFICES ASSUME call[x] # None PROVE InTurn(x)'
      BY <1>1, Zenon DEF InTurn
    <3>3. call' = call /\ mixed' = mixed /\ objects' = objects
      BY <1>1, Zenon
    <3>4. \A y \in Leases : settled'[y] # None => settled'[y].by \in mixed' \/ settled'[y].by < call'[x].by
      BY <2>1, <3>1, <3>2, <3>3, Zenon DEF InTurn
    <3>5. \A y \in Leases : y # x /\ call'[y] # None => call'[x].by \in mixed'
      BY <2>1, <3>3, Zenon DEF InTurn
    <3>6. \A o \in There' : objects'[o].by \in mixed' \/ objects'[o].by <= call'[x].by
      BY <1>2, <2>1, <3>3, Zenon DEF InTurn
    <3> QED BY <3>4, <3>5, <3>6, Zenon DEF InTurn
  <2> QED BY <2>3, <2>5, <2>6
<1> QED BY <1>1, <1>3, <1>6, <1>8, Zenon DEF KubeInv

\* The namespace goes, and with it all objects, also under a Deploy.
LEMMA GoneKube ==
    ASSUME KubeInv, NamespaceGone
    PROVE  KubeInv'
<1>1. /\ ns' = "none" /\ objects' = [o \in Objects |-> None] /\ settled' = [l \in Leases |-> None]
      /\ quiet' = FALSE /\ UNCHANGED <<manifest, call, calls, mixed>>
  BY Zenon DEF NamespaceGone
<1>2. There' = {} /\ Covered'
  BY <1>1, Zenon DEF There, Covered
<1>3. KubeTypes'
  BY <1>1 DEF KubeInv, KubeTypes
<1>4. ASSUME NEW k, NEW l, NEW g, NEW n, Behind(k, l, g, n)
      PROVE  Behind(k, l, g, n)'
  <2>1. \A kind, x : Stale(kind, x)' = {}
    BY <1>2, Zenon DEF Stale
  <2>2. ASSUME NEW s, Effect(s, l, g, n) PROVE Effect(s, l, g, n)'
    BY <1>1, <1>2, <2>1, <2>2, Zenon DEF Effect
  <2> QED BY <1>4, <2>2, Zenon DEF Behind
<1>5. ASSUME NEW l \in Leases PROVE UnderWay(l)' /\ Settled(l)' /\ InTurn(l)'
  <2>1. (\A x \in Leases : settled'[x] = None) /\ UnderWay(l) /\ InTurn(l)
    BY <1>1, Zenon DEF KubeInv
  <2>2. Settled(l)'
    BY <2>1, Zenon DEF Settled
  <2>3. \A h, i, m : At(l, h, i, m) => At(l, h, i, m)'
    BY <1>1, <1>4, Zenon DEF At
  <2>4. UnderWay(l)'
    BY <1>1, <2>1, <2>3, ZenonT(30) DEF UnderWay
  <2>5. InTurn(l)'
    BY <1>1, <1>2, <2>1, Zenon DEF InTurn
  <2> QED BY <2>2, <2>4, <2>5
<1> QED BY <1>1, <1>2, <1>3, <1>5, Zenon DEF KubeInv

\* While a Deploy for l is under way, those of other leases have overlapped with it, and none
\* has the last word.
LEMMA OthersMixed ==
    ASSUME KubeInv, NEW l \in Leases, call[l] # None, NEW x \in Leases, x # l,
           UNCHANGED <<settled, calls, mixed>>, call'[x] = call[x],
           \A y \in Leases : call'[y] # None => call[y] # None, manifest # None => manifest' # None,
           \A o \in There' : objects'[o].by = call[l].by \/ (o \in There /\ objects'[o] = objects[o])
    PROVE  UnderWay(x)' /\ Settled(x)' /\ InTurn(x)'
<1>1. UnderWay(x) /\ Settled(x) /\ InTurn(x) /\ InTurn(l)
  BY DEF KubeInv
<1>2. call[x] # None => call[x].by \in mixed /\ call[l].by \in mixed
  BY <1>1, Zenon DEF InTurn
<1>3. UnderWay(x)'
  <2> SUFFICES ASSUME call[x] # None
               PROVE  /\ settled'[x] = None
                      /\ \E h \in Groups : \E k \in 0 .. Len(Plan(h)) : \E n \in Nat : At(x, h, k, n)'
    BY Zenon DEF UnderWay
  <2>1. PICK h \in Groups : \E k \in 0 .. Len(Plan(h)) : \E n \in Nat : At(x, h, k, n)
    BY <1>1, Zenon DEF UnderWay
  <2>2. PICK k \in 0 .. Len(Plan(h)) : \E n \in Nat : At(x, h, k, n)
    BY <2>1
  <2>3. PICK n \in Nat : At(x, h, k, n)
    BY <2>2
  <2>4. call[x].by = n
    BY <2>3 DEF At
  <2>5. At(x, h, k, n)'
    BY <1>2, <2>3, <2>4, Zenon DEF At
  <2> QED BY <2>5, NumbersOf, Zenon
<1>4. Settled(x)'
  <2>1. ASSUME LastWord(x)' PROVE FALSE
    <3>1. settled[x] # None /\ settled[x].by = calls /\ settled[x].by \notin mixed
      BY <2>1, Zenon DEF LastWord
    <3>2. calls < call[l].by
      BY <1>1, <3>1, Zenon DEF InTurn
    <3>3. calls \in Nat /\ call[l].by \in Nat /\ call[l].by <= calls
      BY NumbersOf, Zenon
    <3> QED BY <3>2, <3>3
  <2> QED BY <1>1, <2>1, Zenon DEF Settled
<1>5. InTurn(x)'
  <2> SUFFICES ASSUME call[x] # None PROVE InTurn(x)'
    BY Zenon DEF InTurn
  <2>1. \A o \in There' : objects'[o].by \in mixed' \/ objects'[o].by <= call'[x].by
    BY <1>1, <1>2, Zenon DEF InTurn
  <2> QED BY <1>1, <2>1, Zenon DEF InTurn
<1> QED BY <1>3, <1>4, <1>5

\* A Deploy fails: it is over, and some stale objects may have gone.
LEMMA FailsKube ==
    ASSUME KubeInv, NEW l \in Leases, DeployFails(l)
    PROVE  KubeInv'
<1>1. /\ UNCHANGED <<ns, manifest, settled, calls, mixed>> /\ quiet' = FALSE
      /\ call[l] # None /\ call' = [call EXCEPT ![l] = None]
      /\ \E gone : objects' = [o \in Objects |-> IF o \in gone THEN None ELSE objects[o]]
  BY Zenon DEF DeployFails
<1>2. \A o \in Objects : objects'[o] = None \/ objects'[o] = objects[o]
  BY <1>1
<1>3. There' \subseteq There /\ \A o \in There' : objects'[o] = objects[o]
  BY <1>2, Zenon DEF There
<1>4. KubeTypes' /\ call'[l] = None /\ \A x \in Leases : x # l => call'[x] = call[x]
  BY <1>1 DEF KubeInv, KubeTypes
<1>5. UnderWay(l)' /\ Settled(l)' /\ InTurn(l)'
  <2>1. settled'[l] = None
    BY <1>1, NumbersOf, Zenon
  <2> QED BY <1>4, <2>1, Zenon DEF UnderWay, Settled, InTurn
<1>6. ASSUME NEW x \in Leases, x # l PROVE UnderWay(x)' /\ Settled(x)' /\ InTurn(x)'
  <2>1. \A y \in Leases : call'[y] # None => call[y] # None
    BY <1>4, Zenon
  <2>2. \A o \in There' : o \in There /\ objects'[o] = objects[o]
    BY <1>3, Zenon
  <2> QED BY <1>1, <1>4, <1>6, <2>1, <2>2, OthersMixed, Zenon
<1>7. (ns' = "none" => There' = {}) /\ Covered'
  BY <1>1, <1>3 DEF KubeInv, Covered
<1> QED BY <1>1, <1>4, <1>5, <1>6, <1>7, Zenon DEF KubeInv

\* The objects of a group are among those of the cluster.
LEMMA GroupObjects ==
    ASSUME NEW g \in Groups, NEW o \in Kinds \X NamesOf(g)
    PROVE  o \in Objects /\ o[2] \in NamesOf(g)
BY DEF Objects, Names

\* A call with t left to do.
WithTodo(c, t) == [c EXCEPT !.todo = t]

\* What the request s of a call that deploys g and writes new does to the cluster.
Does(s, new, g) ==
    \/ /\ s.do = "namespace" /\ ns' = (IF ns = "none" THEN "active" ELSE ns)
       /\ UNCHANGED <<objects, manifest>>
    \/ s.do = "manifest" /\ manifest' = new /\ UNCHANGED <<ns, objects>>
    \/ /\ s.do = "clean"
       /\ objects' = [o \in Objects |-> IF o \in Stale(s.kind, g) THEN None ELSE objects[o]]
       /\ UNCHANGED <<ns, manifest>>
    \/ /\ s.do = "apply" /\ s.obj \in Objects /\ s.obj[2] \in NamesOf(g)
       /\ s.obj \in There \/ ns = "active"
       /\ objects' = [objects EXCEPT ![s.obj] = new] /\ UNCHANGED <<ns, manifest>>

\* A step of Deploy takes the next request of its plan.
LEMMA NextRequest ==
    ASSUME NEW l \in Leases, NEW g \in Groups, NEW k \in 0 .. Len(Plan(g)), NEW n \in Nat,
           call[l] = [group |-> g, by |-> n, todo |-> Rest(g, k)], DOMAIN call = Leases,
           DeployStep(l), NEW p, p = Plan(g)
    PROVE  /\ k \in Nat /\ k + 1 \in 1 .. Len(p) /\ k + 1 \in 0 .. Len(p)
           /\ call' = [call EXCEPT ![l] = [group |-> g, by |-> n, todo |-> Rest(g, k + 1)]]
           /\ Does(p[k + 1], Written(l, g, n), g)
           /\ p[1].do = "namespace" /\ p[2].do = "manifest"
           /\ \/ k = 0 /\ p[k + 1].do = "namespace"
              \/ k = 1 /\ p[k + 1].do = "manifest"
              \/ k > 1 /\ 2 \in 1 .. k /\ p[k + 1].do \in {"clean", "apply"}
<1>0. call[l] # None /\ call[l].todo # << >>
  BY Zenon DEF DeployStep
<1>1. IsPlan(p, g)
  BY PlanFacts, Zenon
<1>2. call[l].group = g /\ call[l].by = n /\ call[l].todo = Rest(g, k)
  OBVIOUS
<1>3. k \in Nat /\ k < Len(p) /\ k + 1 \in 0 .. Len(p) /\ k + 1 \in 1 .. Len(p)
  <2>1. k # Len(p)
    <3>1. Rest(g, Len(Plan(g))) = << >>
      BY <1>1 DEF Rest, IsPlan
    <3> QED BY <1>0, <1>2, <3>1
  <2>2. Len(p) \in Nat
    BY <1>1, Zenon DEF IsPlan
  <2> QED BY <2>1, <2>2
<1>4. PICK s : s = p[k + 1] /\ s = Head(call[l].todo)
  BY <1>2, <1>3, RestFacts, Zenon
<1>5. call' = [call EXCEPT ![l] = [group |-> g, by |-> n, todo |-> Rest(g, k + 1)]]
  <2>1. call' = [call EXCEPT ![l] = WithTodo(call[l], Tail(call[l].todo))]
    BY DEF DeployStep, WithTodo
  <2>2. Tail(call[l].todo) = Rest(g, k + 1)
    BY <1>2, <1>3, RestFacts, Zenon
  <2>3. ASSUME NEW a, NEW b, NEW c, NEW d
        PROVE  WithTodo([group |-> a, by |-> b, todo |-> c], d) = [group |-> a, by |-> b, todo |-> d]
    BY DEF WithTodo
  <2>4. WithTodo(call[l], Tail(call[l].todo)) = [group |-> g, by |-> n, todo |-> Rest(g, k + 1)]
    <3>1. WithTodo(call[l], Tail(call[l].todo)) = WithTodo([group |-> g, by |-> n, todo |-> Rest(g, k)], Rest(g, k + 1))
      BY <2>2, Zenon
    <3> QED BY <2>3, <3>1, Zenon
  <2> QED BY <2>1, <2>4, Zenon
<1>6. /\ p[1].do = "namespace" /\ p[2].do = "manifest"
      /\ \/ k = 0 /\ s.do = "namespace"
         \/ k = 1 /\ s.do = "manifest"
         \/ k > 1 /\ 2 \in 1 .. k /\ s.do \in {"clean", "apply"}
  <2>1. /\ p[1].do = "namespace" /\ p[2].do = "manifest"
        /\ k + 1 > 2 => p[k + 1].do \in {"clean", "apply"}
    BY <1>1, <1>3, Zenon DEF IsPlan
  <2>2. (k = 0 /\ k + 1 = 1) \/ (k = 1 /\ k + 1 = 2) \/ (k > 1 /\ 2 \in 1 .. k /\ k + 1 > 2)
    BY <1>3
  <2> QED BY <1>4, <2>1, <2>2, Zenon
<1>7. Does(s, Written(l, g, n), g)
  <2>1. CASE s.do = "namespace"
    BY <1>4, <2>1, Zenon DEF DeployStep, Does
  <2>2. CASE s.do = "manifest"
    BY <1>2, <1>4, <2>2, Zenon DEF DeployStep, Does, Written
  <2>3. CASE s.do = "clean"
    BY <1>2, <1>4, <2>3, Zenon DEF DeployStep, Does
  <2>4. CASE s.do = "apply"
    <3>1. s.obj \in Kinds \X NamesOf(g)
      <4>1. p[k + 1].do = "apply" => p[k + 1].obj \in Kinds \X NamesOf(g)
        BY <1>1, <1>3, Zenon DEF IsPlan
      <4> QED BY <1>4, <2>4, <4>1, Zenon
    <3>2. s.obj \in Objects /\ s.obj[2] \in NamesOf(g)
      BY <3>1, GroupObjects, Zenon
    <3> QED BY <1>2, <1>4, <2>4, <3>2, Zenon DEF DeployStep, Does, Written
  <2> QED BY <1>6, <2>1, <2>2, <2>3, <2>4
<1> QED BY <1>3, <1>4, <1>5, <1>6, <1>7, Zenon

\* A request of a Deploy that has the cluster to itself brings about what it is for, and
\* undoes no request before it.
LEMMA RequestEffect ==
    ASSUME KubeTypes, ns = "none" => There = {}, NEW l \in Leases, NEW g \in Groups, NEW n \in Nat,
           NEW p, p = Plan(g), NEW k \in Nat, k + 1 \in 1 .. Len(p), NEW new, new = Written(l, g, n),
           Does(p[k + 1], new, g), p[1].do = "namespace", p[2].do = "manifest",
           \/ k = 0 /\ p[k + 1].do = "namespace"
           \/ k = 1 /\ p[k + 1].do = "manifest"
           \/ k > 1 /\ 2 \in 1 .. k /\ p[k + 1].do \in {"clean", "apply"},
           Behind(k, l, g, n)
    PROVE  Behind(k + 1, l, g, n)'
<1> SUFFICES \A j \in 1 .. k + 1 : Effect(p[j], l, g, n)'
  BY Zenon DEF Behind
<1>1. IsPlan(p, g)
  BY PlanFacts, Zenon
<1>2. /\ \A j \in 1 .. k + 1 : j = k + 1 \/ j \in 1 .. k
      /\ \A j \in 1 .. k : j \in 1 .. Len(p)
  <2>1. Len(p) \in Nat
    BY <1>1, Zenon DEF IsPlan
  <2> QED BY <2>1
<1>3. \A j \in 1 .. k : Effect(p[j], l, g, n)
  BY Zenon DEF Behind
<1>4. PICK s : s = p[k + 1]
  BY Zenon
<1>5. CASE s.do = "namespace"
  <2>1. k = 0
    BY <1>4, <1>5
  <2>2. ASSUME NEW j \in 1 .. k + 1 PROVE Effect(p[j], l, g, n)'
    <3>1. p[j].do = "namespace"
      BY <2>1
    <3> QED BY <3>1 DEF Effect
  <2> QED BY <2>2
<1>6. CASE s.do = "manifest"
  <2>1. manifest' = new
    BY <1>4, <1>6 DEF Does
  <2>2. k = 1
    BY <1>4, <1>6
  <2>3. ASSUME NEW j \in 1 .. k + 1 PROVE Effect(p[j], l, g, n)'
    <3>1. p[j].do \in {"namespace", "manifest"}
      BY <2>2
    <3> QED BY <2>1, <3>1 DEF Effect, Written
  <2> QED BY <2>3
<1>7. CASE s.do = "clean"
  <2>1. /\ objects' = [o \in Objects |-> IF o \in Stale(s.kind, g) THEN None ELSE objects[o]]
        /\ UNCHANGED <<ns, manifest>>
    BY <1>4, <1>7 DEF Does
  <2>2. /\ There' = There \ Stale(s.kind, g)
        /\ \A o \in Objects : o[2] \in NamesOf(g) => objects'[o] = objects[o]
    BY <2>1 DEF There, Stale
  <2>3. (\A kind : Stale(kind, g)' \subseteq Stale(kind, g)) /\ Stale(s.kind, g)' = {}
    BY <2>2 DEF Stale
  <2>4. ASSUME NEW j \in 1 .. k PROVE Effect(p[j], l, g, n)'
    <3>1. Effect(p[j], l, g, n)
      BY <1>3
    <3>2. p[j].do = "apply" => p[j].obj \in Objects /\ p[j].obj[2] \in NamesOf(g)
      BY <1>1, <1>2, GroupObjects, Zenon DEF IsPlan
    <3>3. There = {} => There' = {}
      BY <2>2
    <3>4. \A kind : Stale(kind, g) = {} => Stale(kind, g)' = {}
      BY <2>3
    <3> QED BY <2>1, <2>2, <3>1, <3>2, <3>3, <3>4, Zenon DEF Effect
  <2>5. Effect(s, l, g, n)'
    BY <1>7, <2>3 DEF Effect
  <2> QED BY <1>2, <1>4, <2>4, <2>5, Zenon
<1>8. CASE s.do = "apply"
  <2>1. /\ s.obj \in Objects /\ s.obj[2] \in NamesOf(g) /\ (s.obj \in There \/ ns = "active")
        /\ objects' = [objects EXCEPT ![s.obj] = new] /\ UNCHANGED <<ns, manifest>>
    BY <1>4, <1>8 DEF Does
  <2>2. objects'[s.obj] = new /\ \A o \in Objects : o # s.obj => objects'[o] = objects[o]
    BY <2>1 DEF KubeTypes
  <2>3. There' \subseteq There \cup {s.obj} /\ ns # "none"
    <3>1. There' \subseteq There \cup {s.obj}
      BY <2>2, Zenon DEF There
    <3>2. ns # "none"
      BY <2>1
    <3> QED BY <3>1, <3>2
  <2>4. \A kind : Stale(kind, g)' \subseteq Stale(kind, g)
    BY <2>1, <2>3 DEF Stale
  <2>5. ASSUME NEW j \in 1 .. k PROVE Effect(p[j], l, g, n)'
    <3>1. Effect(p[j], l, g, n)
      BY <1>3
    <3>2. p[j].do = "apply" => p[j].obj \in Objects
      BY <1>1, <1>2, GroupObjects, Zenon DEF IsPlan
    <3>3. \A kind : Stale(kind, g) = {} => Stale(kind, g)' = {}
      BY <2>4
    <3>4. p[j].do = "apply" => objects'[p[j].obj] = new
      BY <2>2, <2>3, <3>1, <3>2, Zenon DEF Effect
    <3> QED BY <2>1, <3>1, <3>3, <3>4, Zenon DEF Effect, Written
  <2>6. Effect(s, l, g, n)'
    BY <1>8, <2>2, Zenon DEF Effect, Written
  <2> QED BY <1>2, <1>4, <2>5, <2>6, Zenon
<1> QED BY <1>4, <1>5, <1>6, <1>7, <1>8

\* A request leaves the cluster in order, whoever else is at work.
LEMMA RequestCluster ==
    ASSUME KubeTypes, Covered, ns = "none" => There = {}, NEW g, NEW s, NEW n \in Nat, NEW new,
           new \in [lease : Leases, group : Groups, by : Nat], new.by = n, n <= calls,
           Does(s, new, g), UNCHANGED <<calls, mixed>>, DOMAIN call' = Leases, DOMAIN settled' = Leases,
           \A o \in There : objects[o].by \in mixed \/ objects[o].by <= n,
           s.do = "apply" => manifest # None /\ (n \in mixed \/ manifest = new)
    PROVE  /\ KubeTypes' /\ Covered' /\ (ns' = "none" => There' = {})
           /\ manifest # None => manifest' # None
           /\ \A o \in There' : objects'[o].by = n \/ (o \in There /\ objects'[o] = objects[o])
<1>0. new # None /\ n <= n
  BY KubeAssumption
<1>1. CASE s.do = "namespace" /\ UNCHANGED <<objects, manifest>> /\ ns' = (IF ns = "none" THEN "active" ELSE ns)
  <2>1. There' = There
    BY <1>1, Zenon DEF There
  <2>2. KubeTypes' /\ ns' # "none"
    BY <1>1 DEF KubeTypes
  <2>3. Covered'
    BY <1>1, <2>1, Zenon DEF Covered
  <2> QED BY <1>1, <2>1, <2>2, <2>3, Zenon
<1>2. CASE s.do = "manifest" /\ manifest' = new /\ UNCHANGED <<ns, objects>>
  <2>1. There' = There
    BY <1>2, Zenon DEF There
  <2>2. KubeTypes'
    BY <1>2, Zenon DEF KubeTypes
  <2>3. Covered'
    BY <1>0, <1>2, <2>1, Zenon DEF Covered
  <2> QED BY <1>0, <1>2, <2>1, <2>2, <2>3, Zenon
<1>3. CASE /\ s.do = "clean" /\ UNCHANGED <<ns, manifest>>
           /\ objects' = [o \in Objects |-> IF o \in Stale(s.kind, g) THEN None ELSE objects[o]]
  <2>1. There' \subseteq There /\ \A o \in There' : objects'[o] = objects[o]
    BY <1>3 DEF There
  <2>2. KubeTypes'
    BY <1>3 DEF KubeTypes
  <2>3. Covered'
    <3>1. \A o \in There' : o \in There /\ objects'[o] = objects[o]
      BY <2>1, Zenon
    <3>2. calls' = calls /\ mixed' = mixed /\ manifest' = manifest
      BY <1>3, Zenon
    <3> QED BY <3>1, <3>2, Zenon DEF Covered
  <2>4. ns' = "none" => There' = {}
    BY <1>3, <2>1
  <2> QED BY <1>3, <2>1, <2>2, <2>3, <2>4, Zenon
<1>4. CASE /\ s.do = "apply" /\ s.obj \in Objects /\ (s.obj \in There \/ ns = "active")
           /\ objects' = [objects EXCEPT ![s.obj] = new] /\ UNCHANGED <<ns, manifest>>
  <2>1. KubeTypes' /\ objects'[s.obj] = new /\ \A o \in Objects : o # s.obj => objects'[o] = objects[o]
    BY <1>4 DEF KubeTypes
  <2>2. ns' # "none"
    BY <1>4
  <2>3. \A o \in There' : o = s.obj \/ (o \in There /\ objects'[o] = objects[o])
    BY <2>1, Zenon DEF There
  <2>4. Covered'
    <3>1. manifest' # None /\ manifest' = manifest
      BY <1>4, Zenon
    <3>2. objects'[s.obj].by <= calls' /\ (objects'[s.obj].by \in mixed' \/ objects'[s.obj].by <= manifest'.by)
      <4>1. objects'[s.obj].by = n /\ (n \in mixed \/ manifest'.by = n)
        BY <1>4, <2>1, <3>1, Zenon
      <4>2. calls' = calls /\ mixed' = mixed
        BY Zenon
      <4> QED BY <1>0, <4>1, <4>2, Zenon
    <3>3. calls' = calls /\ mixed' = mixed
      BY Zenon
    <3> QED BY <2>3, <3>1, <3>2, <3>3, Zenon DEF Covered
  <2>5. \A o \in There' : objects'[o].by = n \/ (o \in There /\ objects'[o] = objects[o])
    BY <2>1, <2>3, Zenon
  <2> QED BY <1>4, <2>1, <2>2, <2>4, <2>5, Zenon
<1> QED BY <1>1, <1>2, <1>3, <1>4, Zenon DEF Does

\* A step of Deploy keeps the invariant: of its own lease by what its request does, of the
\* others because they have overlapped with it.
LEMMA StepKube ==
    ASSUME KubeInv, NEW l \in Leases, DeployStep(l)
    PROVE  KubeInv'
<1>1. call[l] # None /\ quiet' = FALSE /\ UNCHANGED <<settled, calls, mixed>>
  BY Zenon DEF DeployStep
<1>2. PICK g \in Groups : \E k \in 0 .. Len(Plan(g)) : \E n \in Nat : At(l, g, k, n)
  BY <1>1, Zenon DEF KubeInv, UnderWay
<1>3. PICK k \in 0 .. Len(Plan(g)) : \E n \in Nat : At(l, g, k, n)
  BY <1>2
<1>4. PICK n \in Nat : At(l, g, k, n)
  BY <1>3
<1>5. call[l] = [group |-> g, by |-> n, todo |-> Rest(g, k)] /\ n <= calls /\ (k > 1 => manifest # None)
  BY <1>4, Zenon DEF At
<1>6. call[l].by = n
  BY <1>5
<1>7. PICK p : p = Plan(g)
  BY Zenon
<1>8. PICK new : new = Written(l, g, n)
  BY Zenon
<1>9. new \in [lease : Leases, group : Groups, by : Nat] /\ new.by = n
  BY <1>8 DEF Written
<1>10. /\ k \in Nat /\ k + 1 \in 1 .. Len(p) /\ k + 1 \in 0 .. Len(p)
       /\ call' = [call EXCEPT ![l] = [group |-> g, by |-> n, todo |-> Rest(g, k + 1)]]
       /\ Does(p[k + 1], new, g)
       /\ p[1].do = "namespace" /\ p[2].do = "manifest"
       /\ \/ k = 0 /\ p[k + 1].do = "namespace"
          \/ k = 1 /\ p[k + 1].do = "manifest"
          \/ k > 1 /\ 2 \in 1 .. k /\ p[k + 1].do \in {"clean", "apply"}
  <2>1. DOMAIN call = Leases
    BY NumbersOf, Zenon
  <2>2. call[l] = [group |-> g, by |-> n, todo |-> Rest(g, k)]
    BY <1>5
  <2>3. Does(p[k + 1], Written(l, g, n), g) => Does(p[k + 1], new, g)
    BY <1>8, Zenon
  <2> QED BY <1>7, <2>1, <2>2, <2>3, NextRequest
<1>11. /\ DOMAIN call' = Leases /\ call'[l] = [group |-> g, by |-> n, todo |-> Rest(g, k + 1)]
       /\ \A x \in Leases : x # l => call'[x] = call[x]
  BY <1>10, NumbersOf, Zenon
<1>12. call'[l].by = n
  BY <1>11
<1>13. p[k + 1].do = "apply" => manifest # None /\ (n \in mixed \/ manifest = new)
  <2> SUFFICES ASSUME p[k + 1].do = "apply" PROVE manifest # None /\ (n \in mixed \/ manifest = new)
    OBVIOUS
  <2>1. k > 1 /\ 2 \in 1 .. k
    BY <1>10
  <2>2. n \notin mixed => Effect(p[2], l, g, n)
    BY <1>4, <1>7, <2>1, Zenon DEF At, Behind
  <2> QED BY <1>5, <1>8, <1>10, <2>1, <2>2, Zenon DEF Effect
<1>14. \A o \in There : objects[o].by \in mixed \/ objects[o].by <= n
  BY <1>1, <1>6, Zenon DEF KubeInv, InTurn
<1>15. /\ KubeTypes' /\ Covered' /\ (ns' = "none" => There' = {})
       /\ manifest # None => manifest' # None
       /\ \A o \in There' : objects'[o].by = n \/ (o \in There /\ objects'[o] = objects[o])
  <2>1. DOMAIN settled' = Leases
    BY <1>1, NumbersOf, Zenon
  <2>2. /\ KubeTypes /\ Covered /\ (ns = "none" => There = {})
        /\ n <= calls /\ Does(p[k + 1], new, g) /\ DOMAIN call' = Leases /\ UNCHANGED <<calls, mixed>>
    BY <1>1, <1>5, <1>10, <1>11, Zenon DEF KubeInv
  <2> QED BY <1>9, <1>13, <1>14, <2>1, <2>2, RequestCluster, ZenonT(30)
<1>16. UnderWay(l)'
  <2>1. n \notin mixed => Behind(k + 1, l, g, n)'
    <3> SUFFICES ASSUME n \notin mixed PROVE Behind(k + 1, l, g, n)'
      OBVIOUS
    <3>1. Behind(k, l, g, n) /\ KubeTypes /\ (ns = "none" => There = {})
      BY <1>4, Zenon DEF At, KubeInv
    <3> QED BY <1>7, <1>8, <1>10, <3>1, RequestEffect, Zenon
  <2>2. k + 1 > 1 => manifest' # None
    <3>1. CASE k > 1
      BY <1>5, <1>15, <3>1
    <3>2. CASE k = 1 /\ p[k + 1].do = "manifest"
      <4>1. manifest' = new
        BY <1>10, <3>2 DEF Does
      <4> QED BY <1>9, <4>1, KubeAssumption
    <3> QED BY <1>10, <3>1, <3>2
  <2>3. At(l, g, k + 1, n)'
    BY <1>1, <1>5, <1>11, <2>1, <2>2, Zenon DEF At
  <2>4. settled'[l] = None
    BY <1>1, NumbersOf, Zenon
  <2> QED BY <1>7, <1>10, <2>3, <2>4, Zenon DEF UnderWay
<1>17. Settled(l)' /\ InTurn(l)'
  <2>1. settled'[l] = None /\ n <= n
    BY <1>1, NumbersOf
  <2>2. InTurn(l)
    BY DEF KubeInv
  <2>3. \A x \in Leases : x # l /\ call'[x] # None => call'[l].by \in mixed'
    BY <1>1, <1>6, <1>11, <1>12, <2>2, Zenon DEF InTurn
  <2>4. \A x \in Leases : settled'[x] # None => settled'[x].by \in mixed' \/ settled'[x].by < call'[l].by
    BY <1>1, <1>6, <1>12, <2>2, Zenon DEF InTurn
  <2>5. \A o \in There' : objects'[o].by \in mixed' \/ objects'[o].by <= call'[l].by
    BY <1>1, <1>12, <1>14, <1>15, <2>1, Zenon
  <2> QED BY <2>1, <2>3, <2>4, <2>5, Zenon DEF Settled, InTurn
<1>18. ASSUME NEW x \in Leases, x # l PROVE UnderWay(x)' /\ Settled(x)' /\ InTurn(x)'
  <2>1. \A y \in Leases : call'[y] # None => call[y] # None
    BY <1>1, <1>11, Zenon
  <2> QED BY <1>1, <1>6, <1>11, <1>15, <1>18, <2>1, OthersMixed, Zenon
<1> QED BY <1>1, <1>15, <1>16, <1>17, <1>18, Zenon DEF KubeInv

-----------------------------------------------------------------------------
(* Theorems *)

LEMMA NextKube ==
    KubeInv /\ [Next]_vars => KubeInv'
BY StatusKube, DeployKube, ReturnsKube, CrashKube, TeardownKube, GoneKube, FailsKube, StepKube, Zenon
DEF Next

\* The inductive invariant of the client and its cluster.
THEOREM KubeInvariant ==
    Spec => []KubeInv
BY InitKube, NextKube, PTL DEF Spec

\* What a settled Deploy has behind it.
LEMMA SettledFacts ==
    ASSUME KubeInv, NEW l \in Leases, LastWord(l)
    PROVE  /\ settled[l].group \in Groups
           /\ \A o \in There : o[2] \in NamesOf(settled[l].group)
           /\ BuiltFor(manifest, l)
           /\ \/ \A o \in Wanted(settled[l].group) : BuiltFor(objects[o], l)
              \/ ns = "none" /\ There = {}
<1>1. PICK g \in Groups : g = settled[l].group
  BY Zenon DEF KubeInv, Settled, LastWord
<1>2. PICK n \in Nat : n = settled[l].by /\ Behind(Len(Plan(g)), l, g, n)
  BY <1>1, Zenon DEF KubeInv, Settled, LastWord
<1>3. PICK p : p = Plan(g) /\ IsPlan(p, g)
  BY PlanFacts, Zenon
<1>4. \A j \in 1 .. Len(p) : Effect(p[j], l, g, n)
  BY <1>2, <1>3, Zenon DEF Behind
<1>5. PICK new : new = Written(l, g, n)
  BY Zenon
<1>6. BuiltFor(new, l)
  BY <1>1, <1>2, <1>5, Zenon DEF BuiltFor, Written
<1>7. manifest = new
  <2>1. 2 \in 1 .. Len(p) /\ p[2].do = "manifest"
    BY <1>3 DEF IsPlan
  <2> QED BY <1>4, <1>5, <2>1, Zenon DEF Effect
<1>8. ASSUME NEW o \in There PROVE o[2] \in NamesOf(g)
  <2>1. o[1] \in Kinds
    BY DEF There, Objects
  <2>2. PICK j \in 1 .. Len(p) : p[j].do = "clean" /\ p[j].kind = o[1]
    BY <1>3, <2>1, ZenonT(30) DEF IsPlan
  <2>3. Stale(o[1], g) = {}
    BY <1>4, <2>2, Zenon DEF Effect
  <2> QED BY <2>3 DEF Stale
<1>9. ASSUME ~(ns = "none" /\ There = {}), NEW o \in Wanted(g) PROVE BuiltFor(objects[o], l)
  <2>1. PICK j \in 1 .. Len(p) : p[j].do = "apply" /\ p[j].obj = o
    BY <1>3, Zenon DEF IsPlan
  <2> QED BY <1>4, <1>5, <1>6, <1>9, <2>1, Zenon DEF Effect
<1> QED BY <1>1, <1>6, <1>7, <1>8, <1>9, Zenon

\* For any leases and groups and any number of calls, whichever of them failed, overlapped or
\* were cut short by a crash before: a Deploy that succeeds with no other under way has left
\* every object of its group as it built it, none of another service, and its manifest, until
\* the next call, unless the namespace has gone under it.
THEOREM DeployIsComplete ==
    Spec => []DeployComplete
<1>1. KubeInv => DeployComplete
  <2> SUFFICES ASSUME KubeInv, NEW l \in Leases, LastWord(l), ns = "active"
               PROVE  /\ \A o \in Wanted(settled[l].group) : BuiltFor(objects[o], l)
                      /\ \A o \in There : o[2] \in NamesOf(settled[l].group)
                      /\ BuiltFor(manifest, l)
    BY Zenon DEF DeployComplete
  <2>1. ns # "none"
    OBVIOUS
  <2> QED BY <2>1, SettledFacts, Zenon
<1> QED BY <1>1, KubeInvariant, PTL

\* Whatever crashes and failures come between the requests of Deploy: the manifest that
\* Deployments finds is at least as new as any object in the namespace that a Deploy without
\* another one under way has built.
THEOREM ManifestIsFirst ==
    Spec => []ManifestFirst
<1>1. KubeInv => ManifestFirst
  BY Zenon DEF KubeInv, Covered, ManifestFirst, Deployments
<1> QED BY <1>1, KubeInvariant, PTL

\* A check of a group whose Deploy succeeded, with nobody else at work since it began: the
\* two requests of LeaseStatus agree, no ingress lacks its deployment, and the verdict is
\* good exactly if the replicas are available and there is an ingress.
THEOREM CheckIsExact ==
    Spec => []CheckExact
<1>1. KubeInv => CheckExact
  <2> SUFFICES ASSUME KubeInv, NEW l \in Leases, verdict # None, quiet, LastWord(l),
                      settled[l].group = verdict.group
               PROVE  verdict.is = IF verdict.available /\ Ingresses # {} THEN "good" ELSE "bad"
    BY Zenon DEF CheckExact
  <2>1. PICK g \in Groups : g = settled[l].group /\ g = verdict.group
    BY SettledFacts, Zenon
  <2>2. verdict.is = VerdictNow(g, verdict.available)
    BY <2>1, Zenon DEF KubeInv
  <2>3. \A o \in There : o[2] \in NamesOf(g)
    BY <2>1, SettledFacts, Zenon
  <2>4. Ingresses \subseteq NamesOf(g)
    BY <2>3, Zenon DEF Ingresses
  <2>5. There = {} \/ NamesOf(g) \subseteq deploymentsForLease
    <3>0. ASSUME NEW o, BuiltFor(objects[o], l) PROVE objects[o] # None
      <4>1. [lease |-> l, group |-> g, by |-> settled[l].by] \in [lease : Leases, group : Groups, by : Nat]
        BY DEF KubeInv, Settled, LastWord
      <4> QED BY <2>1, <3>0, <4>1, KubeAssumption, Zenon DEF BuiltFor
    <3>1. ASSUME \A o \in Wanted(g) : BuiltFor(objects[o], l), NEW name \in NamesOf(g)
          PROVE  name \in deploymentsForLease
      <4>1. PICK o : o = <<"deployment", name>>
        BY Zenon
      <4>2. o \in Objects /\ o[1] = "deployment" /\ o[2] = name
        BY <4>1 DEF Objects, Kinds, Names
      <4>3. objects[o] # None
        BY <2>1, <3>0, <3>1, <4>1, AppliesFacts, Zenon
      <4> QED BY <4>2, <4>3, Zenon DEF deploymentsForLease, There
    <3> QED BY <2>1, <3>1, SettledFacts, Zenon
  <2>6. There = {} => Ingresses = {}
    BY Zenon DEF Ingresses
  <2>7. CASE Ingresses = {}
    BY <2>2, <2>7 DEF VerdictNow
  <2>8. CASE Ingresses # {}
    <3>1. NamesOf(g) \subseteq deploymentsForLease /\ Ingresses \subseteq deploymentsForLease
      BY <2>4, <2>5, <2>6, <2>8, Zenon
    <3>2. deploymentsForLease # {}
      BY <2>8, <3>1
    <3> QED BY <2>2, <2>8, <3>1, <3>2 DEF VerdictNow
  <2> QED BY <2>7, <2>8
<1> QED BY <1>1, KubeInvariant, PTL

=============================================================================
