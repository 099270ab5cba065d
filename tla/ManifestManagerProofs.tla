------------------------ MODULE ManifestManagerProofs -----------------------
(***************************************************************************)
(* The manager of a deployment's manifests answers every request once and  *)
(* pairs every lease with the manifest in use, for any number of leases,   *)
(* requests and updates.                                                   *)
(***************************************************************************)
EXTENDS ManifestManager, SequenceTheorems, TLAPS

\* A request that the manager still has to decide on.
Waiting(r) == phase = "loop" /\ \E i \in DOMAIN requests : requests[i] = r

\* Whoever waits has no answer, whoever was taken and does not wait has one.
Settled ==
    \A r \in Requests :
        /\ (r \notin taken \/ Waiting(r)) => answers[r] = << >>
        /\ (r \in taken /\ ~Waiting(r)) => Len(answers[r]) = 1

\* Requests have been taken, and manifests in use have been accepted.
Known ==
    /\ \A i \in DOMAIN requests : requests[i] \in taken
    /\ \A i \in DOMAIN manifests : answers[manifests[i]] = <<"ok">>

\* The inductive invariant.
ManagerInv == TypeOK /\ Settled /\ Known /\ Paired

-----------------------------------------------------------------------------
(* Sequences *)

\* What Append does to a sequence.
LEMMA AppendFacts ==
    ASSUME NEW S, NEW s \in Seq(S), NEW e \in S
    PROVE  /\ Append(s, e) \in Seq(S) /\ Append(s, e) # << >>
           /\ Len(Append(s, e)) = Len(s) + 1 /\ DOMAIN Append(s, e) = 1 .. Len(s) + 1
           /\ Append(s, e)[Len(s) + 1] = e
           /\ \A i \in 1 .. Len(s) : Append(s, e)[i] = s[i]
           /\ s = << >> => Append(s, e) = <<e>>
<1>1. /\ Append(s, e) \in Seq(S) /\ Len(Append(s, e)) = Len(s) + 1
      /\ Append(s, e)[Len(s) + 1] = e
      /\ \A i \in 1 .. Len(s) : Append(s, e)[i] = s[i]
  OBVIOUS
<1>2. DOMAIN Append(s, e) = 1 .. Len(s) + 1 /\ Append(s, e) # << >>
  BY <1>1
<1>3. ASSUME s = << >> PROVE Append(s, e) = <<e>>
  <2> DEFINE a == Append(s, e)
             t == <<e>>
  <2>1. t \in Seq(S) /\ Len(t) = 1 /\ t[1] = e
    OBVIOUS
  <2>2. a \in Seq(S) /\ Len(a) = 1 /\ a[1] = e
    BY <1>1, <1>3
  <2> HIDE DEF a, t
  <2>3. Len(a) = Len(t) /\ \A i \in 1 .. Len(a) : a[i] = t[i]
    BY <2>1, <2>2
  <2>4. a = t
    BY <2>1, <2>2, <2>3, SeqEqual, Zenon
  <2> QED BY <2>4 DEF a, t
<1> QED BY <1>1, <1>2, <1>3

\* A sequence of one element.
LEMMA SingletonFacts ==
    ASSUME NEW S, NEW e \in S
    PROVE  <<e>> \in Seq(S) /\ Len(<<e>>) = 1
OBVIOUS

\* A sequence without its element k.
Without(s, k) == SubSeq(s, 1, k - 1) \o SubSeq(s, k + 1, Len(s))

\* Nothing but elements of the sequence is left.
LEMMA WithoutFacts ==
    ASSUME NEW S, NEW s \in Seq(S), NEW k \in 1 .. Len(s)
    PROVE  /\ Without(s, k) \in Seq(S)
           /\ \A i \in DOMAIN Without(s, k) : \E j \in DOMAIN s : Without(s, k)[i] = s[j]
<1> DEFINE a == SubSeq(s, 1, k - 1)
           b == SubSeq(s, k + 1, Len(s))
<1>1. a \in Seq(S) /\ Len(a) = k - 1 /\ \A i \in 1 .. k - 1 : a[i] = s[i]
  OBVIOUS
<1>2. b \in Seq(S) /\ Len(b) = Len(s) - k /\ \A i \in 1 .. Len(s) - k : b[i] = s[k + i]
  OBVIOUS
<1>3. Without(s, k) = a \o b
  BY DEF Without
<1> HIDE DEF a, b
<1>4. /\ a \o b \in Seq(S) /\ DOMAIN (a \o b) = 1 .. Len(s) - 1
      /\ \A i \in 1 .. Len(s) - 1 : (a \o b)[i] = IF i <= k - 1 THEN a[i] ELSE b[i - (k - 1)]
  BY <1>1, <1>2
<1>5. \A i \in 1 .. Len(s) - 1 : \E j \in DOMAIN s : (a \o b)[i] = s[j]
  <2> TAKE i \in 1 .. Len(s) - 1
  <2>1. CASE i <= k - 1
    <3>1. i \in DOMAIN s /\ (a \o b)[i] = s[i]
      BY <1>1, <1>4, <2>1
    <3> QED BY <3>1
  <2>2. CASE i > k - 1
    <3>1. i + 1 \in DOMAIN s /\ i - (k - 1) \in 1 .. Len(s) - k
      BY <2>2
    <3>2. (a \o b)[i] = b[i - (k - 1)] /\ b[i - (k - 1)] = s[k + (i - (k - 1))]
      BY <1>2, <1>4, <2>2, <3>1
    <3>3. k + (i - (k - 1)) = i + 1
      OBVIOUS
    <3>4. (a \o b)[i] = s[i + 1]
      BY <3>2, <3>3, Zenon
    <3>5. i + 1 \in DOMAIN s
      BY <3>1
    <3> QED BY <3>4, <3>5
  <2>3. i <= k - 1 \/ i > k - 1
    OBVIOUS
  <2> QED BY <2>1, <2>2, <2>3, Zenon
<1> QED BY <1>3, <1>4, <1>5, Zenon

-----------------------------------------------------------------------------
(* What the two helpers of the loop do *)

Answers == {"ok", "invalid", "not running"}

\* The first answer is the only one.
LEMMA FirstAnswer ==
    ASSUME NEW q \in Seq(Answers), q = << >>, NEW x \in Answers
    PROVE  Append(q, x) \in Seq(Answers) /\ Len(Append(q, x)) = 1
<1>1. Append(q, x) \in Seq(Answers) /\ Len(Append(q, x)) = Len(q) + 1
  BY AppendFacts
<1>2. Len(q) = 0
  OBVIOUS
<1> QED BY <1>1, <1>2

\* What validateRequests makes of the requests, the manifests and the answers.
Decides(d, rs, rq2, ms, ms2, ans, ans2) ==
    IF d = None \/ rs = << >>
    THEN rq2 = rs /\ ms2 = ms /\ ans2 = ans
    ELSE /\ ans2 = [r \in Requests |-> IF r \in Range(rs)
                        THEN Append(ans[r], Answer(r))
                        ELSE ans[r]]
         /\ (ms2 = ms \/ \E i \in DOMAIN rs : validateRequest(rs[i]) /\ ms2 = Append(ms, rs[i]))
         /\ rq2 = << >>

\* What emitReceivedEvents makes of the pairs.
Pairs(d, ls, ms, rec) ==
    IF d = None \/ ls = << >> \/ ms = << >> THEN rec
    ELSE [l \in Leases |-> IF l \in Range(ls) THEN ms[Len(ms)] ELSE rec[l]]

\* Whoever has an answer keeps it, all of rs have one or none, and manifests are accepted ones.
Decided(rs, rq2, ms2, ans, ans2) ==
    /\ rq2 \in Seq(Requests) /\ ms2 \in Seq(Requests)
    /\ ans2 \in [Requests -> Seq(Answers)]
    /\ \A i \in DOMAIN ms2 : ans2[ms2[i]] = <<"ok">>
    /\ \A r \in Requests : ans[r] # << >> => ans2[r] = ans[r]
    /\ \/ rq2 = rs /\ ans2 = ans
       \/ /\ rq2 = << >>
          /\ \A r \in Requests :
                IF \E i \in DOMAIN rs : rs[i] = r THEN Len(ans2[r]) = 1
                                                 ELSE ans2[r] = ans[r]

\* validateRequests decides on all requests or on none, and takes into use nothing but what
\* it accepts.
LEMMA Validated ==
    ASSUME NEW d, NEW rs \in Seq(Requests), NEW rq2,
           NEW ms \in Seq(Requests), NEW ms2,
           NEW ans \in [Requests -> Seq(Answers)], NEW ans2,
           \A i \in DOMAIN rs : ans[rs[i]] = << >>,
           \A i \in DOMAIN ms : ans[ms[i]] = <<"ok">>,
           Decides(d, rs, rq2, ms, ms2, ans, ans2)
    PROVE  Decided(rs, rq2, ms2, ans, ans2)
<1> USE DEF Decided
<1>1. CASE d = None \/ rs = << >>
  BY <1>1, Zenon DEF Decides
<1>2. CASE ~(d = None \/ rs = << >>)
  <2>1. /\ ans2 = [r \in Requests |-> IF r \in Range(rs)
                          THEN Append(ans[r], Answer(r))
                          ELSE ans[r]]
        /\ (ms2 = ms \/ \E i \in DOMAIN rs : validateRequest(rs[i]) /\ ms2 = Append(ms, rs[i]))
        /\ rq2 = << >>
    BY <1>2, Zenon DEF Decides
  <2>2. \A r \in Requests : r \in Range(rs) <=> \E i \in DOMAIN rs : rs[i] = r
    BY Zenon DEF Range
  <2>3. \A r \in Requests : r \in Range(rs) => ans[r] = << >>
    BY <2>2, Zenon
  <2>4. \A r \in Requests : r \in Range(rs) =>
           ans2[r] = IF validateRequest(r) THEN <<"ok">> ELSE <<"invalid">>
    <3> TAKE r \in Requests
    <3> HAVE r \in Range(rs)
    <3>1. ans[r] = << >> /\ ans[r] \in Seq(Answers)
      BY <2>3
    <3>2. "ok" \in Answers /\ "invalid" \in Answers
      BY DEF Answers
    <3>3. Append(ans[r], "ok") = <<"ok">> /\ Append(ans[r], "invalid") = <<"invalid">>
      <4> DEFINE q == ans[r]
      <4>1. q \in Seq(Answers) /\ q = << >>
        BY <3>1
      <4> HIDE DEF q
      <4>2. ASSUME NEW x \in Answers PROVE Append(q, x) = <<x>>
        <5>1. Append(q, x) = <<x>>
          BY ONLY <4>1, <4>2, AppendFacts, SMTT(30)
        <5> QED BY <5>1
      <4> QED BY <3>2, <4>2, Zenon DEF q
    <3> QED BY <2>1, <3>3, Zenon DEF Answer
  <2>5. \A r \in Requests : r \notin Range(rs) => ans2[r] = ans[r]
    BY <2>1, Zenon
  <2>6. <<"ok">> \in Seq(Answers) /\ <<"invalid">> \in Seq(Answers)
        /\ Len(<<"ok">>) = 1 /\ Len(<<"invalid">>) = 1
    BY SingletonFacts, Zenon DEF Answers
  <2>7. ans2 \in [Requests -> Seq(Answers)]
    <3>1. \A r \in Requests : ans2[r] \in Seq(Answers)
      BY <2>4, <2>5, <2>6, Zenon
    <3> QED BY <2>1, <3>1, Zenon
  <2>8. \A r \in Requests : ans[r] # << >> => ans2[r] = ans[r]
    BY <2>3, <2>5, Zenon
  <2>9. /\ ms2 \in Seq(Requests)
        /\ \A i \in DOMAIN ms2 : ans2[ms2[i]] = <<"ok">>
    <3>1. \A i \in DOMAIN ms : ans2[ms[i]] = <<"ok">>
      <4>0. ms \in Seq(Requests)
        OBVIOUS
      <4>1. \A i \in DOMAIN ms : ms[i] \in Requests
        BY <4>0
      <4>2. <<"ok">> # << >>
        OBVIOUS
      <4> QED BY <2>8, <4>1, <4>2, Zenon
    <3>2. CASE ms2 = ms
      BY <3>1, <3>2, Zenon
    <3>3. CASE \E i \in DOMAIN rs : validateRequest(rs[i]) /\ ms2 = Append(ms, rs[i])
      <4>1. PICK i \in DOMAIN rs : validateRequest(rs[i]) /\ ms2 = Append(ms, rs[i])
        BY <3>3
      <4>2. rs[i] \in Requests /\ rs[i] \in Range(rs)
        BY DEF Range
      <4>3. ans2[rs[i]] = <<"ok">>
        BY <2>4, <4>1, <4>2, Zenon
      <4>4. ms \in Seq(Requests)
        OBVIOUS
      <4>5. /\ ms2 \in Seq(Requests) /\ DOMAIN ms2 = 1 .. Len(ms) + 1
            /\ ms2[Len(ms) + 1] = rs[i]
            /\ \A j \in 1 .. Len(ms) : ms2[j] = ms[j]
        <5> DEFINE e == rs[i]
        <5>1. e \in Requests /\ ms2 = Append(ms, e)
          BY <4>1, <4>2
        <5> HIDE DEF e
        <5>2. /\ ms2 \in Seq(Requests) /\ DOMAIN ms2 = 1 .. Len(ms) + 1
              /\ ms2[Len(ms) + 1] = e
              /\ \A j \in 1 .. Len(ms) : ms2[j] = ms[j]
          BY <4>4, <5>1, AppendFacts
        <5> QED BY <5>2 DEF e
      <4>6. \A j \in DOMAIN ms2 : j \in DOMAIN ms \/ j = Len(ms) + 1
        BY <4>4, <4>5
      <4>7. DOMAIN ms = 1 .. Len(ms)
        BY <4>4
      <4>8. ASSUME NEW j \in DOMAIN ms2 PROVE ans2[ms2[j]] = <<"ok">>
        <5>1. CASE j = Len(ms) + 1
          BY <4>3, <4>5, <5>1, Zenon
        <5>2. CASE j \in DOMAIN ms
          BY <3>1, <4>5, <4>7, <5>2, Zenon
        <5> QED BY <4>6, <5>1, <5>2, Zenon
      <4> QED BY <4>5, <4>8, Zenon
    <3> QED BY <2>1, <3>2, <3>3, Zenon
  <2>10. \A r \in Requests : IF \E i \in DOMAIN rs : rs[i] = r THEN Len(ans2[r]) = 1
                                                             ELSE ans2[r] = ans[r]
    BY <2>2, <2>4, <2>5, <2>6, Zenon
  <2>11. rq2 \in Seq(Requests)
    BY <2>1
  <2> QED BY <2>1, <2>7, <2>8, <2>9, <2>10, <2>11, Zenon
<1> QED BY <1>1, <1>2, Zenon

\* Pairs come from the manifests in use, and every lease has the last one if there is one.
Emits(d, ls, ms, rec, rec2) ==
    /\ rec2 \in [Leases -> Requests \cup {None}]
    /\ \A l \in Leases :
          rec2[l] = rec[l] \/ \E i \in DOMAIN ms : rec2[l] = ms[i]
    /\ d # None /\ ms # << >> =>
          \A i \in DOMAIN ls : rec2[ls[i]] = ms[Len(ms)]

\* emitReceivedEvents pairs leases with a manifest in use, all of them if there is one.
LEMMA Emitted ==
    ASSUME NEW d, NEW ls \in Seq(Leases), NEW ms \in Seq(Requests),
           NEW rec \in [Leases -> Requests \cup {None}], NEW rec2,
           rec2 = Pairs(d, ls, ms, rec)
    PROVE  Emits(d, ls, ms, rec, rec2)
<1> USE DEF Emits
<1>1. CASE d = None \/ ls = << >> \/ ms = << >>
  <2>1. rec2 = rec
    BY <1>1, Zenon DEF Pairs
  <2>2. ls = << >> => DOMAIN ls = {}
    OBVIOUS
  <2> QED BY <1>1, <2>1, <2>2, Zenon
<1>2. CASE ~(d = None \/ ls = << >> \/ ms = << >>)
  <2>1. rec2 = [l \in Leases |-> IF l \in Range(ls) THEN ms[Len(ms)] ELSE rec[l]]
    BY <1>2, Zenon DEF Pairs
  <2>2. Len(ms) \in DOMAIN ms /\ ms[Len(ms)] \in Requests
    BY <1>2
  <2>3. \A i \in DOMAIN ls : ls[i] \in Range(ls) /\ ls[i] \in Leases
    BY DEF Range
  <2>4. rec2 = [l \in Leases |-> IF l \in Range(ls) THEN ms[Len(ms)] ELSE rec[l]]
    BY <2>1
  <2>5. rec2 \in [Leases -> Requests \cup {None}]
    BY <2>2, <2>4
  <2>6. \A l \in Leases : rec2[l] = rec[l] \/ \E i \in DOMAIN ms : rec2[l] = ms[i]
    BY <2>2, <2>4, Zenon
  <2>7. \A i \in DOMAIN ls : rec2[ls[i]] = ms[Len(ms)]
    BY <2>3, <2>4, Zenon
  <2> QED BY <2>5, <2>6, <2>7, Zenon
<1> QED BY <1>1, <1>2, Zenon

-----------------------------------------------------------------------------
(* The steps *)

\* The invariant holds when the manager is made.
LEMMA ManagerInitially == Init => ManagerInv
<1> SUFFICES ASSUME Init PROVE ManagerInv
  OBVIOUS
<1>1. TypeOK
  <2>1. << >> \in Seq(Answers) /\ << >> \in Seq(Requests) /\ << >> \in Seq(Leases) /\ << >> \in Seq(Nat)
    OBVIOUS
  <2>2. answers \in [Requests -> Seq(Answers)] /\ received \in [Leases -> Requests \cup {None}]
    BY <2>1, Zenon DEF Init
  <2> QED BY <2>1, <2>2, Zenon DEF Init, TypeOK, Answers
<1>2. Settled /\ Known /\ Paired
  <2>1. DOMAIN << >> = {}
    OBVIOUS
  <2> QED BY <2>1, Zenon DEF Init, Settled, Waiting, Known, Paired, Range
<1> QED BY <1>1, <1>2 DEF ManagerInv

\* A lease that is handed over is paired at once.
LEMMA LeaseStep ==
    ASSUME ManagerInv, NEW l \in Leases, handleLease(l)
    PROVE  ManagerInv'
<1>1. /\ phase = "loop" /\ leases' = Append(leases, l)
      /\ emitReceivedEvents(data, leases', manifests) /\ maybeFetchData
      /\ UNCHANGED <<versions, phase, data, requests, manifests, taken, answers>>
  BY DEF handleLease
<1>2. TypeOK
  BY DEF ManagerInv
<1>3. leases' \in Seq(Leases)
  <2>1. leases \in Seq(Leases)
    BY <1>2 DEF TypeOK
  <2> QED BY <1>1, <2>1, AppendFacts
<1>4. fetch' = fetch \/ (fetch' = "running" /\ data = None)
  BY <1>1 DEF maybeFetchData
<1>5. /\ received' \in [Leases -> Requests \cup {None}]
      /\ \A m \in Leases :
            received'[m] = received[m] \/ \E i \in DOMAIN manifests : received'[m] = manifests[i]
      /\ data # None /\ manifests # << >> =>
            \A i \in DOMAIN leases' : received'[leases'[i]] = manifests[Len(manifests)]
  <2>1. received \in [Leases -> Requests \cup {None}] /\ manifests \in Seq(Requests)
    BY <1>2 DEF TypeOK
  <2>2. received' = Pairs(data, leases', manifests, received)
    BY <1>1 DEF emitReceivedEvents, Pairs
  <2>3. Emits(data, leases', manifests, received, received')
    BY <1>3, <2>1, <2>2, Emitted, Zenon
  <2> QED BY <2>3, Zenon DEF Emits
<1>6. TypeOK'
  BY <1>1, <1>2, <1>3, <1>4, <1>5 DEF TypeOK
<1>7. Settled' /\ Known'
  BY <1>1, Zenon DEF ManagerInv, Settled, Known, Waiting
<1>8. Paired'
  <2>1. \A m \in Range(leases') : \E i \in DOMAIN leases' : m = leases'[i]
    BY Zenon DEF Range
  <2>2. \A m \in Leases : received'[m] # None => answers[received'[m]] = <<"ok">>
    <3> SUFFICES ASSUME NEW m \in Leases, received'[m] # None
                 PROVE  answers[received'[m]] = <<"ok">>
      BY Zenon
    <3>1. CASE received'[m] = received[m]
      BY <3>1, Zenon DEF ManagerInv, Paired
    <3>2. CASE \E i \in DOMAIN manifests : received'[m] = manifests[i]
      BY <3>2, Zenon DEF ManagerInv, Known
    <3> QED BY <1>5, <3>1, <3>2, Zenon
  <2>3. data # None /\ manifests # << >> => \A m \in Range(leases') : received'[m] = manifests[Len(manifests)]
    BY <1>5, <2>1
  <2> QED BY <1>1, <2>2, <2>3 DEF Paired
<1> QED BY <1>6, <1>7, <1>8 DEF ManagerInv

\* The leases that stay keep their manifest.
LEMMA RemoveStep ==
    ASSUME ManagerInv, NEW l \in Leases, removeLease(l)
    PROVE  ManagerInv'
<1>1. /\ phase = "loop"
      /\ UNCHANGED <<versions, phase, data, fetch, requests, manifests, taken, answers, received>>
      /\ leases' = leases \/ \E i \in DOMAIN leases : leases' = Without(leases, i)
  BY Zenon DEF removeLease, Without
<1>2. leases \in Seq(Leases)
  BY DEF ManagerInv, TypeOK
<1>3. /\ leases' \in Seq(Leases)
      /\ \A i \in DOMAIN leases' : \E j \in DOMAIN leases : leases'[i] = leases[j]
  <2>1. CASE leases' = leases
    BY <1>2, <2>1, Zenon
  <2>2. ASSUME NEW i \in DOMAIN leases, leases' = Without(leases, i)
        PROVE  <1>3!1 /\ <1>3!2
    <3>1. i \in 1 .. Len(leases)
      BY <1>2
    <3> QED BY <1>2, <2>2, <3>1, WithoutFacts
  <2> QED BY <1>1, <2>1, <2>2, Zenon
<1>4. TypeOK'
  BY <1>1, <1>3 DEF ManagerInv, TypeOK
<1>5. Settled' /\ Known'
  BY <1>1, Zenon DEF ManagerInv, Settled, Known, Waiting
<1>6. Paired'
  <2>1. Range(leases') \subseteq Range(leases)
    BY <1>3, Zenon DEF Range
  <2> QED BY <1>1, <2>1, Zenon DEF ManagerInv, Paired
<1> QED BY <1>4, <1>5, <1>6 DEF ManagerInv

\* Deciding on the requests rs and emitting the pairs keeps what relates them.
LEMMA DecidedAndEmitted ==
    ASSUME ManagerInv, phase = "loop", phase' = phase, leases' = leases,
           NEW rs \in Seq(Requests), taken \subseteq taken', taken' \subseteq Requests,
           \A i \in DOMAIN rs : rs[i] \in taken' /\ answers[rs[i]] = << >>,
           \A r \in taken' : (r \in taken /\ ~Waiting(r)) \/ \E i \in DOMAIN rs : rs[i] = r,
           Decided(rs, requests', manifests', answers, answers'),
           Emits(data', leases, manifests', received, received')
    PROVE  Settled' /\ Known' /\ Paired'
<1>1. DOMAIN << >> = {}
  OBVIOUS
<1>2. \A r \in Requests : r \notin taken' => answers[r] = << >>
  BY Zenon DEF ManagerInv, Settled
<1>3. \A r \in Requests : r \in taken /\ ~Waiting(r) => Len(answers[r]) = 1
  BY Zenon DEF ManagerInv, Settled
<1>4. ASSUME requests' = rs /\ answers' = answers
      PROVE  Settled' /\ \A i \in DOMAIN requests' : requests'[i] \in taken'
  <2>1. \A r \in Requests : Waiting(r)' <=> \E i \in DOMAIN rs : rs[i] = r
    BY <1>4, Zenon DEF Waiting
  <2>2. Settled'
    <3> SUFFICES ASSUME NEW r \in Requests
                 PROVE  /\ (r \notin taken' \/ Waiting(r)') => answers[r] = << >>
                        /\ (r \in taken' /\ ~Waiting(r)') => Len(answers[r]) = 1
      BY <1>4, Zenon DEF Settled
    <3> QED BY <1>2, <1>3, <2>1, Zenon
  <2>3. \A i \in DOMAIN requests' : requests'[i] \in taken'
    BY <1>4, Zenon
  <2> QED BY <2>2, <2>3, Zenon
<1>5. ASSUME /\ requests' = << >>
             /\ \A r \in Requests : IF \E i \in DOMAIN rs : rs[i] = r THEN Len(answers'[r]) = 1
                                                                 ELSE answers'[r] = answers[r]
      PROVE  Settled' /\ \A i \in DOMAIN requests' : requests'[i] \in taken'
  <2>1. \A r \in Requests : ~Waiting(r)'
    BY <1>1, <1>5, Zenon DEF Waiting
  <2>2. Settled'
    <3> SUFFICES ASSUME NEW r \in Requests
                 PROVE  /\ r \notin taken' => answers'[r] = << >>
                        /\ r \in taken' => Len(answers'[r]) = 1
      BY <2>1, Zenon DEF Settled
    <3>1. CASE \E i \in DOMAIN rs : rs[i] = r
      BY <1>5, <3>1, Zenon
    <3>2. CASE ~\E i \in DOMAIN rs : rs[i] = r
      <4>1. answers'[r] = answers[r]
        BY <1>5, <3>2, Zenon
      <4> QED BY <1>2, <1>3, <3>2, <4>1, Zenon
    <3> QED BY <3>1, <3>2, Zenon
  <2>3. \A i \in DOMAIN requests' : requests'[i] \in taken'
    BY <1>1, <1>5, Zenon
  <2> QED BY <2>2, <2>3, Zenon
<1>6. Settled' /\ \A i \in DOMAIN requests' : requests'[i] \in taken'
  BY <1>4, <1>5, Zenon DEF Decided
<1>7. Known'
  BY <1>6, Zenon DEF Known, Decided
<1>8. \A l \in Leases : received'[l] # None => answers'[received'[l]] = <<"ok">>
  <2> SUFFICES ASSUME NEW l \in Leases, received'[l] # None
               PROVE  answers'[received'[l]] = <<"ok">>
    BY Zenon
  <2>1. CASE received'[l] = received[l]
    <3>1. answers[received[l]] = <<"ok">> /\ received[l] \in Requests
      BY <2>1, Zenon DEF ManagerInv, Paired, TypeOK
    <3>2. <<"ok">> # << >>
      OBVIOUS
    <3> QED BY <2>1, <3>1, <3>2, Zenon DEF Decided
  <2>2. CASE \E i \in DOMAIN manifests' : received'[l] = manifests'[i]
    BY <2>2, ZenonT(40) DEF Decided
  <2> QED BY <2>1, <2>2, Zenon DEF Emits
<1>9. data' # None /\ manifests' # << >> => \A l \in Range(leases') : received'[l] = manifests'[Len(manifests')]
  <2>1. \A l \in Range(leases) : \E i \in DOMAIN leases : l = leases[i]
    BY Zenon DEF Range
  <2> QED BY <2>1 DEF Emits
<1> QED BY <1>6, <1>7, <1>8, <1>9, Zenon DEF Paired

\* What validateRequests and emitReceivedEvents say, in the terms of the two lemmas.
LEMMA Helpers ==
    ASSUME NEW d, NEW ls, NEW ms
    PROVE  /\ \A rs \in Seq(Requests) :
                 validateRequests(d, rs) => Decides(d, rs, requests', manifests, manifests', answers, answers')
           /\ emitReceivedEvents(d, ls, ms) => received' = Pairs(d, ls, ms, received)
<1>1. ASSUME NEW rs \in Seq(Requests)
      PROVE  validateRequests(d, rs) => Decides(d, rs, requests', manifests, manifests', answers, answers')
  <2> SUFFICES ASSUME validateRequests(d, rs), d # None, rs # << >>
               PROVE  \E i \in DOMAIN rs : validateRequest(rs[i]) /\ manifests' = Append(manifests, rs[i])
    BY Zenon DEF validateRequests, Decides
  <2> DEFINE valid == {i \in DOMAIN rs : validateRequest(rs[i])}
             First(i) == i \in valid /\ \A j \in valid : i <= j
  <2>1. First(1)
    <3>1. valid = 1 .. Len(rs) /\ Len(rs) \in Nat /\ Len(rs) # 0
      BY DEF validateRequest, ValidateManifestWithDeployment
    <3> QED BY <3>1
  <2>2. First(CHOOSE i \in valid : \A j \in valid : i <= j)
    BY <2>1, Zenon
  <2>3. manifests' = Append(manifests, rs[CHOOSE i \in valid : \A j \in valid : i <= j])
    BY <2>1, Zenon DEF validateRequests, useFirstValid
  <2> QED BY <2>2, <2>3, Zenon
<1>2. emitReceivedEvents(d, ls, ms) => received' = Pairs(d, ls, ms, received)
  BY Zenon DEF emitReceivedEvents, Pairs
<1> QED BY <1>1, <1>2, Zenon

\* A request is decided on at once when the deployment is there, and waits for it otherwise.
LEMMA ManifestStep ==
    ASSUME ManagerInv, NEW r \in Requests, handleManifest(r)
    PROVE  ManagerInv'
<1> DEFINE rs == Append(requests, r)
<1>1. /\ phase = "loop" /\ r \notin taken /\ taken' = taken \cup {r}
      /\ validateRequests(data, rs) /\ emitReceivedEvents(data, leases, manifests')
      /\ maybeFetchData
      /\ UNCHANGED <<versions, phase, data, leases>>
  BY DEF handleManifest
<1>2. /\ requests \in Seq(Requests) /\ manifests \in Seq(Requests) /\ leases \in Seq(Leases)
      /\ answers \in [Requests -> Seq(Answers)] /\ taken \subseteq Requests
      /\ received \in [Leases -> Requests \cup {None}]
  BY DEF ManagerInv, TypeOK, Answers
<1>3. /\ rs \in Seq(Requests) /\ DOMAIN rs = 1 .. Len(requests) + 1
      /\ rs[Len(requests) + 1] = r /\ \A i \in 1 .. Len(requests) : rs[i] = requests[i]
  BY <1>2, AppendFacts
<1>4. DOMAIN requests = 1 .. Len(requests) /\ Len(requests) \in Nat
  BY <1>2
<1> HIDE DEF rs
<1>5. ASSUME NEW i \in DOMAIN rs PROVE rs[i] \in taken' /\ answers[rs[i]] = << >>
  <2>1. CASE i = Len(requests) + 1
    BY <1>1, <1>3, <2>1, Zenon DEF ManagerInv, Settled
  <2>2. CASE i \in 1 .. Len(requests)
    <3>1. rs[i] = requests[i] /\ requests[i] \in taken
      BY <1>3, <1>4, <2>2, Zenon DEF ManagerInv, Known
    <3>2. Waiting(requests[i])
      BY <1>1, <1>4, <2>2, Zenon DEF Waiting
    <3> QED BY <1>1, <1>2, <3>1, <3>2, Zenon DEF ManagerInv, Settled
  <2>3. i = Len(requests) + 1 \/ i \in 1 .. Len(requests)
    BY <1>3, <1>4
  <2> QED BY <2>1, <2>2, <2>3, Zenon
<1>6. ASSUME NEW q \in taken'
      PROVE  (q \in taken /\ ~Waiting(q)) \/ \E i \in DOMAIN rs : rs[i] = q
  <2>1. CASE q = r
    <3>1. Len(requests) + 1 \in DOMAIN rs
      BY <1>3, <1>4
    <3> QED BY <1>3, <2>1, <3>1, Zenon
  <2>2. CASE q \in taken /\ Waiting(q)
    <3>1. PICK i \in DOMAIN requests : requests[i] = q
      BY <2>2 DEF Waiting
    <3>2. i \in DOMAIN rs /\ rs[i] = q
      BY <1>3, <1>4, <3>1
    <3> QED BY <3>2, Zenon
  <2> QED BY <1>1, <2>1, <2>2, Zenon
<1>7. Decided(rs, requests', manifests', answers, answers')
  <2>1. Decides(data, rs, requests', manifests, manifests', answers, answers')
    BY <1>1, <1>3, Helpers, Zenon
  <2>2. \A i \in DOMAIN manifests : answers[manifests[i]] = <<"ok">>
    BY Zenon DEF ManagerInv, Known
  <2> QED BY <1>2, <1>3, <1>5, <2>1, <2>2, Validated, Zenon
<1>8. Emits(data, leases, manifests', received, received')
  <2>1. received' = Pairs(data, leases, manifests', received)
    BY <1>1, Helpers, Zenon
  <2>2. manifests' \in Seq(Requests)
    BY <1>7, Zenon DEF Decided
  <2> QED BY <1>2, <2>1, <2>2, Emitted, Zenon
<1>9. taken \subseteq taken' /\ taken' \subseteq Requests /\ data' = data /\ phase' = phase /\ leases' = leases
  BY <1>1, <1>2
<1>10. Settled' /\ Known' /\ Paired'
  BY <1>1, <1>3, <1>5, <1>6, <1>7, <1>8, <1>9, DecidedAndEmitted, Zenon
<1>11. fetch' = fetch \/ (fetch' = "running" /\ data = None)
  BY <1>1 DEF maybeFetchData
<1>12. TypeOK'
  <2>1. /\ requests' \in Seq(Requests) /\ manifests' \in Seq(Requests)
        /\ answers' \in [Requests -> Seq(Answers)]
        /\ received' \in [Leases -> Requests \cup {None}]
    BY <1>7, <1>8, Zenon DEF Decided, Emits
  <2> QED BY <1>1, <1>9, <1>11, <2>1 DEF ManagerInv, TypeOK, Answers
<1> QED BY <1>10, <1>12 DEF ManagerInv

\* A request for a manager that has left its loop is answered at once.
LEMMA LateStep ==
    ASSUME ManagerInv, NEW r \in Requests, handleManifestLate(r)
    PROVE  ManagerInv'
<1>1. /\ phase # "loop" /\ r \notin taken /\ taken' = taken \cup {r}
      /\ answers' = [answers EXCEPT ![r] = Append(@, "not running")]
      /\ UNCHANGED <<versions, phase, data, fetch, requests, leases, manifests, received>>
  BY DEF handleManifestLate
<1>2. answers \in [Requests -> Seq(Answers)] /\ taken \subseteq Requests
      /\ received \in [Leases -> Requests \cup {None}] /\ manifests \in Seq(Requests)
  BY DEF ManagerInv, TypeOK, Answers
<1>3. answers[r] = << >> /\ answers[r] \in Seq(Answers) /\ "not running" \in Answers
  BY <1>1, <1>2 DEF ManagerInv, Settled, Answers
<1>4. Append(answers[r], "not running") \in Seq(Answers)
      /\ Len(Append(answers[r], "not running")) = 1
  BY <1>3, FirstAnswer, Zenon
<1>5. /\ answers' \in [Requests -> Seq(Answers)]
      /\ Len(answers'[r]) = 1 /\ \A q \in Requests : q # r => answers'[q] = answers[q]
  BY <1>1, <1>2, <1>4, Zenon
<1>6. \A q \in Requests : answers[q] = <<"ok">> => answers'[q] = <<"ok">>
  <2>1. <<"ok">> # << >>
    OBVIOUS
  <2> QED BY <1>3, <1>5, <2>1, Zenon
<1>7. TypeOK'
  BY <1>1, <1>2, <1>5 DEF ManagerInv, TypeOK, Answers
<1>8. \A q \in Requests : ~Waiting(q) /\ ~Waiting(q)'
  BY <1>1 DEF Waiting
<1>9. Settled'
  <2> SUFFICES ASSUME NEW q \in Requests
               PROVE  /\ q \notin taken' => answers'[q] = << >>
                      /\ q \in taken' => Len(answers'[q]) = 1
    BY <1>8, Zenon DEF Settled
  <2> QED BY <1>1, <1>5, <1>8, Zenon DEF ManagerInv, Settled
<1>10. Known'
  <2>1. \A i \in DOMAIN manifests : manifests[i] \in Requests
    BY <1>2
  <2> QED BY <1>1, <1>6, <2>1, Zenon DEF ManagerInv, Known
<1>11. Paired'
  <2>1. \A l \in Leases : received[l] # None => received[l] \in Requests
    BY <1>2, Zenon
  <2> QED BY <1>1, <1>6, <2>1, Zenon DEF ManagerInv, Paired
<1> QED BY <1>7, <1>9, <1>10, <1>11 DEF ManagerInv

\* The deployment arrives: the requests that waited for it are decided on.
LEMMA FetchedStep ==
    ASSUME ManagerInv, Fetched
    PROVE  ManagerInv'
<1>1. /\ phase = "loop" /\ fetch = "running" /\ fetch' = "none" /\ data' = "fetched"
      /\ validateRequests("fetched", requests) /\ emitReceivedEvents("fetched", leases, manifests')
      /\ UNCHANGED <<versions, phase, leases, taken>>
  BY DEF Fetched
<1>2. /\ requests \in Seq(Requests) /\ manifests \in Seq(Requests) /\ leases \in Seq(Leases)
      /\ answers \in [Requests -> Seq(Answers)] /\ taken \subseteq Requests
      /\ received \in [Leases -> Requests \cup {None}] /\ versions \in Nat
  BY DEF ManagerInv, TypeOK, Answers
<1>3. \A i \in DOMAIN requests : requests[i] \in Requests
  BY <1>2
<1>4. \A i \in DOMAIN requests : requests[i] \in taken /\ answers[requests[i]] = << >>
  BY <1>1, <1>3, Zenon DEF ManagerInv, Known, Settled, Waiting
<1>5. \A q \in taken : (q \in taken /\ ~Waiting(q)) \/ \E i \in DOMAIN requests : requests[i] = q
  BY Zenon DEF Waiting
<1>6. Decided(requests, requests', manifests', answers, answers')
  <2>1. Decides("fetched", requests, requests', manifests, manifests', answers, answers')
    BY <1>1, <1>2, Helpers, Zenon
  <2>2. \A i \in DOMAIN manifests : answers[manifests[i]] = <<"ok">>
    BY Zenon DEF ManagerInv, Known
  <2> QED BY <1>2, <1>4, <2>1, <2>2, Validated, Zenon
<1>7. Emits("fetched", leases, manifests', received, received')
  <2>1. received' = Pairs("fetched", leases, manifests', received)
    BY <1>1, Helpers, Zenon
  <2>2. manifests' \in Seq(Requests)
    BY <1>6, Zenon DEF Decided
  <2> QED BY <1>2, <2>1, <2>2, Emitted, Zenon
<1>8. taken' = taken /\ data' = "fetched" /\ phase' = phase /\ leases' = leases
  BY <1>1
<1>9. Settled' /\ Known' /\ Paired'
  BY <1>1, <1>2, <1>4, <1>5, <1>6, <1>7, <1>8, DecidedAndEmitted, Zenon
<1>10. TypeOK'
  <2>1. /\ requests' \in Seq(Requests) /\ manifests' \in Seq(Requests)
        /\ answers' \in [Requests -> Seq(Answers)]
        /\ received' \in [Leases -> Requests \cup {None}]
    BY <1>6, <1>7, Zenon DEF Decided, Emits
  <2> QED BY <1>1, <1>2, <2>1 DEF ManagerInv, TypeOK, Answers
<1> QED BY <1>9, <1>10 DEF ManagerInv

\* Whoever waits when the manager leaves its loop is told so.
LEMMA ShutdownStep ==
    ASSUME ManagerInv, Shutdown
    PROVE  ManagerInv'
<1>1. /\ phase = "loop" /\ phase' = "waiting"
      /\ answers' = [r \in Requests |-> IF r \in Range(requests)
                         THEN Append(answers[r], "not running") ELSE answers[r]]
      /\ UNCHANGED <<versions, data, fetch, requests, leases, manifests, taken, received>>
  BY DEF Shutdown
<1>2. answers \in [Requests -> Seq(Answers)] /\ taken \subseteq Requests
      /\ received \in [Leases -> Requests \cup {None}] /\ manifests \in Seq(Requests)
  BY DEF ManagerInv, TypeOK, Answers
<1>3. \A r \in Requests : r \in Range(requests) <=> Waiting(r)
  BY <1>1, Zenon DEF Range, Waiting
<1>4. ASSUME NEW r \in Requests, Waiting(r)
      PROVE  answers'[r] \in Seq(Answers) /\ Len(answers'[r]) = 1 /\ answers[r] = << >>
  <2> DEFINE q == answers[r]
  <2>1. q \in Seq(Answers) /\ q = << >> /\ "not running" \in Answers
    BY <1>2, <1>4 DEF ManagerInv, Settled, Answers
  <2>2. answers'[r] = Append(q, "not running")
    BY <1>1, <1>3, <1>4, Zenon
  <2> HIDE DEF q
  <2>3. Append(q, "not running") \in Seq(Answers) /\ Len(Append(q, "not running")) = 1
    BY <2>1, FirstAnswer, Zenon
  <2> QED BY <2>1, <2>2, <2>3, Zenon DEF q
<1>5. \A r \in Requests : ~Waiting(r) => answers'[r] = answers[r]
  BY <1>1, <1>3, Zenon
<1>6. answers' \in [Requests -> Seq(Answers)]
  <2>1. \A r \in Requests : answers'[r] \in Seq(Answers)
    BY <1>2, <1>4, <1>5, Zenon
  <2> QED BY <1>1, <2>1, Zenon
<1>7. \A q \in Requests : answers[q] = <<"ok">> => answers'[q] = <<"ok">>
  <2>1. <<"ok">> # << >>
    OBVIOUS
  <2> QED BY <1>4, <1>5, <2>1, Zenon
<1>8. TypeOK'
  BY <1>1, <1>2, <1>6 DEF ManagerInv, TypeOK, Answers
<1>9. Settled'
  <2>1. \A r \in Requests : ~Waiting(r)'
    BY <1>1 DEF Waiting
  <2>2. \A r \in Requests : Waiting(r) => r \in taken
    BY Zenon DEF ManagerInv, Known, Waiting
  <2> SUFFICES ASSUME NEW r \in Requests
               PROVE  /\ r \notin taken => answers'[r] = << >>
                      /\ r \in taken => Len(answers'[r]) = 1
    BY <1>1, <2>1, Zenon DEF Settled
  <2>3. CASE Waiting(r)
    BY <1>4, <2>2, <2>3, Zenon
  <2>4. CASE ~Waiting(r)
    <3>1. answers'[r] = answers[r]
      BY <1>5, <2>4, Zenon
    <3>2. (r \notin taken => answers[r] = << >>) /\ (r \in taken => Len(answers[r]) = 1)
      BY <2>4, Zenon DEF ManagerInv, Settled
    <3> QED BY <3>1, <3>2, Zenon
  <2> QED BY <2>3, <2>4, Zenon
<1>10. Known'
  <2>1. \A i \in DOMAIN manifests : manifests[i] \in Requests
    BY <1>2
  <2> QED BY <1>1, <1>7, <2>1, Zenon DEF ManagerInv, Known
<1>11. Paired'
  <2>1. \A l \in Leases : received[l] # None => received[l] \in Requests
    BY <1>2, Zenon
  <2>2. phase' # "loop"
    BY <1>1
  <2> QED BY <1>1, <1>7, <2>1, <2>2, Zenon DEF ManagerInv, Paired
<1> QED BY <1>8, <1>9, <1>10, <1>11 DEF ManagerInv

\* The steps that touch neither requests nor leases nor manifests.
LEMMA OtherSteps ==
    ASSUME ManagerInv, handleUpdate \/ FetchFailed \/ Done \/ UNCHANGED vars
    PROVE  ManagerInv'
<1>1. /\ UNCHANGED <<data, requests, leases, manifests, taken, answers, received>>
      /\ phase' = phase \/ (phase = "waiting" /\ phase' = "done")
      /\ fetch' = fetch \/ fetch' = "none"
      /\ versions' = versions \/ versions' = versions + 1
  BY DEF handleUpdate, FetchFailed, Done, vars
<1>2. Settled' /\ Known'
  <2>1. \A r \in Requests : Waiting(r)' <=> Waiting(r)
    BY <1>1 DEF Waiting
  <2> QED BY <1>1, <2>1, Zenon DEF ManagerInv, Settled, Known
<1>3. Paired'
  <2>1. phase' = "loop" => phase = "loop"
    BY <1>1
  <2> QED BY <1>1, <2>1, Zenon DEF ManagerInv, Paired
<1>4. TypeOK'
  <2>1. versions' \in Nat
    <3>1. versions \in Nat
      BY Zenon DEF ManagerInv, TypeOK
    <3>2. versions' = versions \/ versions' = versions + 1
      BY <1>1, Zenon
    <3> QED BY ONLY <3>1, <3>2
  <2>2. /\ phase' \in {"loop", "waiting", "done"} /\ fetch' \in {"none", "running"}
        /\ fetch' # "none" => data = None \/ phase' # "loop"
    <3>1. /\ phase \in {"loop", "waiting", "done"} /\ fetch \in {"none", "running"}
          /\ fetch # "none" => data = None \/ phase # "loop"
      BY DEF ManagerInv, TypeOK
    <3>2. phase' = "loop" => phase = "loop"
      BY <1>1
    <3> QED BY <1>1, <3>1, <3>2
  <2> QED BY <1>1, <2>1, <2>2, Zenon DEF ManagerInv, TypeOK
<1> QED BY <1>2, <1>3, <1>4 DEF ManagerInv

-----------------------------------------------------------------------------
(* The theorems *)

\* What the manager's goroutine, its caller and the query do keeps the invariant.
LEMMA ManagerSteps == ManagerInv /\ [Next]_vars => ManagerInv'
<1> SUFFICES ASSUME ManagerInv, [Next]_vars PROVE ManagerInv'
  OBVIOUS
<1>1. ASSUME NEW l \in Leases, handleLease(l) \/ removeLease(l) PROVE ManagerInv'
  BY <1>1, LeaseStep, RemoveStep, Zenon
<1>2. ASSUME NEW r \in Requests, handleManifest(r) \/ handleManifestLate(r) PROVE ManagerInv'
  BY <1>2, ManifestStep, LateStep, Zenon
<1>3. CASE Fetched
  BY <1>3, FetchedStep, Zenon
<1>4. CASE Shutdown
  BY <1>4, ShutdownStep, Zenon
<1>5. CASE handleUpdate \/ FetchFailed \/ Done \/ UNCHANGED vars
  BY <1>5, OtherSteps, Zenon
<1> QED BY <1>1, <1>2, <1>3, <1>4, <1>5, Zenon DEF Next

\* The invariant of the manager holds in every reachable state.
LEMMA ManagerInvariant == Spec => []ManagerInv
BY ManagerInitially, ManagerSteps, PTL DEF Spec

\* No request is answered twice, so the manager never blocks on the channel of a request,
\* and whoever it has taken is answered when it ends (validateRequests, run, handleManifest).
THEOREM RequestsAnsweredOnce == Spec => []AnsweredOnce
<1>1. ManagerInv => AnsweredOnce
  <2> SUFFICES ASSUME ManagerInv PROVE AnsweredOnce
    OBVIOUS
  <2>1. Len(<< >>) = 0
    OBVIOUS
  <2>2. ASSUME NEW r \in Requests PROVE Len(answers[r]) <= 1
    <3>1. answers[r] = << >> \/ Len(answers[r]) = 1
      BY Zenon DEF ManagerInv, Settled
    <3>2. Len(answers[r]) = 0 \/ Len(answers[r]) = 1
      BY <2>1, <3>1, Zenon
    <3> DEFINE n == Len(answers[r])
    <3>3. n = 0 \/ n = 1
      BY <3>2
    <3> HIDE DEF n
    <3>4. n <= 1
      BY <3>3
    <3> QED BY <3>4 DEF n
  <2>3. ASSUME phase = "done", NEW r \in taken PROVE answers[r] # << >>
    <3>1. r \in Requests /\ ~Waiting(r)
      BY <2>3 DEF ManagerInv, TypeOK, Waiting
    <3>2. Len(answers[r]) = 1
      BY <3>1, Zenon DEF ManagerInv, Settled
    <3> QED BY <2>1, <3>2
  <2> QED BY <2>2, <2>3, Zenon DEF AnsweredOnce
<1> QED BY <1>1, ManagerInvariant, PTL

\* Whatever the order in which leases, manifests and the deployment arrive, every lease is
\* paired with the manifest in use, which was accepted (emitReceivedEvents).
THEOREM LeasesPaired == Spec => []Paired
BY ManagerInvariant, PTL DEF ManagerInv

=============================================================================
