-------------------------- MODULE AlertGroupProofs --------------------------
(***************************************************************************)
(* For any group of alerts, any labels and any number of requests: whose   *)
(* incident an alert opens, whose row a workflow_id names, what a 200 has  *)
(* to be true of, and that nobody waits for a lock with another in hand.   *)
(***************************************************************************)
EXTENDS AlertGroup, TLAPS, SequenceTheorems, WellFoundedInduction

LEMMA Least == ASSUME NEW S \in SUBSET Nat, S # {} PROVE \E m \in S : \A k \in S : m <= k
<1> DEFINE R == OpToRel(<, Nat)
<1>1. \A x, y \in Nat : <<y, x>> \in R <=> y < x
  BY DEF OpToRel
<1>2. IsWellFoundedOn(R, Nat)
  BY NatLessThanWellFounded
<1> HIDE DEF R
<1>3. \E x \in S : \A y \in S : ~(<<y, x>> \in R)
  BY <1>2, WFMin
<1>4. PICK x \in S : \A y \in S : ~(<<y, x>> \in R)
  BY <1>3
<1>5. \A y \in S : ~(y < x)
  BY <1>1, <1>4
<1>6. QED BY <1>5

-----------------------------------------------------------------------------
(* Names.                                                                     *)

\* What is left of an alert name has no rejected symbol.
LEMMA SafeIs == ASSUME NEW value \in Seq(Symbols) PROVE Safe(value) \in Seq(Symbols \ Rejected)
<1> DEFINE N == Len(value)
           Step(f, i) == IF value[i] \in Rejected THEN f[i - 1] ELSE Append(f[i - 1], value[i])
           Fits(f, n) == /\ f \in [0..n -> Seq(Symbols \ Rejected)] /\ f[0] = <<>>
                         /\ \A i \in 1..n : f[i] = Step(f, i)
<1>1. N \in Nat /\ \A i \in 1..N : value[i] \in Symbols
  OBVIOUS
<1>2. ASSUME NEW q \in Seq(Symbols \ Rejected), NEW i \in 1..N
      PROVE  (IF value[i] \in Rejected THEN q ELSE Append(q, value[i])) \in Seq(Symbols \ Rejected)
  <2>1. CASE value[i] \in Rejected
    BY <2>1
  <2>2. CASE value[i] \notin Rejected
    <3>1. value[i] \in Symbols \ Rejected
      BY <2>2, <1>1
    <3>2. QED BY <2>2, <3>1
  <2>3. QED BY <2>1, <2>2
<1> DEFINE Bad == {n \in 0..N : ~\E f : Fits(f, n)}
<1>3. Bad = {}
  <2> SUFFICES ASSUME Bad # {} PROVE FALSE
    OBVIOUS
  <2>1. PICK m \in Bad : \A k \in Bad : m <= k
    <3>1. Bad \in SUBSET Nat
      BY <1>1
    <3> HIDE DEF Bad
    <3>2. QED BY <3>1, Least
  <2>2. CASE m = 0
    <3>1. Fits([i \in 0..0 |-> <<>>], 0)
      OBVIOUS
    <3>2. QED BY <2>1, <2>2, <3>1
  <2>3. CASE m # 0
    <3>1. m \in 1..N
      BY <1>1, <2>1, <2>3
    <3>1a. m - 1 \in 0..N /\ m - 1 < m
      BY <1>1, <3>1
    <3>1b. m - 1 \notin Bad
      <4> HIDE DEF Bad
      <4>1. QED BY <1>1, <2>1, <3>1, <3>1a
    <3>2. PICK f : Fits(f, m - 1)
      BY <3>1a, <3>1b
    <3> DEFINE g == [i \in 0..m |-> IF i = m THEN Step(f, m) ELSE f[i]]
    <3>3. f[m - 1] \in Seq(Symbols \ Rejected)
      BY <3>1, <3>2
    <3>4. Step(f, m) \in Seq(Symbols \ Rejected)
      BY <3>1, <3>3, <1>2
    <3>5. g \in [0..m -> Seq(Symbols \ Rejected)]
      BY <3>1, <3>2, <3>4
    <3>6. g[0] = <<>>
      BY <3>1, <3>2
    <3>7. ASSUME NEW i \in 1..m PROVE g[i] = Step(g, i)
      <4>1. i - 1 \in 0..m /\ i \in 0..m /\ i - 1 # m
        BY <3>1
      <4>2. g[i - 1] = f[i - 1]
        BY <4>1
      <4>3. CASE i = m
        BY <4>1, <4>2, <4>3
      <4>4. CASE i # m
        <5>1. i \in 1..(m - 1)
          BY <3>1, <4>4
        <5>2. f[i] = Step(f, i)
          BY <3>2, <5>1
        <5>3. QED BY <4>1, <4>2, <4>4, <5>2
      <4>5. QED BY <4>3, <4>4
    <3>8. Fits(g, m)
      BY <3>5, <3>6, <3>7
    <3>9. QED BY <2>1, <3>8
  <2>4. QED BY <2>2, <2>3
<1>4. PICK f : Fits(f, N)
  <2>1. N \in 0..N /\ N \notin Bad
    <3>1. N \in 0..N
      BY <1>1
    <3> HIDE DEF Bad
    <3>2. QED BY <1>3, <3>1
  <2>2. QED BY <2>1
<1> DEFINE h == CHOOSE x : x = [i \in 0..N |-> IF i = 0 THEN <<>> ELSE Step(x, i)]
<1>5. f = [i \in 0..N |-> IF i = 0 THEN <<>> ELSE Step(f, i)]
  <2>1. \A i \in 0..N : i = 0 \/ i \in 1..N
    BY <1>1
  <2>2. \A i \in 0..N : f[i] = IF i = 0 THEN <<>> ELSE Step(f, i)
    BY <1>4, <2>1
  <2>3. f = [i \in 0..N |-> f[i]]
    BY <1>4
  <2>4. QED BY <2>2, <2>3
<1>6. h = [i \in 0..N |-> IF i = 0 THEN <<>> ELSE Step(h, i)]
  BY <1>5
<1>7. Safe(value) = h[N]
  BY DEF Safe
<1> HIDE DEF h
<1> DEFINE Worse == {n \in 0..N : h[n] \notin Seq(Symbols \ Rejected)}
<1>8. Worse = {}
  <2> SUFFICES ASSUME Worse # {} PROVE FALSE
    OBVIOUS
  <2>1. PICK m \in Worse : \A k \in Worse : m <= k
    <3>1. Worse \in SUBSET Nat
      BY <1>1
    <3> HIDE DEF Worse
    <3>2. QED BY <3>1, Least
  <2>2. m # 0
    BY <1>6, <2>1
  <2>3. m \in 1..N /\ m - 1 \in 0..N /\ m - 1 \notin Worse
    BY <1>1, <2>1, <2>2
  <2>4. h[m - 1] \in Seq(Symbols \ Rejected) /\ h[m] = Step(h, m)
    <3>1. m \in 0..N /\ m # 0
      BY <1>1, <2>3
    <3>2. QED BY <1>6, <2>3, <3>1, Zenon
  <2>5. h[m] \in Seq(Symbols \ Rejected)
    BY <1>2, <2>3, <2>4
  <2>6. QED BY <2>1, <2>5
<1>9. QED BY <1>1, <1>7, <1>8

LEMMA SanitizedIs ==
    ASSUME NEW value \in Seq(Symbols) PROVE SanitizeLabelValue(value) \in Seq(Symbols \ Rejected)
<1>1. <<"unknown">> \in Seq(Symbols \ Rejected)
  <2>1. "unknown" \in Symbols \ Rejected
    BY IdentityAssumption
  <2>2. QED BY <2>1
<1>2. Safe(value) \in Seq(Symbols \ Rejected)
  BY SafeIs
<1>3. QED BY <1>1, <1>2 DEF SanitizeLabelValue

LEMMA FrontIs ==
    ASSUME NEW S, NEW s \in Seq(S), NEW k \in 0..Len(s)
    PROVE  SubSeq(s, 1, k) \in Seq(S) /\ Len(SubSeq(s, 1, k)) = k
           /\ \A i \in 1..k : SubSeq(s, 1, k)[i] = s[i]
  OBVIOUS

LEMMA ConcatIs ==
    ASSUME NEW S, NEW s \in Seq(S), NEW t \in Seq(S)
    PROVE  /\ s \o t \in Seq(S) /\ Len(s \o t) = Len(s) + Len(t)
           /\ \A i \in 1..Len(s) : (s \o t)[i] = s[i]
           /\ \A i \in 1..Len(t) : (s \o t)[Len(s) + i] = t[i]
  OBVIOUS

LEMMA WithTwo ==
    ASSUME NEW S, NEW s \in Seq(S), NEW t \in Seq(S)
    PROVE  Len(t) = 2 => /\ Len(s \o t) = Len(s) + 2
                         /\ (s \o t)[Len(s) + 1] = t[1] /\ (s \o t)[Len(s) + 2] = t[2]
<1>1. Len(s \o t) = Len(s) + Len(t)
  BY ConcatIs
<1>2. \A i \in 1..Len(t) : (s \o t)[Len(s) + i] = t[i]
  BY ConcatIs
<1>3. QED BY <1>1, <1>2

\* The front of a concatenation.
LEMMA FrontOf ==
    ASSUME NEW S, NEW s \in Seq(S), NEW t \in Seq(S)
    PROVE  SubSeq(s \o t, 1, Len(s)) = s
<1> DEFINE u == s \o t
           v == SubSeq(u, 1, Len(s))
<1>1. u \in Seq(S) /\ Len(u) = Len(s) + Len(t) /\ \A i \in 1..Len(s) : u[i] = s[i]
  OBVIOUS
<1>2. Len(s) \in 0..Len(u)
  BY <1>1
<1> HIDE DEF u
<1>3. v \in Seq(S) /\ Len(v) = Len(s) /\ \A i \in 1..Len(s) : v[i] = u[i]
  BY <1>1, <1>2, FrontIs
<1> HIDE DEF v
<1>4. v = s
  BY <1>1, <1>3, SeqEqual
<1>5. QED BY <1>4 DEF u, v

\* The pods of a Deployment are normalised to its name.
LEMMA DeploymentOwner ==
    ASSUME NEW owner \in Seq(Symbols), owner # <<>>, NEW name \in Seq(Symbols),
           DeploymentPod(owner, name)
    PROVE  normalizePodName(name) = owner
<1>1. Len(owner) \in Nat /\ Len(owner) >= 1
  OBVIOUS
<1>2. PICK template \in SetHashes, hash \in PodHashes \ Ordinals : name = owner \o <<template, hash>>
  BY DEF DeploymentPod
<1> DEFINE A == Symbols \cup {template, hash}
           t == <<template, hash>>
<1>3. owner \in Seq(A) /\ t \in Seq(A) /\ Len(t) = 2 /\ t[1] = template /\ t[2] = hash
  OBVIOUS
<1> HIDE DEF A, t
<1>4. name = owner \o t
  BY <1>2 DEF t
<1>5. Len(name) = Len(owner) + 2 /\ name[Len(owner) + 1] = template /\ name[Len(owner) + 2] = hash
  BY <1>3, <1>4, WithTwo
<1>6. SubSeq(name, 1, Len(owner)) = owner
  BY <1>3, <1>4, FrontOf
<1>7. Without(name, 2) = owner
  BY <1>1, <1>5, <1>6 DEF Without
<1>8. Len(name) >= 3 /\ name[Len(name)] = hash /\ name[Len(name) - 1] = template
  BY <1>1, <1>5
<1>9. QED BY <1>2, <1>7, <1>8 DEF normalizePodName

\* The pods of a DaemonSet are normalised to its name or, where that ends as a
\* ReplicaSet's would, to what stands before: to the same in any case.
DaemonSetName(owner) ==
    IF Len(owner) >= 2 /\ owner[Len(owner)] \in SetHashes THEN Without(owner, 1) ELSE owner

LEMMA DaemonSetOwner ==
    ASSUME NEW owner \in Seq(Symbols), owner # <<>>, NEW name \in Seq(Symbols),
           DaemonSetPod(owner, name)
    PROVE  normalizePodName(name) = DaemonSetName(owner)
<1>1. Len(owner) \in Nat /\ Len(owner) >= 1
  OBVIOUS
<1>2. PICK hash \in PodHashes \ Ordinals : name = owner \o <<hash>>
  BY DEF DaemonSetPod
<1> DEFINE A == Symbols \cup {hash}
           t == <<hash>>
<1>3. owner \in Seq(A) /\ t \in Seq(A) /\ Len(t) = 1 /\ t[1] = hash
  OBVIOUS
<1> HIDE DEF A, t
<1>4. name = owner \o t
  BY <1>2 DEF t
<1>5. /\ Len(name) = Len(owner) + 1 /\ name[Len(owner) + 1] = hash
      /\ \A i \in 1..Len(owner) : name[i] = owner[i]
  BY <1>1, <1>3, <1>4, ConcatIs
<1>6. Len(name) >= 2 /\ name[Len(name)] = hash /\ Len(name) - 1 = Len(owner)
      /\ name[Len(owner)] = owner[Len(owner)]
  BY <1>1, <1>5
<1>7. CASE Len(owner) >= 2 /\ owner[Len(owner)] \in SetHashes
  <2> DEFINE k == Len(owner) - 1
  <2>1. k \in 0..Len(owner) /\ k \in 0..Len(name) /\ Len(name) - 2 = k
    BY <1>1, <1>5
  <2>2. /\ SubSeq(name, 1, k) \in Seq(Symbols) /\ Len(SubSeq(name, 1, k)) = k
        /\ \A i \in 1..k : SubSeq(name, 1, k)[i] = name[i]
    BY <2>1, FrontIs
  <2>3. /\ SubSeq(owner, 1, k) \in Seq(Symbols) /\ Len(SubSeq(owner, 1, k)) = k
        /\ \A i \in 1..k : SubSeq(owner, 1, k)[i] = owner[i]
    BY <2>1, FrontIs
  <2>4. \A i \in 1..k : i \in 1..Len(owner)
    BY <1>1
  <2> HIDE DEF k
  <2>5. SubSeq(name, 1, k) = SubSeq(owner, 1, k)
    BY <1>5, <2>2, <2>3, <2>4, SeqEqual
  <2>6. Without(name, 2) = Without(owner, 1)
    BY <2>1, <2>5 DEF Without, k
  <2>7. Len(name) >= 3
    BY <1>5, <1>7
  <2>8. QED BY <1>2, <1>6, <1>7, <2>6, <2>7 DEF normalizePodName, DaemonSetName
<1>8. CASE ~(Len(owner) >= 2 /\ owner[Len(owner)] \in SetHashes)
  <2>1. ~(Len(name) >= 3 /\ name[Len(name) - 1] \in SetHashes)
    BY <1>1, <1>5, <1>6, <1>8
  <2>2. SubSeq(name, 1, Len(owner)) = owner
    BY <1>3, <1>4, FrontOf
  <2>3. Without(name, 1) = owner
    BY <1>6, <2>2 DEF Without
  <2>4. QED BY <1>2, <1>6, <1>8, <2>1, <2>3 DEF normalizePodName, DaemonSetName
<1>9. QED BY <1>7, <1>8

\* The Jobs of a CronJob are normalised to its name.
LEMMA JobOwner ==
    ASSUME NEW owner \in Seq(Symbols), owner # <<>>, NEW name \in Seq(Symbols), JobOf(owner, name)
    PROVE  normalizeCronJobName(name) = owner
<1>0. Len(owner) \in Nat /\ Len(owner) >= 1
  OBVIOUS
<1>1. PICK stamp \in Stamps : name = owner \o <<stamp>>
  BY DEF JobOf
<1> DEFINE A == Symbols \cup {stamp}
           t == <<stamp>>
<1>2. owner \in Seq(A) /\ t \in Seq(A) /\ Len(t) = 1 /\ t[1] = stamp
  OBVIOUS
<1> HIDE DEF A, t
<1>3. name = owner \o t
  BY <1>1 DEF t
<1>4. Len(name) = Len(owner) + 1 /\ name[Len(owner) + 1] = stamp
  BY <1>0, <1>2, <1>3, ConcatIs
<1>5. SubSeq(name, 1, Len(owner)) = owner
  BY <1>2, <1>3, FrontOf
<1>6. Without(name, 1) = owner
  BY <1>0, <1>4, <1>5 DEF Without
<1>7. Len(name) >= 2 /\ name[Len(name)] \in Stamps
  BY <1>0, <1>1, <1>4
<1>8. QED BY <1>6, <1>7 DEF normalizeCronJobName

-----------------------------------------------------------------------------
(* Identities.                                                                *)

\* The first label of Subjects among those that are there.
Subject(there) ==
    CHOOSE j \in DOMAIN Subjects : Subjects[j].label \in there
                                   /\ \A k \in 1..j-1 : ~(Subjects[k].label \in there)

HasSubject(there) == \E i \in DOMAIN Subjects : Subjects[i].label \in there

LEMMA SubjectIs ==
    ASSUME NEW there, HasSubject(there)
    PROVE  Subject(there) \in DOMAIN Subjects /\ Subjects[Subject(there)].label \in there
<1> DEFINE S == {i \in DOMAIN Subjects : Subjects[i].label \in there}
<1>1. DOMAIN Subjects = 1..8
  BY DEF Subjects
<1>2. S \in SUBSET Nat /\ S # {}
  BY <1>1 DEF HasSubject
<1>3. PICK j \in S : \A k \in S : j <= k
  <2> HIDE DEF S
  <2>1. QED BY <1>2, Least
<1>4. j \in DOMAIN Subjects /\ Subjects[j].label \in there
  OBVIOUS
<1>5. ASSUME NEW k \in 1..j-1 PROVE ~(Subjects[k].label \in there)
  <2>1. k \in DOMAIN Subjects /\ k < j
    BY <1>1, <1>4
  <2>2. k \notin S
    BY <1>1, <1>3, <1>4, <2>1
  <2>3. QED BY <2>1, <2>2
<1>6. QED BY <1>4, <1>5, Zenon DEF Subject

LabelKinds == {"Deployment", "StatefulSet", "DaemonSet", "CronJob", "Job", "App", "Pod"}

LEMMA SubjectsAre ==
    ASSUME NEW i \in DOMAIN Subjects
    PROVE  Subjects[i].kind \in LabelKinds /\ Subjects[i].label \notin {"namespace", "alertname"}
BY DEF Subjects, LabelKinds

\* The parts of an identity.
NamespaceOf(labels) == IF "namespace" \in DOMAIN labels THEN labels["namespace"] ELSE "cluster"
AlertNameOf(labels) ==
    SanitizeLabelValue(IF "alertname" \in DOMAIN labels THEN labels["alertname"] ELSE <<>>)

LEMMA IdentityIs ==
    ASSUME NEW labels
    PROVE  DeriveIdentity(labels) =
             IF HasSubject(DOMAIN labels)
             THEN LET i == Subject(DOMAIN labels)
                  IN  [namespace |-> NamespaceOf(labels), kind |-> Subjects[i].kind,
                       name |-> SubjectName(Subjects[i].label, labels[Subjects[i].label]),
                       alertName |-> AlertNameOf(labels)]
             ELSE [namespace |-> NamespaceOf(labels), kind |-> "Namespace",
                   name |-> <<NamespaceOf(labels)>>, alertName |-> AlertNameOf(labels)]
BY DEF DeriveIdentity, HasSubject, Subject, NamespaceOf, AlertNameOf

\* Alerts of one workload have one identity.
LEMMA SameIdentity ==
    ASSUME NEW l, NEW m, IsLabels(l), IsLabels(m), SameWorkload(l, m)
    PROVE  DeriveIdentity(l) = DeriveIdentity(m)
<1>1. DOMAIN l = DOMAIN m
  BY DEF SameWorkload
<1>2. ASSUME NEW x \in DOMAIN l, x \notin {"job_name", "pod"} PROVE l[x] = m[x]
  BY <1>2 DEF SameWorkload
<1>3. NamespaceOf(l) = NamespaceOf(m) /\ AlertNameOf(l) = AlertNameOf(m)
  BY <1>1, <1>2 DEF NamespaceOf, AlertNameOf
<1>4. ASSUME NEW i \in DOMAIN Subjects, Subjects[i].label \in DOMAIN l
      PROVE  SubjectName(Subjects[i].label, l[Subjects[i].label])
               = SubjectName(Subjects[i].label, m[Subjects[i].label])
  <2> DEFINE x == Subjects[i].label
  <2>1. l[x] \in Seq(Symbols) /\ m[x] \in Seq(Symbols)
    <3>1. l[x] \in Seq(Symbols \ Rejected) /\ m[x] \in Seq(Symbols \ Rejected)
      BY <1>1, <1>4 DEF IsLabels
    <3>2. QED BY <3>1
  <2>2. CASE l[x] = m[x]
    BY <2>2
  <2>3. CASE l[x] # m[x]
    <3>1. PICK k \in 1..Len(l[x]) :
             LET owner == SubSeq(l[x], 1, k)
                 names == {l[x], m[x]}
             IN  \/ x = "job_name" /\ \A name \in names : JobOf(owner, name)
                 \/ x = "pod" /\ \A name \in names : DeploymentPod(owner, name)
                 \/ x = "pod" /\ \A name \in names : DaemonSetPod(owner, name)
      BY <1>4, <2>3 DEF SameWorkload
    <3> DEFINE owner == SubSeq(l[x], 1, k)
    <3>2. owner \in Seq(Symbols) /\ Len(owner) = k
      BY <2>1, FrontIs
    <3>3. owner # <<>>
      BY <3>2
    <3> HIDE DEF owner
    <3>4. CASE x = "job_name" /\ JobOf(owner, l[x]) /\ JobOf(owner, m[x])
      <4>1. normalizeCronJobName(l[x]) = owner /\ normalizeCronJobName(m[x]) = owner
        BY <2>1, <3>2, <3>3, <3>4, JobOwner
      <4>2. QED BY <3>4, <4>1 DEF SubjectName
    <3>5. CASE x = "pod" /\ DeploymentPod(owner, l[x]) /\ DeploymentPod(owner, m[x])
      <4>1. normalizePodName(l[x]) = owner /\ normalizePodName(m[x]) = owner
        BY <2>1, <3>2, <3>3, <3>5, DeploymentOwner
      <4>2. QED BY <3>5, <4>1 DEF SubjectName
    <3>6. CASE x = "pod" /\ DaemonSetPod(owner, l[x]) /\ DaemonSetPod(owner, m[x])
      <4>1. /\ normalizePodName(l[x]) = DaemonSetName(owner)
            /\ normalizePodName(m[x]) = DaemonSetName(owner)
        BY <2>1, <3>2, <3>3, <3>6, DaemonSetOwner
      <4>2. QED BY <3>6, <4>1 DEF SubjectName
    <3>7. QED BY <3>1, <3>4, <3>5, <3>6 DEF owner
  <2>4. QED BY <2>2, <2>3
<1>5. CASE HasSubject(DOMAIN l)
  <2> DEFINE i == Subject(DOMAIN l)
  <2>1. i \in DOMAIN Subjects /\ Subjects[i].label \in DOMAIN l
    BY <1>5, SubjectIs
  <2> HIDE DEF i
  <2>2. SubjectName(Subjects[i].label, l[Subjects[i].label])
          = SubjectName(Subjects[i].label, m[Subjects[i].label])
    BY <1>4, <2>1
  <2>3. QED BY <1>1, <1>3, <1>5, <2>2, IdentityIs DEF i
<1>6. CASE ~HasSubject(DOMAIN l)
  BY <1>1, <1>3, <1>6, IdentityIs
<1>7. QED BY <1>5, <1>6

\* What an identity is made of.
Identities ==
    [namespace : Symbols \ Rejected, kind : LabelKinds \cup {"Namespace"},
     name : Seq(Symbols \ Rejected), alertName : Seq(Symbols \ Rejected)]

LEMMA NormalizedIs ==
    ASSUME NEW name \in Seq(Symbols \ Rejected), name # <<>>, NEW label
    PROVE  SubjectName(label, name) \in Seq(Symbols \ Rejected)
<1>1. ASSUME NEW k \in {1, 2}, Len(name) >= 2 PROVE Without(name, k) \in Seq(Symbols \ Rejected)
  <2>1. Len(name) - k \in 0..Len(name)
    BY <1>1
  <2>2. QED BY <2>1, FrontIs DEF Without
<1>2. normalizeCronJobName(name) \in Seq(Symbols \ Rejected)
  BY <1>1 DEF normalizeCronJobName
<1>3. normalizePodName(name) \in Seq(Symbols \ Rejected)
  <2>1. Len(name) \in Nat
    OBVIOUS
  <2>2. QED BY <1>1, <2>1 DEF normalizePodName
<1>4. QED BY <1>2, <1>3 DEF SubjectName

LEMMA IdentityType == ASSUME NEW l, IsLabels(l) PROVE DeriveIdentity(l) \in Identities
<1>1. NamespaceOf(l) \in Symbols \ Rejected
  BY IdentityAssumption DEF NamespaceOf, IsLabels
<1>2. AlertNameOf(l) \in Seq(Symbols \ Rejected)
  <2>1. (IF "alertname" \in DOMAIN l THEN l["alertname"] ELSE <<>>) \in Seq(Symbols)
    BY DEF IsLabels
  <2>2. QED BY <2>1, SanitizedIs DEF AlertNameOf
<1>3. CASE HasSubject(DOMAIN l)
  <2> DEFINE i == Subject(DOMAIN l)
             x == Subjects[i].label
  <2>1. i \in DOMAIN Subjects /\ x \in DOMAIN l
    BY <1>3, SubjectIs
  <2> HIDE DEF i
  <2>2. l[x] \in Seq(Symbols \ Rejected) /\ l[x] # <<>>
    BY <2>1 DEF IsLabels
  <2>3. SubjectName(x, l[x]) \in Seq(Symbols \ Rejected)
    BY <2>2, NormalizedIs
  <2>4. Subjects[i].kind \in LabelKinds
    BY <2>1, SubjectsAre
  <2>5. DeriveIdentity(l) = [namespace |-> NamespaceOf(l), kind |-> Subjects[i].kind,
                             name |-> SubjectName(x, l[x]), alertName |-> AlertNameOf(l)]
    BY <1>3, IdentityIs DEF i
  <2> HIDE DEF x
  <2>6. QED BY <1>1, <1>2, <2>3, <2>4, <2>5 DEF Identities
<1>4. CASE ~HasSubject(DOMAIN l)
  <2>1. <<NamespaceOf(l)>> \in Seq(Symbols \ Rejected)
    BY <1>1
  <2>2. DeriveIdentity(l) = [namespace |-> NamespaceOf(l), kind |-> "Namespace",
                             name |-> <<NamespaceOf(l)>>, alertName |-> AlertNameOf(l)]
    BY <1>4, IdentityIs
  <2>3. QED BY <1>1, <1>2, <2>1, <2>2 DEF Identities
<1>5. QED BY <1>3, <1>4

-----------------------------------------------------------------------------
(* workflow_ids.                                                              *)

Spelling == Symbols \cup LabelKinds \cup {"Namespace", "triage", "/", AttemptDelimiter}

LEMMA SmallerSeq == ASSUME NEW S, NEW T, S \subseteq T, NEW s \in Seq(S) PROVE s \in Seq(T)
  OBVIOUS

\* Every symbol of a workflow_id by its place.
LEMMA SpelledOut ==
    ASSUME NEW id \in Identities
    PROVE  /\ WorkflowID(id) \in Seq(Spelling)
           /\ Len(WorkflowID(id)) = 7 + Len(id.name) + Len(id.alertName)
           /\ WorkflowID(id)[1] = "triage" /\ WorkflowID(id)[2] = "/"
           /\ WorkflowID(id)[3] = id.namespace /\ WorkflowID(id)[4] = "/"
           /\ WorkflowID(id)[5] = id.kind /\ WorkflowID(id)[6] = "/"
           /\ \A i \in 1..Len(id.name) : WorkflowID(id)[6 + i] = id.name[i]
           /\ WorkflowID(id)[7 + Len(id.name)] = "/"
           /\ \A i \in 1..Len(id.alertName) :
                 WorkflowID(id)[7 + Len(id.name) + i] = id.alertName[i]
<1> DEFINE A == Spelling
           p == <<"triage", "/", id.namespace, "/", id.kind, "/">>
           n == id.name
           z == id.alertName
           d == <<"/">>
<1>1. /\ id.namespace \in Symbols /\ id.kind \in LabelKinds \cup {"Namespace"}
      /\ n \in Seq(Symbols \ Rejected) /\ z \in Seq(Symbols \ Rejected)
  BY DEF Identities
<1>2. n \in Seq(A) /\ z \in Seq(A)
  <2>1. Symbols \ Rejected \subseteq A
    BY DEF Spelling
  <2> HIDE DEF A, n, z
  <2>2. QED BY <1>1, <2>1, SmallerSeq
<1>3. "triage" \in A /\ "/" \in A /\ id.namespace \in A /\ id.kind \in A
  BY <1>1 DEF Spelling
<1> HIDE DEF A
<1>4. /\ p \in Seq(A) /\ Len(p) = 6 /\ p[1] = "triage" /\ p[2] = "/" /\ p[3] = id.namespace
      /\ p[4] = "/" /\ p[5] = id.kind /\ p[6] = "/"
  BY <1>3
<1>5. d \in Seq(A) /\ Len(d) = 1 /\ d[1] = "/"
  BY <1>3
<1>6. WorkflowID(id) = ((p \o n) \o d) \o z
  BY DEF WorkflowID
<1> HIDE DEF p, n, z, d
<1> DEFINE u == p \o n
           v == u \o d
           w == v \o z
<1>7. /\ u \in Seq(A) /\ Len(u) = Len(p) + Len(n)
      /\ \A i \in 1..Len(p) : u[i] = p[i]
      /\ \A i \in 1..Len(n) : u[Len(p) + i] = n[i]
  <2>1. p \in Seq(A) /\ n \in Seq(A)
    BY <1>2, <1>4
  <2>2. QED BY <2>1, ConcatIs
<1> HIDE DEF u
<1>8. /\ v \in Seq(A) /\ Len(v) = Len(u) + Len(d)
      /\ \A i \in 1..Len(u) : v[i] = u[i]
      /\ \A i \in 1..Len(d) : v[Len(u) + i] = d[i]
  <2>1. u \in Seq(A) /\ d \in Seq(A)
    BY <1>5, <1>7
  <2>2. QED BY <2>1, ConcatIs
<1> HIDE DEF v
<1>9. /\ w \in Seq(A) /\ Len(w) = Len(v) + Len(z)
      /\ \A i \in 1..Len(v) : w[i] = v[i]
      /\ \A i \in 1..Len(z) : w[Len(v) + i] = z[i]
  <2>1. v \in Seq(A) /\ z \in Seq(A)
    BY <1>2, <1>8
  <2>2. QED BY <2>1, ConcatIs
<1> HIDE DEF w
<1>10. Len(n) \in Nat /\ Len(z) \in Nat
  BY <1>2
<1>11. Len(u) = 6 + Len(n) /\ Len(v) = 7 + Len(n) /\ Len(w) = 7 + Len(n) + Len(z)
  BY <1>4, <1>5, <1>7, <1>8, <1>9, <1>10
<1>12. \A i \in 1..6 : w[i] = p[i]
  BY <1>4, <1>7, <1>8, <1>9, <1>10, <1>11
<1>13. ASSUME NEW i \in 1..Len(n) PROVE w[6 + i] = n[i]
  <2>1. 6 + i \in 1..Len(u) /\ 6 + i \in 1..Len(v)
    BY <1>10, <1>11
  <2>2. QED BY <1>4, <1>7, <1>8, <1>9, <2>1
<1>14. w[7 + Len(n)] = "/"
  <2>1. 7 + Len(n) \in 1..Len(v) /\ 7 + Len(n) = Len(u) + 1 /\ 1 \in 1..Len(d)
    BY <1>5, <1>10, <1>11
  <2>2. QED BY <1>5, <1>8, <1>9, <2>1
<1>15. \A i \in 1..Len(z) : w[7 + Len(n) + i] = z[i]
  BY <1>9, <1>11
<1>16. WorkflowID(id) = w
  BY <1>6 DEF u, v, w
<1>17. w[1] = "triage" /\ w[2] = "/" /\ w[3] = id.namespace /\ w[4] = "/"
       /\ w[5] = id.kind /\ w[6] = "/"
  BY <1>4, <1>12
<1>18. QED BY <1>9, <1>11, <1>13, <1>14, <1>15, <1>16, <1>17 DEF A, n, z

\* No attempt's delimiter is in a stem.
LEMMA StemHasNoDelimiter ==
    ASSUME NEW id \in Identities, NEW i \in 1..Len(WorkflowID(id))
    PROVE  WorkflowID(id)[i] # AttemptDelimiter
<1> DEFINE w == WorkflowID(id)
           n == id.name
           z == id.alertName
<1>1. /\ Len(w) = 7 + Len(n) + Len(z)
      /\ w[1] = "triage" /\ w[2] = "/" /\ w[3] = id.namespace /\ w[4] = "/"
      /\ w[5] = id.kind /\ w[6] = "/"
      /\ \A k \in 1..Len(n) : w[6 + k] = n[k]
      /\ w[7 + Len(n)] = "/"
      /\ \A k \in 1..Len(z) : w[7 + Len(n) + k] = z[k]
  BY SpelledOut
<1>2. /\ id.namespace \in Symbols \ Rejected /\ id.kind \in LabelKinds \cup {"Namespace"}
      /\ n \in Seq(Symbols \ Rejected) /\ z \in Seq(Symbols \ Rejected)
  BY DEF Identities
<1> HIDE DEF w, n, z
<1>3. Len(n) \in Nat /\ Len(z) \in Nat
  BY <1>2
<1>4. /\ "triage" # AttemptDelimiter /\ "/" # AttemptDelimiter
      /\ \A k \in LabelKinds \cup {"Namespace"} : k # AttemptDelimiter
  BY DEF AttemptDelimiter, LabelKinds
<1>5. \A x \in Symbols \ Rejected : x # AttemptDelimiter
  BY IdentityAssumption
<1>6. CASE i \in 1..6
  <2>1. i = 1 \/ i = 2 \/ i = 3 \/ i = 4 \/ i = 5 \/ i = 6
    BY <1>6
  <2>2. QED BY <1>1, <1>2, <1>4, <1>5, <2>1 DEF w
<1>7. CASE i \in 7..6 + Len(n)
  <2>1. i - 6 \in 1..Len(n) /\ 6 + (i - 6) = i
    BY <1>3, <1>7
  <2>2. w[i] = n[i - 6]
    BY <1>1, <2>1
  <2>3. n[i - 6] \in Symbols \ Rejected
    BY <1>2, <2>1
  <2>4. QED BY <1>5, <2>2, <2>3 DEF w
<1>8. CASE i = 7 + Len(n)
  BY <1>1, <1>4, <1>8 DEF w
<1>9. CASE i \in 8 + Len(n)..7 + Len(n) + Len(z)
  <2>1. i - 7 - Len(n) \in 1..Len(z) /\ 7 + Len(n) + (i - 7 - Len(n)) = i
    BY <1>3, <1>9
  <2>2. w[i] = z[i - 7 - Len(n)]
    BY <1>1, <2>1
  <2>3. z[i - 7 - Len(n)] \in Symbols \ Rejected
    BY <1>2, <2>1
  <2>4. QED BY <1>5, <2>2, <2>3 DEF w
<1>10. i \in 1..7 + Len(n) + Len(z)
  BY <1>1 DEF w
<1>11. QED BY <1>3, <1>6, <1>7, <1>8, <1>9, <1>10

\* Two names before a "/", neither with a "/" of its own.
LEMMA NoLongerName ==
    ASSUME NEW id \in Identities, NEW jd \in Identities, WorkflowID(id) = WorkflowID(jd)
    PROVE  Len(id.name) >= Len(jd.name)
<1> SUFFICES ASSUME Len(id.name) < Len(jd.name) PROVE FALSE
  <2>1. Len(id.name) \in Nat /\ Len(jd.name) \in Nat
    BY DEF Identities
  <2>2. QED BY <2>1
<1>1. id.name \in Seq(Symbols \ Rejected) /\ jd.name \in Seq(Symbols \ Rejected)
  BY DEF Identities
<1>2. Len(id.name) + 1 \in 1..Len(jd.name) /\ 7 + Len(id.name) = 6 + (Len(id.name) + 1)
  BY <1>1
<1>3. WorkflowID(id)[7 + Len(id.name)] = "/"
  BY SpelledOut
<1>4. \A i \in 1..Len(jd.name) : WorkflowID(jd)[6 + i] = jd.name[i]
  BY SpelledOut
<1>5. jd.name[Len(id.name) + 1] = "/"
  BY <1>2, <1>3, <1>4
<1>6. jd.name[Len(id.name) + 1] \in Symbols \ Rejected
  BY <1>1, <1>2
<1>7. QED BY <1>5, <1>6, IdentityAssumption

\* An identity can be read off its stem.
LEMMA StemsDiffer ==
    ASSUME NEW id \in Identities, NEW jd \in Identities, WorkflowID(id) = WorkflowID(jd)
    PROVE  id = jd
<1>1. /\ id.name \in Seq(Symbols \ Rejected) /\ jd.name \in Seq(Symbols \ Rejected)
      /\ id.alertName \in Seq(Symbols \ Rejected) /\ jd.alertName \in Seq(Symbols \ Rejected)
  BY DEF Identities
<1>2. Len(id.name) = Len(jd.name)
  <2>1. Len(id.name) >= Len(jd.name) /\ Len(jd.name) >= Len(id.name)
    BY NoLongerName
  <2>2. QED BY <1>1, <2>1
<1>3. id.name = jd.name
  <2>1. ASSUME NEW i \in 1..Len(id.name) PROVE id.name[i] = jd.name[i]
    <3>1. WorkflowID(id)[6 + i] = id.name[i]
      BY SpelledOut
    <3>2. WorkflowID(jd)[6 + i] = jd.name[i]
      BY <1>2, SpelledOut
    <3>3. QED BY <3>1, <3>2
  <2>2. QED BY <1>1, <1>2, <2>1, SeqEqual
<1>4. Len(id.alertName) = Len(jd.alertName)
  <2>1. \A a, b, c \in Nat : 7 + a + b = 7 + a + c => b = c
    OBVIOUS
  <2>2. /\ Len(WorkflowID(id)) = 7 + Len(id.name) + Len(id.alertName)
        /\ Len(WorkflowID(jd)) = 7 + Len(jd.name) + Len(jd.alertName)
    BY SpelledOut
  <2>3. 7 + Len(id.name) + Len(id.alertName) = 7 + Len(id.name) + Len(jd.alertName)
    BY <1>2, <2>2, Zenon
  <2>4. Len(id.name) \in Nat /\ Len(id.alertName) \in Nat /\ Len(jd.alertName) \in Nat
    BY <1>1
  <2>5. QED BY <2>1, <2>3, <2>4, Zenon
<1>5. id.alertName = jd.alertName
  <2>1. ASSUME NEW i \in 1..Len(id.alertName) PROVE id.alertName[i] = jd.alertName[i]
    <3>1. WorkflowID(id)[7 + Len(id.name) + i] = id.alertName[i]
      BY SpelledOut
    <3>2. WorkflowID(jd)[7 + Len(jd.name) + i] = jd.alertName[i]
      BY <1>4, SpelledOut
    <3>3. QED BY <1>2, <3>1, <3>2
  <2>2. QED BY <1>1, <1>4, <2>1, SeqEqual
<1>6. id.namespace = jd.namespace /\ id.kind = jd.kind
  <2>1. WorkflowID(id)[3] = id.namespace /\ WorkflowID(id)[5] = id.kind
    BY SpelledOut
  <2>2. WorkflowID(jd)[3] = jd.namespace /\ WorkflowID(jd)[5] = jd.kind
    BY SpelledOut
  <2>3. QED BY <2>1, <2>2
<1>7. QED BY <1>3, <1>5, <1>6 DEF Identities

\* Where the attempt stands in a workflow_id, and that it stands nowhere else.
LEMMA AttemptFound ==
    ASSUME NEW id \in Identities, NEW m \in DOMAIN Numeral, m > 1
    PROVE  /\ \A i \in 1..Len(WorkflowIDForAttempt(id, m)), n \in DOMAIN Numeral :
                 AttemptAt(WorkflowIDForAttempt(id, m), i, n)
                   <=> i = Len(WorkflowID(id)) + 1 /\ n = m
           /\ Len(WorkflowID(id)) + 1 \in 1..Len(WorkflowIDForAttempt(id, m))
           /\ SubSeq(WorkflowIDForAttempt(id, m), 1, Len(WorkflowID(id))) = WorkflowID(id)
<1> DEFINE A == Spelling
           s == WorkflowID(id)
           d == <<AttemptDelimiter>>
           z == Numeral[m]
           u == s \o d
           w == u \o z
           p == Len(s) + 1
<1>1. s \in Seq(A) /\ \A i \in 1..Len(s) : s[i] # AttemptDelimiter
  BY SpelledOut, StemHasNoDelimiter
<1>2. z \in Seq(A) /\ \A i \in 1..Len(z) : z[i] # AttemptDelimiter
  <2>1. z \in Seq(Symbols) /\ \A i \in 1..Len(z) : z[i] # AttemptDelimiter
    BY NumeralAssumption
  <2>2. Symbols \subseteq A
    BY DEF Spelling
  <2> HIDE DEF A, z
  <2>3. QED BY <2>1, <2>2, SmallerSeq
<1>3. d \in Seq(A) /\ Len(d) = 1 /\ d[1] = AttemptDelimiter
  <2>1. AttemptDelimiter \in A
    BY DEF Spelling
  <2> HIDE DEF A
  <2>2. QED BY <2>1
<1>4. WorkflowIDForAttempt(id, m) = w
  <2>1. ~(m <= 1)
    BY NumeralAssumption
  <2>2. QED BY <2>1 DEF WorkflowIDForAttempt
<1> HIDE DEF A, s, d, z
<1>5. /\ u \in Seq(A) /\ Len(u) = Len(s) + Len(d)
      /\ \A i \in 1..Len(s) : u[i] = s[i]
      /\ \A i \in 1..Len(d) : u[Len(s) + i] = d[i]
  <2>1. s \in Seq(A) /\ d \in Seq(A)
    BY <1>1, <1>3
  <2>2. QED BY <2>1, ConcatIs
<1>6. SubSeq(w, 1, Len(s)) = s
  <2>1. d \o z \in Seq(A) /\ w = s \o (d \o z)
    BY <1>1, <1>2, <1>3, ConcatAssociative
  <2> HIDE DEF w
  <2>2. QED BY <1>1, <2>1, FrontOf
<1> HIDE DEF u
<1>7. /\ w \in Seq(A) /\ Len(w) = Len(u) + Len(z)
      /\ \A i \in 1..Len(u) : w[i] = u[i]
      /\ \A i \in 1..Len(z) : w[Len(u) + i] = z[i]
  <2>1. u \in Seq(A) /\ z \in Seq(A)
    BY <1>2, <1>5
  <2>2. QED BY <2>1, ConcatIs
<1> HIDE DEF w
<1>8. Len(s) \in Nat /\ Len(z) \in Nat /\ Len(u) = p /\ Len(w) = p + Len(z) /\ p \in 1..Len(w)
  BY <1>1, <1>2, <1>3, <1>5, <1>7
<1>9. w[p] = AttemptDelimiter
  <2>1. 1 \in 1..Len(d) /\ p \in 1..Len(u)
    BY <1>3, <1>8
  <2>2. QED BY <1>3, <1>5, <1>7, <2>1
<1>10. ASSUME NEW i \in 1..Len(w), w[i] = AttemptDelimiter PROVE i = p
  <2>1. CASE i < p
    <3>1. i \in 1..Len(s) /\ i \in 1..Len(u)
      BY <1>8, <2>1
    <3>2. QED BY <1>1, <1>5, <1>7, <1>10, <3>1
  <2>2. CASE i > p
    <3>1. i - p \in 1..Len(z) /\ Len(u) + (i - p) = i
      BY <1>8, <2>2
    <3>2. QED BY <1>2, <1>7, <1>10, <3>1
  <2>3. QED BY <1>8, <2>1, <2>2
<1>11. SubSeq(w, p + 1, Len(w)) = z
  <2> DEFINE v == SubSeq(w, p + 1, Len(w))
  <2>1. v \in Seq(A) /\ Len(v) = Len(z) /\ \A i \in 1..Len(z) : v[i] = w[p + i]
    <3>1. ASSUME NEW a \in 1..Len(w) + 1
          PROVE  /\ SubSeq(w, a, Len(w)) \in Seq(A) /\ Len(SubSeq(w, a, Len(w))) = Len(w) - a + 1
                 /\ \A i \in 1..Len(w) - a + 1 : SubSeq(w, a, Len(w))[i] = w[a + i - 1]
      BY <1>7
    <3>2. p + 1 \in 1..Len(w) + 1 /\ Len(w) - (p + 1) + 1 = Len(z)
      BY <1>8
    <3>3. \A i \in 1..Len(z) : (p + 1) + i - 1 = p + i
      BY <1>8
    <3>4. QED BY <3>1, <3>2, <3>3
  <2> HIDE DEF v
  <2>2. \A i \in 1..Len(z) : v[i] = z[i]
    BY <1>7, <1>8, <2>1
  <2>3. v = z
    BY <1>2, <2>1, <2>2, SeqEqual
  <2>4. QED BY <2>3 DEF v
<1>12. ASSUME NEW i \in 1..Len(w), NEW n \in DOMAIN Numeral
       PROVE  AttemptAt(w, i, n) <=> i = p /\ n = m
  <2>1. ASSUME AttemptAt(w, i, n) PROVE i = p /\ n = m
    <3>1. w[i] = AttemptDelimiter /\ SubSeq(w, i + 1, Len(w)) = Numeral[n]
      BY <2>1 DEF AttemptAt
    <3>2. i = p
      BY <1>10, <3>1
    <3>3. Numeral[n] = Numeral[m]
      BY <1>11, <3>1, <3>2 DEF z
    <3>4. QED BY <3>2, <3>3, NumeralAssumption
  <2>2. ASSUME i = p, n = m PROVE AttemptAt(w, i, n)
    BY <1>9, <1>11, <2>2 DEF AttemptAt, z
  <2>3. QED BY <2>1, <2>2
<1>13. QED BY <1>4, <1>6, <1>8, <1>12 DEF s

\* ParseAttempt undoes WorkflowIDForAttempt.
LEMMA AttemptParsed ==
    ASSUME NEW id \in Identities, NEW m \in DOMAIN Numeral
    PROVE  ParseAttempt(WorkflowIDForAttempt(id, m)) = <<WorkflowID(id), m>>
<1> DEFINE w == WorkflowIDForAttempt(id, m)
<1>1. CASE m > 1
  <2> DEFINE p == Len(WorkflowID(id)) + 1
             Where == CHOOSE j \in 1..Len(w) : \E n \in DOMAIN Numeral : AttemptAt(w, j, n)
  <2>1. /\ \A i \in 1..Len(w), n \in DOMAIN Numeral : AttemptAt(w, i, n) <=> i = p /\ n = m
        /\ p \in 1..Len(w)
        /\ SubSeq(w, 1, Len(WorkflowID(id))) = WorkflowID(id)
    BY <1>1, AttemptFound
  <2>1a. p - 1 = Len(WorkflowID(id))
    <3>1. Len(WorkflowID(id)) \in Nat
      BY SpelledOut
    <3>2. QED BY <3>1
  <2> HIDE DEF w, p
  <2>2. \E i \in 1..Len(w), n \in DOMAIN Numeral : AttemptAt(w, i, n)
    BY <2>1
  <2>3. Where = p
    BY <2>1
  <2>4. (CHOOSE n \in DOMAIN Numeral : AttemptAt(w, p, n)) = m
    BY <2>1
  <2> HIDE DEF Where
  <2>5. ParseAttempt(w) = << SubSeq(w, 1, Where - 1), CHOOSE n \in DOMAIN Numeral : AttemptAt(w, Where, n) >>
    BY <2>2 DEF ParseAttempt, Where
  <2>6. ParseAttempt(w) = << SubSeq(w, 1, p - 1), m >>
    BY <2>3, <2>4, <2>5
  <2>7. QED BY <2>1, <2>1a, <2>6 DEF w
<1>2. CASE m <= 1
  <2>1. w = WorkflowID(id)
    BY <1>2 DEF WorkflowIDForAttempt
  <2>2. \A i \in 1..Len(w), n \in DOMAIN Numeral : ~AttemptAt(w, i, n)
    BY <2>1, StemHasNoDelimiter DEF AttemptAt
  <2> HIDE DEF w
  <2>3. ParseAttempt(w) = <<w, 1>>
    BY <2>2 DEF ParseAttempt
  <2>4. m = 1
    BY <1>2, NumeralAssumption
  <2>5. QED BY <2>1, <2>3, <2>4 DEF w
<1>3. m \in Nat
  BY NumeralAssumption
<1>4. QED BY <1>1, <1>2, <1>3

\* No workflow_id stands for two incidents.
LEMMA NoneAmbiguous == Ambiguous = {}
<1>1. \A a \in Alerts : IdentityOf[a] = DeriveIdentity(Labels[a])
  BY DEF IdentityOf
<1>2. ASSUME NEW i \in Stems PROVE i \in Identities
  BY <1>1, IdentityType, LabelsAssumption DEF Stems
<1>3. ASSUME NEW l \in Catalogue PROVE DeriveIdentity(l) \in Identities
  BY IdentityType, LabelsAssumption
<1>4. 1..MaxAttempt \subseteq DOMAIN Numeral
  BY GroupAssumption
<1>5. ASSUME NEW i \in Identities, NEW m \in DOMAIN Numeral, NEW j \in Identities, NEW n \in DOMAIN Numeral,
             WorkflowIDForAttempt(i, m) = WorkflowIDForAttempt(j, n)
      PROVE  <<i, m>> = <<j, n>>
  <2>1. <<WorkflowID(i), m>> = <<WorkflowID(j), n>>
    BY <1>5, AttemptParsed
  <2>2. WorkflowID(i) = WorkflowID(j) /\ m = n
    BY <2>1
  <2>3. QED BY <2>2, StemsDiffer
<1>6. QED BY <1>2, <1>3, <1>4, <1>5, AttemptParsed DEF Ambiguous

-----------------------------------------------------------------------------
(***************************************************************************)
(* The requests.                                                           *)
(***************************************************************************)
Resolving == {"resolving", "resolveLock", "resolveUpdate"}
FiringPCs == {"firing", "mintLock", "mint", "signal"}
Between   == {"idle", "resolving", "gate", "firing"}
Holding   == {"resolveUpdate", "mint"}

\* As long as nothing failed, every identity of the group is done, in hand or to do.
Accounted(r) ==
    /\ r.pc \in Between <=> r.stem = {}
    /\ ~r.errors =>
          /\ r.pc \in Resolving => StemsOf(r.resolved) \subseteq r.closed \cup r.todo \cup r.stem
          /\ r.pc \in FiringPCs \cup {"gate"} => StemsOf(r.resolved) \subseteq r.closed
          /\ r.pc \in FiringPCs => StemsOf(r.firing) \subseteq r.handled \cup r.todo \cup r.stem

\* A request holds the lock of the identity in hand inside its transaction, and no other.
HoldsOne ==
    \A h \in Hooks, s \in Stems :
        lock[s] = h <=> request[h].pc \in Holding /\ s \in request[h].stem

IInv == TypeOK /\ HoldsOne /\ \A h \in Hooks : Accounted(request[h])

LEMMA InitIInv == Init => IInv
<1> SUFFICES ASSUME Init PROVE IInv
  OBVIOUS
<1>1. Idle(0) \in Request /\ Idle(0).pc = "idle" /\ Idle(0).stem = {}
  BY DEF Idle, Request, RequestPCs
<1>2. TypeOK
  BY <1>1, GroupAssumption DEF Init, TypeOK, AlertStates, IncidentStates
<1>3. \A h \in Hooks : request[h] = Idle(0)
  BY DEF Init
<1>4. HoldsOne
  BY <1>1, <1>3, GroupAssumption DEF Init, HoldsOne, Holding
<1>5. Accounted(Idle(0))
  BY <1>1 DEF Accounted, Between, Resolving, FiringPCs
<1>6. QED BY <1>2, <1>3, <1>4, <1>5 DEF IInv

\* One request changes.
LEMMA OneRequest ==
    ASSUME IInv, NEW h \in Hooks, NEW r \in Request, Accounted(r), request' = [request EXCEPT ![h] = r]
    PROVE  /\ request' \in [Hooks -> Request] /\ \A g \in Hooks : Accounted(request'[g])
           /\ request'[h] = r /\ \A g \in Hooks \ {h} : request'[g] = request[g]
<1>1. request \in [Hooks -> Request] /\ \A g \in Hooks : Accounted(request[g])
  BY DEF IInv, TypeOK
<1>2. request'[h] = r /\ \A g \in Hooks \ {h} : request'[g] = request[g]
  BY <1>1
<1>3. request' \in [Hooks -> Request]
  BY <1>1
<1>4. \A g \in Hooks : Accounted(request'[g])
  BY <1>1, <1>2
<1>5. QED BY <1>2, <1>3, <1>4

\* It neither takes nor returns a lock.
LEMMA LocksKept ==
    ASSUME HoldsOne, NEW h \in Hooks, lock' = lock, \A g \in Hooks \ {h} : request'[g] = request[g],
           request[h].pc \notin Holding, request'[h].pc \notin Holding
    PROVE  HoldsOne'
BY DEF HoldsOne

\* It returns its lock, or leaves it to a dead session.
LEMMA LockReturned ==
    ASSUME TypeOK, HoldsOne, NEW h \in Hooks, NEW x \in {Free, DeadSession},
           lock' = [t \in Stems |-> IF lock[t] = h THEN x ELSE lock[t]],
           \A g \in Hooks \ {h} : request'[g] = request[g], request'[h].pc \notin Holding
    PROVE  HoldsOne' /\ lock' \in [Stems -> Hooks \cup {Free, Other, DeadSession}]
<1>1. x \notin Hooks
  BY GroupAssumption
<1>2. QED BY <1>1 DEF HoldsOne, TypeOK

\* Somebody else takes or returns a lock that no request here holds.
LEMMA LockOfOthers ==
    ASSUME IInv, NEW s \in Stems, lock[s] \notin Hooks, NEW x \in {Free, Other},
           lock' = [lock EXCEPT ![s] = x], UNCHANGED <<alert, request, incident, faults>>
    PROVE  IInv'
<1>1. x \notin Hooks
  BY GroupAssumption
<1>2. TypeOK'
  BY DEF IInv, TypeOK
<1>3. HoldsOne'
  BY <1>1 DEF IInv, TypeOK, HoldsOne
<1>4. \A h \in Hooks : Accounted(request'[h])
  BY DEF IInv
<1>5. QED BY <1>2, <1>3, <1>4 DEF IInv

LEMMA EnvironmentStep ==
    ASSUME IInv,
           \/ \E a \in Alerts : Fire(a) \/ Resolve(a)
           \/ \E s \in Stems : FlapWindowPasses(s) \/ OtherLocks(s) \/ OtherUnlocks(s) \/ ReapSession(s)
    PROVE  IInv'
<1>1. ASSUME NEW a \in Alerts, Fire(a) \/ Resolve(a) PROVE IInv'
  <2>1. alert' \in [Alerts -> AlertStates] /\ UNCHANGED <<request, lock, incident, faults>>
    BY <1>1 DEF IInv, TypeOK, Fire, Resolve, AlertStates
  <2>2. QED BY <2>1 DEF IInv, TypeOK, HoldsOne
<1>2. ASSUME NEW s \in Stems, FlapWindowPasses(s) PROVE IInv'
  <2>1. incident' \in [Stems -> IncidentStates] /\ UNCHANGED <<alert, request, lock, faults>>
    BY <1>2 DEF IInv, TypeOK, FlapWindowPasses, IncidentStates
  <2>2. QED BY <2>1 DEF IInv, TypeOK, HoldsOne
<1>3. ASSUME NEW s \in Stems, OtherLocks(s) PROVE IInv'
  <2>1. lock[s] \notin Hooks /\ lock' = [lock EXCEPT ![s] = Other] /\ UNCHANGED <<alert, request, incident, faults>>
    BY <1>3, GroupAssumption DEF OtherLocks
  <2>2. QED BY <2>1, LockOfOthers
<1>4. ASSUME NEW s \in Stems, OtherUnlocks(s) PROVE IInv'
  <2>1. lock[s] \notin Hooks /\ lock' = [lock EXCEPT ![s] = Free] /\ UNCHANGED <<alert, request, incident, faults>>
    BY <1>4, GroupAssumption DEF OtherUnlocks
  <2>2. QED BY <2>1, LockOfOthers
<1>5. ASSUME NEW s \in Stems, ReapSession(s) PROVE IInv'
  <2>1. lock[s] \notin Hooks /\ lock' = [lock EXCEPT ![s] = Free] /\ UNCHANGED <<alert, request, incident, faults>>
    BY <1>5, GroupAssumption DEF ReapSession
  <2>2. QED BY <2>1, LockOfOthers
<1>6. QED BY <1>1, <1>2, <1>3, <1>4, <1>5

LEMMA StemsOfAre == \A as \in SUBSET Alerts : StemsOf(as) \subseteq Stems
BY DEF StemsOf, Stems

\* A notification's request has every resolved identity to do.
LEMMA NotifyStep == ASSUME IInv, NEW h \in Hooks, Notify(h) PROVE IInv'
<1> DEFINE firing   == {a \in Alerts : alert[a] = "firing"}
           resolved == {a \in Alerts : alert[a] = "resolved"}
           r == [Idle(0) EXCEPT !.pc = "resolving", !.firing = firing,
                                !.resolved = resolved, !.todo = StemsOf(resolved)]
<1>1. request[h].pc = "idle" /\ request' = [request EXCEPT ![h] = r]
      /\ UNCHANGED <<alert, lock, incident, faults>>
  BY DEF Notify
<1>2. firing \in SUBSET Alerts /\ resolved \in SUBSET Alerts
  OBVIOUS
<1>3. StemsOf(resolved) \subseteq Stems
  BY <1>2, StemsOfAre
<1> HIDE DEF firing, resolved
<1>4. Idle(0) \in Request /\ Idle(0).stem = {}
  BY DEF Idle, Request, RequestPCs
<1>5. r \in Request
  BY <1>2, <1>3, <1>4 DEF Request, RequestPCs
<1>6. r.pc = "resolving" /\ r.resolved = resolved /\ r.todo = StemsOf(resolved) /\ r.stem = {}
  BY <1>4 DEF Request
<1>6a. Accounted(r)
  BY <1>6 DEF Accounted, Between, Resolving, FiringPCs
<1> HIDE DEF r
<1>7. /\ request' \in [Hooks -> Request] /\ \A g \in Hooks : Accounted(request'[g])
      /\ request'[h] = r /\ \A g \in Hooks \ {h} : request'[g] = request[g]
  BY <1>1, <1>5, <1>6a, OneRequest
<1>9. HoldsOne'
  BY <1>1, <1>6, <1>7, LocksKept DEF IInv, Holding
<1>10. QED BY <1>1, <1>7, <1>9 DEF IInv, TypeOK

\* An answer leaves a request that holds nothing.
LEMMA AnswerStep ==
    ASSUME IInv, NEW h \in Hooks, NEW code \in {200, 500}, Answer(h, code), UNCHANGED faults,
           request[h].pc \notin Holding
    PROVE  IInv'
<1>1. request' = [request EXCEPT ![h] = Idle(code)] /\ UNCHANGED <<lock, incident>>
      /\ alert' \in [Alerts -> AlertStates]
  BY DEF Answer, IInv, TypeOK, AlertStates
<1>2. Idle(code) \in Request /\ Idle(code).pc = "idle" /\ Idle(code).stem = {}
  BY DEF Idle, Request, RequestPCs
<1>3. Accounted(Idle(code))
  BY <1>2 DEF Accounted, Between, Resolving, FiringPCs
<1>4. /\ request' \in [Hooks -> Request] /\ \A g \in Hooks : Accounted(request'[g])
      /\ request'[h] = Idle(code) /\ \A g \in Hooks \ {h} : request'[g] = request[g]
  BY <1>1, <1>2, <1>3, OneRequest
<1>5. HoldsOne'
  BY <1>1, <1>2, <1>4, LocksKept DEF IInv, Holding
<1>6. QED BY <1>1, <1>4, <1>5 DEF IInv, TypeOK

USE DEF Between, Resolving, FiringPCs, Holding

\* The identity in hand was to do.
LEMMA PickStep ==
    ASSUME IInv, NEW h \in Hooks, NEW from, NEW to, Pick(h, from, to),
           \/ (from = "resolving" /\ to = "resolveLock")
           \/ (from = "firing" /\ to = "mintLock")
    PROVE  IInv'
<1> DEFINE q == request[h]
<1>1. PICK s \in q.todo :
        request' = [request EXCEPT ![h] = [q EXCEPT !.pc = to, !.stem = {s}, !.todo = @ \ {s}]]
  <2>1. request \in [Hooks -> Request]
    BY DEF IInv, TypeOK
  <2>2. QED BY <2>1 DEF Pick
<1> DEFINE r == [q EXCEPT !.pc = to, !.stem = {s}, !.todo = @ \ {s}]
<1>2. q \in Request /\ Accounted(q) /\ q.pc = from /\ UNCHANGED <<alert, lock, incident, faults>>
  BY DEF IInv, TypeOK, Pick, At
<1>3. request' = [request EXCEPT ![h] = r] /\ s \in q.todo
  BY <1>1
<1> HIDE DEF q
<1>4. r \in Request
  <2>1. s \in Stems /\ q.todo \ {s} \in SUBSET Stems
    BY <1>2, <1>3 DEF Request
  <2>2. {s} \in {{}} \cup {{t} : t \in Stems}
    BY <2>1
  <2>3. to \in RequestPCs
    BY DEF RequestPCs
  <2>4. QED BY <1>2, <2>1, <2>2, <2>3 DEF Request
<1>5. /\ r.pc = to /\ r.stem = {s} /\ r.todo = q.todo \ {s} /\ r.errors = q.errors
      /\ r.resolved = q.resolved /\ r.firing = q.firing /\ r.closed = q.closed /\ r.handled = q.handled
  BY <1>2 DEF Request
<1> HIDE DEF r
<1>6. Accounted(r)
  BY <1>2, <1>3, <1>5 DEF Accounted
<1>7. /\ request' \in [Hooks -> Request] /\ \A g \in Hooks : Accounted(request'[g])
      /\ request'[h] = r /\ \A g \in Hooks \ {h} : request'[g] = request[g]
  BY <1>3, <1>4, <1>6, OneRequest
<1>8. request[h].pc \notin Holding /\ request'[h].pc \notin Holding
  BY <1>2, <1>5, <1>7 DEF q
<1>9. HoldsOne'
  BY <1>2, <1>7, <1>8, LocksKept DEF IInv
<1>10. QED BY <1>2, <1>7, <1>9 DEF IInv, TypeOK

\* The identity in hand is locked.
LEMMA AcquireStep ==
    ASSUME IInv, NEW h \in Hooks, NEW from, NEW to, AcquireStemLock(h, from, to),
           \/ (from = "resolveLock" /\ to = "resolveUpdate")
           \/ (from = "mintLock" /\ to = "mint")
    PROVE  IInv'
<1> DEFINE q == request[h]
           r == [q EXCEPT !.pc = to]
<1>1. PICK s \in q.stem : lock[s] = Free /\ lock' = [lock EXCEPT ![s] = h]
  BY DEF AcquireStemLock
<1>2. /\ q \in Request /\ Accounted(q) /\ q.pc = from /\ UNCHANGED <<alert, incident, faults>>
      /\ request' = [request EXCEPT ![h] = r]
  BY DEF IInv, TypeOK, AcquireStemLock, At
<1>3. q.stem = {s} /\ s \in Stems
  BY <1>1, <1>2 DEF Request
<1> HIDE DEF q
<1>4. r \in Request
  <2>1. to \in RequestPCs
    BY DEF RequestPCs
  <2>2. QED BY <1>2, <2>1 DEF Request
<1>5. /\ r.pc = to /\ r.stem = q.stem /\ r.todo = q.todo /\ r.errors = q.errors
      /\ r.resolved = q.resolved /\ r.firing = q.firing /\ r.closed = q.closed /\ r.handled = q.handled
  BY <1>2 DEF Request
<1> HIDE DEF r
<1>6. Accounted(r)
  BY <1>2, <1>5 DEF Accounted
<1>7. /\ request' \in [Hooks -> Request] /\ \A g \in Hooks : Accounted(request'[g])
      /\ request'[h] = r /\ \A g \in Hooks \ {h} : request'[g] = request[g]
  BY <1>2, <1>4, <1>6, OneRequest
<1>8. lock' \in [Stems -> Hooks \cup {Free, Other, DeadSession}]
  BY <1>1, <1>3 DEF IInv, TypeOK
<1>9. HoldsOne'
  <2> SUFFICES ASSUME NEW g \in Hooks, NEW t \in Stems
               PROVE  lock'[t] = g <=> request'[g].pc \in Holding /\ t \in request'[g].stem
    BY DEF HoldsOne
  <2>1. lock[t] = g <=> request[g].pc \in Holding /\ t \in request[g].stem
    BY DEF IInv, HoldsOne
  <2>2. lock'[t] = IF t = s THEN h ELSE lock[t]
    BY <1>1, <1>3 DEF IInv, TypeOK
  <2>3. CASE g = h
    <3>1. request'[g].pc \in Holding /\ request'[g].stem = {s} /\ request[g].pc \notin Holding
      BY <1>2, <1>3, <1>5, <1>7, <2>3 DEF q
    <3>2. QED BY <2>1, <2>2, <2>3, <3>1
  <2>4. CASE g # h
    <3>1. request'[g] = request[g]
      BY <1>7, <2>4
    <3>2. t = s => lock[t] # g
      BY <1>1, GroupAssumption
    <3>3. QED BY <2>1, <2>2, <2>4, <3>1, <3>2
  <2>5. QED BY <2>3, <2>4
<1>10. QED BY <1>2, <1>7, <1>8, <1>9 DEF IInv, TypeOK

\* Whatever the rows become, the transaction ends and its lock is returned.
LEMMA EndOfTransaction ==
    ASSUME IInv, NEW h \in Hooks, NEW r \in Request, Accounted(r), r.pc \notin Holding,
           request' = [request EXCEPT ![h] = r], NEW x \in {Free, DeadSession},
           lock' = [t \in Stems |-> IF lock[t] = h THEN x ELSE lock[t]],
           incident' \in [Stems -> IncidentStates], faults' \in 0..MaxFaults, alert' = alert
    PROVE  IInv'
<1>1. /\ request' \in [Hooks -> Request] /\ \A g \in Hooks : Accounted(request'[g])
      /\ request'[h] = r /\ \A g \in Hooks \ {h} : request'[g] = request[g]
  BY OneRequest
<1>2. HoldsOne' /\ lock' \in [Stems -> Hooks \cup {Free, Other, DeadSession}]
  BY <1>1, LockReturned DEF IInv
<1>3. QED BY <1>1, <1>2 DEF IInv, TypeOK

LEMMA RowsAre ==
    ASSUME IInv, NEW s \in Stems
    PROVE  /\ incident \in [Stems -> IncidentStates] /\ incident[s] \in IncidentStates
           /\ MarkResolved(s) \in IncidentStates /\ Mint(s) \in IncidentStates
           /\ Start(s) \in IncidentStates
BY DEF IInv, TypeOK, MarkResolved, Mint, Start, IncidentStates

\* After a failure the answer owes nothing.
LEMMA FailsStep ==
    ASSUME IInv, NEW h \in Hooks, NEW pcs, NEW to \in {"resolving", "firing"},
           NEW s \in Stems, NEW row \in IncidentStates, Fails(h, pcs, to, s, row)
    PROVE  IInv'
<1> DEFINE q == request[h]
           r == [q EXCEPT !.pc = to, !.stem = {}, !.errors = TRUE]
<1>1. /\ incident' \in {incident, [incident EXCEPT ![s] = row]}
      /\ lock' \in {Unlocked(h), [t \in Stems |-> IF lock[t] = h THEN DeadSession ELSE lock[t]]}
      /\ request' = [request EXCEPT ![h] = r] /\ alert' = alert
      /\ faults < MaxFaults /\ faults' = faults + 1
  BY DEF Fails, Fault
<1>2. q \in Request
  BY DEF IInv, TypeOK
<1> HIDE DEF q
<1>3. r \in Request
  BY <1>2 DEF Request, RequestPCs
<1>4. r.pc = to /\ r.stem = {} /\ r.errors
  BY <1>2 DEF Request
<1>5. Accounted(r) /\ r.pc \notin Holding
  BY <1>4 DEF Accounted
<1> HIDE DEF r
<1>6. PICK x \in {Free, DeadSession} : lock' = [t \in Stems |-> IF lock[t] = h THEN x ELSE lock[t]]
  BY <1>1 DEF Unlocked
<1>7. incident' \in [Stems -> IncidentStates]
  BY <1>1, RowsAre
<1>8. faults' \in 0..MaxFaults
  BY <1>1, GroupAssumption DEF IInv, TypeOK
<1>9. QED BY <1>1, <1>3, <1>5, <1>6, <1>7, <1>8, EndOfTransaction

\* A resolved identity moves from the hand to the closed ones.
LEMMA ResolveStep ==
    ASSUME IInv, NEW h \in Hooks, NEW s \in Stems, resolveByStem(h, s)
    PROVE  IInv'
<1> DEFINE q == request[h]
           r == [q EXCEPT !.pc = "resolving", !.stem = {}, !.closed = @ \cup {s}]
<1>1. q \in Request /\ Accounted(q) /\ request \in [Hooks -> Request]
  BY DEF IInv, TypeOK
<1>2. /\ q.pc = "resolveUpdate" /\ s \in q.stem
      /\ incident' = [incident EXCEPT ![s] = MarkResolved(s)] /\ lock' = Unlocked(h)
      /\ UNCHANGED <<alert, faults>>
  BY DEF resolveByStem, At
<1>3. request' = [request EXCEPT ![h] = r]
  BY <1>1 DEF resolveByStem
<1> HIDE DEF q
<1>4. r \in Request
  <2>1. q.closed \cup {s} \in SUBSET Stems
    BY <1>1 DEF Request
  <2>2. {} \in {{}} \cup {{t} : t \in Stems}
    OBVIOUS
  <2>3. "resolving" \in RequestPCs
    BY DEF RequestPCs
  <2>4. QED BY <1>1, <2>1, <2>2, <2>3 DEF Request
<1>5. /\ r.pc = "resolving" /\ r.stem = {} /\ r.todo = q.todo /\ r.errors = q.errors
      /\ r.resolved = q.resolved /\ r.closed = q.closed \cup {s}
  BY <1>1 DEF Request
<1>6. q.stem = {s}
  BY <1>1, <1>2 DEF Request
<1> HIDE DEF r
<1>7. Accounted(r)
  BY <1>1, <1>2, <1>5, <1>6 DEF Accounted
<1>8. incident' \in [Stems -> IncidentStates]
  BY <1>2, RowsAre
<1>9. lock' = [t \in Stems |-> IF lock[t] = h THEN Free ELSE lock[t]]
  BY <1>2 DEF Unlocked
<1>10. faults' \in 0..MaxFaults
  BY <1>2 DEF IInv, TypeOK
<1>11. QED BY <1>2, <1>3, <1>4, <1>5, <1>7, <1>8, <1>9, <1>10, EndOfTransaction

\* A signalled or flapping identity moves from the hand to the handled ones.
LEMMA Handled ==
    ASSUME NEW q \in Request, Accounted(q), NEW s \in Stems, s \in q.stem, q.pc \in {"mint", "signal"}
    PROVE  LET r == [q EXCEPT !.pc = "firing", !.stem = {}, !.handled = @ \cup {s}]
           IN  r \in Request /\ Accounted(r) /\ r.pc \notin Holding
<1> DEFINE r == [q EXCEPT !.pc = "firing", !.stem = {}, !.handled = @ \cup {s}]
<1>1. r \in Request
  <2>1. q.handled \cup {s} \in SUBSET Stems
    BY DEF Request
  <2>2. {} \in {{}} \cup {{t} : t \in Stems}
    OBVIOUS
  <2>3. "firing" \in RequestPCs
    BY DEF RequestPCs
  <2>4. QED BY <2>1, <2>2, <2>3 DEF Request
<1>2. /\ r.pc = "firing" /\ r.stem = {} /\ r.todo = q.todo /\ r.errors = q.errors
      /\ r.resolved = q.resolved /\ r.firing = q.firing /\ r.closed = q.closed
      /\ r.handled = q.handled \cup {s}
  BY DEF Request
<1>3. q.stem = {s}
  BY DEF Request
<1> HIDE DEF r
<1>4. Accounted(r)
  BY <1>2, <1>3 DEF Accounted
<1>5. r \in Request /\ Accounted(r) /\ r.pc \notin Holding
  BY <1>1, <1>2, <1>4
<1>6. QED BY <1>5 DEF r

\* The row is reused or minted and the lock returned; the signal is still to come.
LEMMA MintStep ==
    ASSUME IInv, NEW h \in Hooks, NEW s \in Stems, resolveWorkflowID(h, s)
    PROVE  IInv'
<1> DEFINE q == request[h]
           done == [q EXCEPT !.pc = "firing", !.stem = {}, !.handled = @ \cup {s}]
           next == [q EXCEPT !.pc = "signal"]
<1>1. q \in Request /\ Accounted(q) /\ request \in [Hooks -> Request]
  BY DEF IInv, TypeOK
<1>2. /\ q.pc = "mint" /\ s \in q.stem
      /\ incident' = [incident EXCEPT ![s] = Mint(s)] /\ lock' = Unlocked(h)
      /\ UNCHANGED <<alert, faults>>
  BY DEF resolveWorkflowID, At
<1>3. \/ request' = [request EXCEPT ![h] = done]
      \/ request' = [request EXCEPT ![h] = next]
  BY <1>1 DEF resolveWorkflowID
<1> HIDE DEF q
<1>4. done \in Request /\ Accounted(done) /\ done.pc \notin Holding
  BY <1>1, <1>2, Handled
<1>5. next \in Request /\ Accounted(next) /\ next.pc \notin Holding
  <2>1. "signal" \in RequestPCs
    BY DEF RequestPCs
  <2>2. next \in Request
    BY <1>1, <2>1 DEF Request
  <2>3. /\ next.pc = "signal" /\ next.stem = q.stem /\ next.todo = q.todo /\ next.errors = q.errors
        /\ next.resolved = q.resolved /\ next.firing = q.firing /\ next.closed = q.closed
        /\ next.handled = q.handled
    BY <1>1 DEF Request
  <2> HIDE DEF next
  <2>4. Accounted(next)
    BY <1>1, <1>2, <2>3 DEF Accounted
  <2>5. QED BY <2>2, <2>3, <2>4
<1> HIDE DEF done, next
<1>6. incident' \in [Stems -> IncidentStates]
  BY <1>2, RowsAre
<1>7. lock' = [t \in Stems |-> IF lock[t] = h THEN Free ELSE lock[t]]
  BY <1>2 DEF Unlocked
<1>8. faults' \in 0..MaxFaults
  BY <1>2 DEF IInv, TypeOK
<1>9. CASE request' = [request EXCEPT ![h] = done]
  BY <1>2, <1>4, <1>6, <1>7, <1>8, <1>9, EndOfTransaction
<1>10. CASE request' = [request EXCEPT ![h] = next]
  BY <1>2, <1>5, <1>6, <1>7, <1>8, <1>10, EndOfTransaction
<1>11. QED BY <1>3, <1>9, <1>10

\* A step that leaves the locks as they are, between two transactions.
LEMMA LocklessStep ==
    ASSUME IInv, NEW h \in Hooks, NEW r \in Request, Accounted(r), r.pc \notin Holding,
           request[h].pc \notin Holding, request' = [request EXCEPT ![h] = r], lock' = lock,
           incident' \in [Stems -> IncidentStates], UNCHANGED <<alert, faults>>
    PROVE  IInv'
<1>1. /\ request' \in [Hooks -> Request] /\ \A g \in Hooks : Accounted(request'[g])
      /\ request'[h] = r /\ \A g \in Hooks \ {h} : request'[g] = request[g]
  BY OneRequest
<1>2. HoldsOne'
  BY <1>1, LocksKept DEF IInv
<1>3. QED BY <1>1, <1>2 DEF IInv, TypeOK

LEMMA SignalStep ==
    ASSUME IInv, NEW h \in Hooks, NEW s \in Stems, signalWithStart(h, s)
    PROVE  IInv'
<1> DEFINE q == request[h]
           r == [q EXCEPT !.pc = "firing", !.stem = {}, !.handled = @ \cup {s}]
<1>1. q \in Request /\ Accounted(q) /\ request \in [Hooks -> Request]
  BY DEF IInv, TypeOK
<1>2. /\ q.pc = "signal" /\ s \in q.stem /\ incident' = [incident EXCEPT ![s] = Start(s)]
      /\ UNCHANGED <<alert, lock, faults>>
  BY DEF signalWithStart, At
<1>3. request' = [request EXCEPT ![h] = r]
  BY <1>1 DEF signalWithStart
<1>4. request[h].pc \notin Holding
  BY <1>2
<1> HIDE DEF q
<1>5. r \in Request /\ Accounted(r) /\ r.pc \notin Holding
  BY <1>1, <1>2, Handled
<1>6. incident' \in [Stems -> IncidentStates]
  BY <1>2, RowsAre
<1> HIDE DEF r
<1>7. QED BY <1>2, <1>3, <1>4, <1>5, <1>6, LocklessStep

\* The gate is behind every resolved identity, and before every firing one.
LEMMA GateStep ==
    ASSUME IInv, NEW h \in Hooks,
           \/ /\ At(h, "resolving") /\ request[h].todo = {}
              /\ request' = [request EXCEPT ![h].pc = "gate"]
              /\ UNCHANGED <<alert, lock, incident, faults>>
           \/ FireAll(h)
    PROVE  IInv'
<1> DEFINE q == request[h]
           before == [q EXCEPT !.pc = "gate"]
           after  == [q EXCEPT !.pc = "firing", !.todo = StemsOf(q.firing)]
<1>1. q \in Request /\ Accounted(q) /\ request \in [Hooks -> Request] /\ incident \in [Stems -> IncidentStates]
  BY DEF IInv, TypeOK
<1>2. q.pc \notin Holding /\ UNCHANGED <<alert, lock, incident, faults>>
  BY DEF FireAll, At
<1>3. \/ q.pc = "resolving" /\ q.todo = {} /\ request' = [request EXCEPT ![h] = before]
      \/ q.pc = "gate" /\ request' = [request EXCEPT ![h] = after]
  BY <1>1 DEF FireAll, At
<1> HIDE DEF q
<1>4. "gate" \in RequestPCs /\ "firing" \in RequestPCs
  BY DEF RequestPCs
<1>5. CASE q.pc = "resolving" /\ q.todo = {} /\ request' = [request EXCEPT ![h] = before]
  <2>1. before \in Request
    BY <1>1, <1>4 DEF Request
  <2>2. /\ before.pc = "gate" /\ before.stem = q.stem /\ before.errors = q.errors
        /\ before.resolved = q.resolved /\ before.closed = q.closed
    BY <1>1 DEF Request
  <2> HIDE DEF before
  <2>3. Accounted(before) /\ before.pc \notin Holding
    BY <1>1, <1>5, <2>2 DEF Accounted
  <2>4. QED BY <1>1, <1>2, <1>5, <2>1, <2>3, LocklessStep DEF q
<1>6. CASE q.pc = "gate" /\ request' = [request EXCEPT ![h] = after]
  <2>1. StemsOf(q.firing) \in SUBSET Stems
    BY <1>1, StemsOfAre DEF Request
  <2>2. after \in Request
    BY <1>1, <1>4, <2>1 DEF Request
  <2>3. /\ after.pc = "firing" /\ after.stem = q.stem /\ after.errors = q.errors
        /\ after.todo = StemsOf(q.firing) /\ after.firing = q.firing
        /\ after.resolved = q.resolved /\ after.closed = q.closed /\ after.handled = q.handled
    BY <1>1 DEF Request
  <2> HIDE DEF after
  <2>4. Accounted(after) /\ after.pc \notin Holding
    BY <1>1, <1>6, <2>3 DEF Accounted
  <2>5. QED BY <1>1, <1>2, <1>6, <2>2, <2>4, LocklessStep DEF q
<1>7. QED BY <1>3, <1>5, <1>6

LEMMA VerdictIs ==
    ASSUME IInv, NEW h \in Hooks
    PROVE  Verdict(h) \in {200, 500} /\ (Verdict(h) = 200 => ~request[h].errors)
<1>1. request[h].errors \in BOOLEAN
  BY DEF IInv, TypeOK, Request
<1>2. CASE request[h].errors
  BY <1>2 DEF Verdict
<1>3. CASE ~request[h].errors
  BY <1>3 DEF Verdict
<1>4. QED BY <1>2, <1>3

LEMMA ResolvedAlertsStep ==
    ASSUME IInv, NEW h \in Hooks, handleResolvedAlerts(h)
    PROVE  IInv'
<1>1. CASE Pick(h, "resolving", "resolveLock")
  BY <1>1, PickStep
<1>2. CASE AcquireStemLock(h, "resolveLock", "resolveUpdate")
  BY <1>2, AcquireStep
<1>3. ASSUME NEW s \in Stems, resolveByStem(h, s) PROVE IInv'
  BY <1>3, ResolveStep
<1>4. ASSUME ResolveFails(h) PROVE IInv'
  <2>1. PICK s \in Stems : \/ Fails(h, {"resolveLock"}, "resolving", s, incident[s])
                           \/ Fails(h, {"resolveUpdate"}, "resolving", s, MarkResolved(s))
    BY <1>4 DEF ResolveFails
  <2>2. incident[s] \in IncidentStates /\ MarkResolved(s) \in IncidentStates
    BY RowsAre
  <2>3. QED BY <2>1, <2>2, FailsStep
<1>5. ASSUME AllResolved(h) PROVE IInv'
  <2>1. request[h].pc \notin Holding
    BY <1>5 DEF AllResolved, At
  <2>2. CASE request[h].firing = {}
    <3>1. Answer(h, Verdict(h)) /\ UNCHANGED faults
      BY <1>5, <2>2 DEF AllResolved
    <3>2. QED BY <2>1, <3>1, AnswerStep, VerdictIs
  <2>3. CASE request[h].firing # {}
    BY <1>5, <2>3, GateStep DEF AllResolved
  <2>4. QED BY <2>2, <2>3
<1>6. QED BY <1>1, <1>2, <1>3, <1>4, <1>5 DEF handleResolvedAlerts

LEMMA FiringAlertsStep ==
    ASSUME IInv, NEW h \in Hooks, handleFiringAlerts(h)
    PROVE  IInv'
<1>1. CASE FireAll(h)
  BY <1>1, GateStep
<1>2. CASE Paused(h) \/ AllFired(h)
  <2>1. request[h].pc \notin Holding /\ Answer(h, Verdict(h)) /\ UNCHANGED faults
    BY <1>2 DEF Paused, AllFired, At
  <2>2. QED BY <2>1, AnswerStep, VerdictIs
<1>3. CASE Pick(h, "firing", "mintLock")
  BY <1>3, PickStep
<1>4. CASE AcquireStemLock(h, "mintLock", "mint")
  BY <1>4, AcquireStep
<1>5. ASSUME NEW s \in Stems, resolveWorkflowID(h, s) \/ signalWithStart(h, s) PROVE IInv'
  BY <1>5, MintStep, SignalStep
<1>6. ASSUME FiringFails(h) PROVE IInv'
  <2>1. PICK s \in Stems : \/ Fails(h, {"mintLock"}, "firing", s, incident[s])
                           \/ Fails(h, {"mint"}, "firing", s, Mint(s))
                           \/ Fails(h, {"signal"}, "firing", s, Start(s))
    BY <1>6 DEF FiringFails
  <2>2. incident[s] \in IncidentStates /\ Mint(s) \in IncidentStates /\ Start(s) \in IncidentStates
    BY RowsAre
  <2>3. QED BY <2>1, <2>2, FailsStep
<1>7. QED BY <1>1, <1>2, <1>3, <1>4, <1>5, <1>6 DEF handleFiringAlerts

LEMMA NextIInv == ASSUME IInv, [Next]_vars PROVE IInv'
<1>1. ASSUME NEW h \in Hooks, Notify(h) \/ handleResolvedAlerts(h) \/ handleFiringAlerts(h)
      PROVE  IInv'
  BY <1>1, NotifyStep, ResolvedAlertsStep, FiringAlertsStep
<1>2. CASE UNCHANGED vars
  BY <1>2 DEF vars, IInv, TypeOK, HoldsOne
<1>3. QED BY <1>1, <1>2, EnvironmentStep DEF Next

\* What a request still owes is with it, and the only lock it holds is that of the
\* identity in hand.
THEOREM GroupIInv == Spec => []IInv
<1>1. QED BY InitIInv, NextIInv, PTL DEF Spec

\* Every variable keeps its type.
THEOREM GroupTypeOK == Spec => []TypeOK
<1>1. IInv => TypeOK
  BY DEF IInv
<1>2. QED BY <1>1, GroupIInv, PTL

\* Alerts about one workload have one identity, so their incidents are one.
THEOREM GroupPodsShareIncident == Spec => []PodsShareIncident
<1>1. PodsShareIncident
  <2>1. ASSUME NEW a \in Alerts, NEW b \in Alerts, Workload[a] = Workload[b]
        PROVE  IdentityOf[a] = IdentityOf[b]
    <3>1. IdentityOf[a] = DeriveIdentity(Labels[a]) /\ IdentityOf[b] = DeriveIdentity(Labels[b])
      BY DEF IdentityOf
    <3>2. SameWorkload(Labels[a], Labels[b]) /\ IsLabels(Labels[a]) /\ IsLabels(Labels[b])
      BY <2>1, WorkloadAssumption, LabelsAssumption
    <3>3. QED BY <3>1, <3>2, SameIdentity
  <2>2. QED BY <2>1 DEF PodsShareIncident
<1>2. QED BY <1>1, PTL

\* No incident of the table answers to the workflow_id of another identity or another
\* attempt, whatever the labels of the two are.
THEOREM GroupWorkflowIdsDistinct == Spec => []WorkflowIdsDistinct
<1>1. WorkflowIdsDistinct
  BY NoneAmbiguous DEF WorkflowIdsDistinct
<1>2. QED BY <1>1, PTL

\* A request waits for a lock, or is gone, with no lock in its hands: requests that
\* take the locks of a group one after the other never wait for each other in a circle.
THEOREM GroupNoHoldAndWait ==
    Spec => [](\A h \in Hooks, s \in Stems :
                 request[h].pc \in {"idle", "resolveLock", "mintLock"} => lock[s] # h)
<1>1. IInv => \A h \in Hooks, s \in Stems :
                 request[h].pc \in {"idle", "resolveLock", "mintLock"} => lock[s] # h
  BY DEF IInv, HoldsOne
<1>2. QED BY <1>1, GroupIInv, PTL

\* The answer at the end of a request.
Concludes(h) ==
    /\ Answer(h, Verdict(h))
    /\ \/ At(h, "resolving") /\ request[h].todo = {}
       \/ At(h, "gate")
       \/ At(h, "firing") /\ request[h].todo = {}

LEMMA EndsByAnswer ==
    ASSUME IInv, NEW g \in Hooks, Notify(g) \/ handleResolvedAlerts(g) \/ handleFiringAlerts(g)
    PROVE  /\ \A h \in Hooks \ {g} : request'[h] = request[h]
           /\ request[g].pc = "idle" \/ request'[g].pc # "idle" \/ Concludes(g)
<1>1. request \in [Hooks -> Request] /\ request[g] \in Request
  BY DEF IInv, TypeOK
<1> DEFINE Goal == /\ \A h \in Hooks \ {g} : request'[h] = request[h]
                   /\ request[g].pc = "idle" \/ request'[g].pc # "idle" \/ Concludes(g)
<1>2. ASSUME NEW r, request' = [request EXCEPT ![g] = r], r.pc # "idle" PROVE Goal
  <2>1. request'[g] = r /\ \A h \in Hooks \ {g} : request'[h] = request[h]
    BY <1>1, <1>2
  <2>2. QED BY <1>2, <2>1
<1>3. ASSUME Concludes(g) PROVE Goal
  BY <1>1, <1>3 DEF Concludes, Answer
<1>4. ASSUME Notify(g) PROVE Goal
  BY <1>1, <1>4 DEF Notify
<1>5. ASSUME NEW from, NEW to, Pick(g, from, to), to # "idle" PROVE Goal
  <2>1. PICK s \in request[g].todo :
          request' = [request EXCEPT ![g] = [request[g] EXCEPT !.pc = to, !.stem = {s}, !.todo = @ \ {s}]]
    BY <1>5 DEF Pick
  <2>2. [request[g] EXCEPT !.pc = to, !.stem = {s}, !.todo = @ \ {s}].pc = to
    BY <1>1 DEF Request
  <2>3. QED BY <1>2, <1>5, <2>1, <2>2
<1>6. ASSUME NEW from, NEW to, AcquireStemLock(g, from, to), to # "idle" PROVE Goal
  <2>1. request' = [request EXCEPT ![g] = [request[g] EXCEPT !.pc = to]]
    BY <1>6 DEF AcquireStemLock
  <2>2. [request[g] EXCEPT !.pc = to].pc = to
    BY <1>1 DEF Request
  <2>3. QED BY <1>2, <1>6, <2>1, <2>2
<1>7. ASSUME NEW pcs, NEW to \in {"resolving", "firing"}, NEW s, NEW row, Fails(g, pcs, to, s, row)
      PROVE  Goal
  <2>1. request' = [request EXCEPT ![g] = [request[g] EXCEPT !.pc = to, !.stem = {}, !.errors = TRUE]]
    BY <1>7 DEF Fails
  <2>2. [request[g] EXCEPT !.pc = to, !.stem = {}, !.errors = TRUE].pc = to
    BY <1>1 DEF Request
  <2>3. QED BY <1>2, <2>1, <2>2
<1>8. ASSUME NEW s, resolveByStem(g, s) PROVE Goal
  <2>1. request' = [request EXCEPT ![g] = [request[g] EXCEPT !.pc = "resolving", !.stem = {},
                                                             !.closed = @ \cup {s}]]
    BY <1>8 DEF resolveByStem
  <2>2. [request[g] EXCEPT !.pc = "resolving", !.stem = {}, !.closed = @ \cup {s}].pc = "resolving"
    BY <1>1 DEF Request
  <2>3. QED BY <1>2, <2>1, <2>2
<1>9. ASSUME NEW s, resolveWorkflowID(g, s) PROVE Goal
  <2>1. \/ request' = [request EXCEPT ![g] = [request[g] EXCEPT !.pc = "firing", !.stem = {},
                                                                !.handled = @ \cup {s}]]
        \/ request' = [request EXCEPT ![g] = [request[g] EXCEPT !.pc = "signal"]]
    BY <1>9 DEF resolveWorkflowID
  <2>2. /\ [request[g] EXCEPT !.pc = "firing", !.stem = {}, !.handled = @ \cup {s}].pc = "firing"
        /\ [request[g] EXCEPT !.pc = "signal"].pc = "signal"
    BY <1>1 DEF Request
  <2>3. QED BY <1>2, <2>1, <2>2
<1>10. ASSUME NEW s, signalWithStart(g, s) PROVE Goal
  <2>1. request' = [request EXCEPT ![g] = [request[g] EXCEPT !.pc = "firing", !.stem = {},
                                                             !.handled = @ \cup {s}]]
    BY <1>10 DEF signalWithStart
  <2>2. [request[g] EXCEPT !.pc = "firing", !.stem = {}, !.handled = @ \cup {s}].pc = "firing"
    BY <1>1 DEF Request
  <2>3. QED BY <1>2, <2>1, <2>2
<1>11. ASSUME AllResolved(g) PROVE Goal
  <2>1. CASE request[g].firing = {}
    BY <1>3, <1>11, <2>1 DEF AllResolved, Concludes
  <2>2. CASE request[g].firing # {}
    <3>1. request' = [request EXCEPT ![g] = [request[g] EXCEPT !.pc = "gate"]]
      BY <1>11, <2>2 DEF AllResolved
    <3>2. [request[g] EXCEPT !.pc = "gate"].pc = "gate"
      BY <1>1 DEF Request
    <3>3. QED BY <1>2, <3>1, <3>2
  <2>3. QED BY <2>1, <2>2
<1>12. ASSUME FireAll(g) PROVE Goal
  <2>1. request' = [request EXCEPT ![g] = [request[g] EXCEPT !.pc = "firing",
                                                             !.todo = StemsOf(request[g].firing)]]
    BY <1>12 DEF FireAll
  <2>2. [request[g] EXCEPT !.pc = "firing", !.todo = StemsOf(request[g].firing)].pc = "firing"
    BY <1>1 DEF Request
  <2>3. QED BY <1>2, <2>1, <2>2
<1>13. ASSUME Paused(g) \/ AllFired(g) PROVE Goal
  BY <1>3, <1>13 DEF Paused, AllFired, Concludes
<1> HIDE DEF Goal
<1>14. ASSUME handleResolvedAlerts(g) PROVE Goal
  BY <1>5, <1>6, <1>7, <1>8, <1>11, <1>14 DEF handleResolvedAlerts, ResolveFails
<1>15. ASSUME handleFiringAlerts(g) PROVE Goal
  BY <1>5, <1>6, <1>7, <1>9, <1>10, <1>12, <1>13, <1>15 DEF handleFiringAlerts, FiringFails
<1>16. Goal
  BY <1>4, <1>14, <1>15
<1>17. QED BY <1>16 DEF Goal

\* A 200 owes nothing: there was no error, nothing is left to do and nothing is in hand,
\* so every resolved identity was closed and every firing one handled, unless triage was paused.
THEOREM GroupAnswersHonest == Spec => AnswersHonest
<1> DEFINE Honest(h) ==
      (request[h].pc # "idle" /\ request'[h].pc = "idle" /\ request'[h].code = 200) =>
          /\ StemsOf(request[h].resolved) \subseteq request[h].closed
          /\ request[h].pc = "firing" => StemsOf(request[h].firing) \subseteq request[h].handled
<1>1. ASSUME IInv, [Next]_vars, NEW h \in Hooks PROVE Honest(h)
  <2> SUFFICES ASSUME request[h].pc # "idle", request'[h].pc = "idle", request'[h].code = 200
               PROVE  /\ StemsOf(request[h].resolved) \subseteq request[h].closed
                      /\ request[h].pc = "firing" => StemsOf(request[h].firing) \subseteq request[h].handled
    OBVIOUS
  <2>1. Concludes(h)
    <3>1. request' # request
      OBVIOUS
    <3>2. PICK g \in Hooks : Notify(g) \/ handleResolvedAlerts(g) \/ handleFiringAlerts(g)
      BY <1>1, <3>1 DEF Next, vars, Fire, Resolve, FlapWindowPasses, OtherLocks, OtherUnlocks, ReapSession
    <3>3. /\ \A k \in Hooks \ {g} : request'[k] = request[k]
          /\ request[g].pc = "idle" \/ request'[g].pc # "idle" \/ Concludes(g)
      BY <1>1, <3>2, EndsByAnswer
    <3>4. h = g
      BY <3>3
    <3>5. QED BY <3>3, <3>4
  <2>2. request[h] \in Request /\ Accounted(request[h]) /\ request \in [Hooks -> Request]
    BY <1>1 DEF IInv, TypeOK
  <2>3. ~request[h].errors
    <3>1. request'[h] = Idle(Verdict(h))
      BY <2>1, <2>2 DEF Concludes, Answer
    <3>2. Verdict(h) = 200
      BY <3>1 DEF Idle
    <3>3. QED BY <1>1, <3>2, VerdictIs
  <2>4. request[h].pc = "gate" \/ (request[h].pc \in {"resolving", "firing"} /\ request[h].todo = {})
    BY <2>1 DEF Concludes, At
  <2>5. request[h].stem = {}
    BY <2>2, <2>4 DEF Accounted
  <2>6. QED BY <2>2, <2>3, <2>4, <2>5 DEF Accounted
<1>2. ASSUME IInv, [Next]_vars PROVE [\A h \in Hooks : Honest(h)]_vars
  BY <1>1, <1>2
<1>3. QED BY <1>2, GroupIInv, PTL DEF Spec, AnswersHonest
=============================================================================
