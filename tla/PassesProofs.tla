---------------------------- MODULE PassesProofs ----------------------------
(***************************************************************************)
(* That what a plan keeps by position is answered under the right name,    *)
(* that draws are made apart, that taps report one pass, and that what     *)
(* GraphConfig accepts is wired: for any models and objective, parameters, *)
(* batches, taps and sets of frozen parameters.                            *)
(***************************************************************************)
EXTENDS Passes, FiniteSetTheorems, WellFoundedInduction, TLAPS

-----------------------------------------------------------------------------
(* Sequences of anything.                                                  *)

Numbered(s) == \E S : s \in Seq(S)

(* Appending to a sequence numbers one more.                               *)
LEMMA NumberedAppend ==
    ASSUME NEW s, NEW e, Numbered(s)
    PROVE  /\ Numbered(Append(s, e)) /\ Len(s) \in Nat /\ DOMAIN s = 1..Len(s)
           /\ Len(Append(s, e)) = Len(s) + 1 /\ DOMAIN Append(s, e) = 1..(Len(s) + 1)
           /\ \A i \in 1..Len(s) : Append(s, e)[i] = s[i]
           /\ Append(s, e)[Len(s) + 1] = e
  <1>1. PICK S : s \in Seq(S)
    BY DEF Numbered
  <1>2. s \in Seq(S \cup {e}) /\ e \in S \cup {e}
    BY <1>1
  <1>3. Append(s, e) \in Seq(S \cup {e})
    BY <1>2
  <1>4. Numbered(Append(s, e))
    BY <1>3 DEF Numbered
  <1> QED  BY <1>2, <1>3, <1>4

LEMMA NumberedFacts ==
    ASSUME NEW s, Numbered(s)
    PROVE  Len(s) \in Nat /\ DOMAIN s = 1..Len(s)
  BY DEF Numbered

LEMMA EmptyIsNumbered == Numbered(<<>>) /\ Len(<<>>) = 0
  <1>1. <<>> \in Seq({})
    OBVIOUS
  <1> QED  BY <1>1 DEF Numbered

-----------------------------------------------------------------------------
(* Recurrences. *)

(* The least number there is of a set of them. *)
LEMMA LeastOf ==
    ASSUME NEW S \in SUBSET Nat, S # {}
    PROVE  \E j \in S : \A i \in S : j <= i
  <1> DEFINE R == OpToRel(<, Nat)
  <1>1. IsWellFoundedOn(R, Nat)
    BY NatLessThanWellFounded
  <1>2. \A x, y \in S : y < x => <<y, x>> \in R
    BY DEF OpToRel
  <1> HIDE DEF R
  <1>3. PICK j \in S : \A y \in S : ~ (<<y, j>> \in R)
    BY <1>1, WFMin
  <1>4. \A i \in S : ~ (i < j)
    BY <1>2, <1>3
  <1>5. \A i \in S : j <= i
    BY <1>4
  <1> QED  BY <1>5

(* What is so at 0, and at a number when it is at the one before, is so up *)
(* to n: the numbers are those of a set.                                   *)
LEMMA Reaches ==
    ASSUME NEW n \in Nat, NEW T, 0 \in T,
           \A k \in 1..n : k - 1 \in T => k \in T
    PROVE  \A k \in 0..n : k \in T
  <1> DEFINE Bad == {k \in 0..n : k \notin T}
  <1> SUFFICES ASSUME Bad # {}
               PROVE  FALSE
    OBVIOUS
  <1>0. Bad \in SUBSET Nat
    OBVIOUS
  <1>1. PICK k \in Bad : \A i \in Bad : k <= i
    <2> HIDE DEF Bad
    <2> QED  BY <1>0, LeastOf
  <1>2. k \in 1..n /\ k - 1 \in 0..n /\ ~ (k <= k - 1)
    BY <1>1
  <1>3. k - 1 \in T
    BY <1>1, <1>2
  <1> QED  BY <1>1, <1>2, <1>3

(* What is kept of the first places.                                       *)
KeptUpTo(s, S) ==
    CHOOSE upto : upto =
        [k \in 0..Len(s) |->
            IF k = 0 THEN <<>>
            ELSE IF s[k] \in S THEN Append(upto[k - 1], s[k]) ELSE upto[k - 1]]

LEMMA KeptRecurs ==
    ASSUME NEW s, NEW S, Len(s) \in Nat
    PROVE  /\ KeptUpTo(s, S)[0] = <<>>
           /\ \A k \in 1..Len(s) : KeptUpTo(s, S)[k] = (IF s[k] \in S THEN Append(KeptUpTo(s, S)[k - 1], s[k]) ELSE KeptUpTo(s, S)[k - 1])
  <1> DEFINE R(f, m) == f = [k \in 0..m |-> IF k = 0 THEN <<>> ELSE (IF s[k] \in S THEN Append(f[k - 1], s[k]) ELSE f[k - 1])]
             T == {m \in 0..Len(s) : \E f : R(f, m)}
  <1>1. 0 \in T
    <2> DEFINE f == [k \in 0..0 |-> <<>>]
    <2>1. f = [k \in 0..0 |-> f[k]] /\ f[0] = <<>>
      OBVIOUS
    <2>2. \A k \in 0..0 : f[k] = IF k = 0 THEN <<>> ELSE (IF s[k] \in S THEN Append(f[k - 1], s[k]) ELSE f[k - 1])
      BY <2>1
    <2> HIDE DEF f
    <2>3. R(f, 0)
      BY <2>1, <2>2, Zenon
    <2>4. 0 \in 0..Len(s)
      OBVIOUS
    <2> QED  BY <2>3, <2>4
  <1>2. ASSUME NEW m \in 1..Len(s), m - 1 \in T
        PROVE  m \in T
    <2>1. PICK f : R(f, m - 1)
      BY <1>2
    <2> DEFINE h == [k \in 0..m |-> IF k = m THEN (IF s[m] \in S THEN Append(f[m - 1], s[m]) ELSE f[m - 1]) ELSE f[k]]
    <2>2. h = [k \in 0..m |-> h[k]]
      OBVIOUS
    <2>3. \A k \in 0..m : h[k] = IF k = m THEN (IF s[m] \in S THEN Append(f[m - 1], s[m]) ELSE f[m - 1]) ELSE f[k]
      OBVIOUS
    <2>4. \A k \in 0..(m - 1) : f[k] = IF k = 0 THEN <<>> ELSE (IF s[k] \in S THEN Append(f[k - 1], s[k]) ELSE f[k - 1])
      BY <2>1, Zenon
    <2> HIDE DEF h, R
    <2>5. \A k \in 0..m : h[k] = IF k = 0 THEN <<>> ELSE (IF s[k] \in S THEN Append(h[k - 1], s[k]) ELSE h[k - 1])
      <3> SUFFICES ASSUME NEW k \in 0..m
                   PROVE  h[k] = IF k = 0 THEN <<>> ELSE (IF s[k] \in S THEN Append(h[k - 1], s[k]) ELSE h[k - 1])
        OBVIOUS
      <3>1. CASE k = 0
        <4>1. 0 \in 0..(m - 1) /\ 0 # m
          OBVIOUS
        <4>2. f[0] = <<>>
          BY <2>4, <4>1
        <4> QED  BY <2>3, <3>1, <4>1, <4>2
      <3>2. CASE k # 0
        <4>1. k - 1 \in 0..m /\ k - 1 # m
          BY <3>2
        <4>2. h[k - 1] = f[k - 1]
          BY <2>3, <4>1
        <4>3. h[k] = (IF s[k] \in S THEN Append(f[k - 1], s[k]) ELSE f[k - 1])
          <5>1. CASE k = m
            BY <2>3, <5>1
          <5>2. CASE k # m
            <6>1. k \in 0..(m - 1)
              BY <5>2
            <6>2. f[k] = (IF s[k] \in S THEN Append(f[k - 1], s[k]) ELSE f[k - 1])
              BY <2>4, <3>2, <6>1
            <6> QED  BY <2>3, <5>2, <6>2
          <5> QED  BY <5>1, <5>2
        <4> QED  BY <3>2, <4>2, <4>3
      <3> QED  BY <3>1, <3>2
    <2>6. R(h, m)
      BY <2>2, <2>5, Zenon DEF R
    <2> QED  BY <2>6
  <1>3. Len(s) \in T
    <2> HIDE DEF T
    <2>1. \A k \in 0..Len(s) : k \in T
      BY <1>1, <1>2, Reaches
    <2>2. Len(s) \in 0..Len(s)
      OBVIOUS
    <2> QED  BY <2>1, <2>2
  <1>4. PICK f : R(f, Len(s))
    BY <1>3
  <1>5. R(KeptUpTo(s, S), Len(s))
    BY <1>4 DEF KeptUpTo
  <1> HIDE DEF T
  <1>6. \A k \in 0..Len(s) : KeptUpTo(s, S)[k] = IF k = 0 THEN <<>> ELSE (IF s[k] \in S THEN Append(KeptUpTo(s, S)[k - 1], s[k]) ELSE KeptUpTo(s, S)[k - 1])
    BY <1>5, Zenon
  <1>7. 0 \in 0..Len(s) /\ \A k \in 1..Len(s) : k \in 0..Len(s) /\ k # 0
    OBVIOUS
  <1> HIDE DEF R
  <1> QED  BY <1>6, <1>7, Zenon

(* What is kept of a sequence is what it has of S, and each place of it    *)
(* once.                                                                   *)
LEMMA KeptFacts ==
    ASSUME NEW s, NEW S, Numbered(s)
    PROVE  /\ Numbered(Kept(s, S))
           /\ \A j \in DOMAIN Kept(s, S) :
                  Kept(s, S)[j] \in S /\ \E i \in DOMAIN s : Kept(s, S)[j] = s[i]
           /\ \A i \in DOMAIN s : s[i] \in S => \E j \in DOMAIN Kept(s, S) : Kept(s, S)[j] = s[i]
           /\ IsInjective(s) => IsInjective(Kept(s, S))
  <1> DEFINE n == Len(s)  u == KeptUpTo(s, S)
             OfS(k)   == \A j \in DOMAIN u[k] : u[k][j] \in S /\ \E i \in 1..k : u[k][j] = s[i]
             AllOf(k) == \A i \in 1..k : s[i] \in S => \E j \in DOMAIN u[k] : u[k][j] = s[i]
             Once(k)  == \A i, j \in DOMAIN u[k] : u[k][i] = u[k][j] => i = j
             Good(k)  == Numbered(u[k]) /\ OfS(k) /\ AllOf(k) /\ (IsInjective(s) => Once(k))
             T == {k \in 0..n : Good(k)}
  <1>1. n \in Nat /\ DOMAIN s = 1..n
    BY NumberedFacts
  <1>2. u[0] = <<>> /\ \A k \in 1..n : u[k] = IF s[k] \in S THEN Append(u[k - 1], s[k]) ELSE u[k - 1]
    BY <1>1, KeptRecurs
  <1>3. 0 \in T
    BY <1>1, <1>2, EmptyIsNumbered
  <1>4. ASSUME NEW k \in 1..n, k - 1 \in T
        PROVE  k \in T
    <2> DEFINE v == u[k - 1]
    <2>1. k - 1 \in 0..n /\ Good(k - 1)
      BY <1>4
    <2>2. \A i \in 1..k : i # k => i \in 1..(k - 1)
      OBVIOUS
    <2>3. \A i \in 1..(k - 1) : i \in 1..k /\ i \in DOMAIN s /\ i # k
      BY <1>1
    <2>4. CASE s[k] \notin S
      <3>1. u[k] = v
        BY <1>2, <2>4
      <3>2. OfS(k) /\ AllOf(k)
        <4> HIDE DEF u
        <4> QED  BY <2>1, <2>2, <2>3, <2>4, <3>1
      <3> HIDE DEF u
      <3> QED  BY <2>1, <3>1, <3>2
    <2>5. CASE s[k] \in S
      <3>1. u[k] = Append(v, s[k])
        BY <1>2, <2>5
      <3> HIDE DEF u, v
      <3>2. /\ Numbered(u[k]) /\ Len(v) \in Nat /\ DOMAIN v = 1..Len(v)
            /\ DOMAIN u[k] = 1..(Len(v) + 1)
            /\ \A i \in 1..Len(v) : u[k][i] = v[i]
            /\ u[k][Len(v) + 1] = s[k]
        <4>1. Numbered(v)
          BY <2>1 DEF v
        <4> QED  BY <3>1, <4>1, NumberedAppend
      <3>3. OfS(k)
        <4> SUFFICES ASSUME NEW j \in DOMAIN u[k]
                     PROVE  u[k][j] \in S /\ \E i \in 1..k : u[k][j] = s[i]
          OBVIOUS
        <4>1. CASE j = Len(v) + 1
          BY <2>5, <3>2, <4>1
        <4>2. CASE j # Len(v) + 1
          <5>1. j \in DOMAIN v /\ u[k][j] = v[j]
            BY <3>2, <4>2
          <5>2. v[j] \in S /\ \E i \in 1..(k - 1) : v[j] = s[i]
            BY <2>1, <5>1 DEF v
          <5> QED  BY <2>3, <5>1, <5>2
        <4> QED  BY <4>1, <4>2
      <3>4. AllOf(k)
        <4> SUFFICES ASSUME NEW i \in 1..k, s[i] \in S
                     PROVE  \E j \in DOMAIN u[k] : u[k][j] = s[i]
          OBVIOUS
        <4>1. CASE i = k
          BY <3>2, <4>1
        <4>2. CASE i # k
          <5>1. PICK j \in DOMAIN v : v[j] = s[i]
            BY <2>1, <2>2, <4>2 DEF v
          <5> QED  BY <3>2, <5>1
        <4> QED  BY <4>1, <4>2
      <3>5. ASSUME IsInjective(s) PROVE Once(k)
        <4>1. \A i, j \in DOMAIN s : s[i] = s[j] => i = j
          BY <3>5 DEF IsInjective
        <4>2. \A j \in 1..Len(v) : v[j] # s[k]
          <5> SUFFICES ASSUME NEW j \in 1..Len(v), v[j] = s[k]
                       PROVE  FALSE
            OBVIOUS
          <5>1. PICK i \in 1..(k - 1) : v[j] = s[i]
            BY <2>1, <3>2 DEF v
          <5>2. i \in DOMAIN s /\ k \in DOMAIN s /\ i # k
            BY <1>1, <2>3
          <5> QED  BY <4>1, <5>1, <5>2
        <4>3. \A i, j \in 1..Len(v) : v[i] = v[j] => i = j
          BY <2>1, <3>2, <3>5 DEF v
        <4>4. \A i \in DOMAIN u[k] : i = Len(v) + 1 \/ i \in 1..Len(v)
          BY <3>2
        <4> QED  BY <3>2, <4>2, <4>3, <4>4
      <3>6. Good(k) /\ k \in 0..n
        <4> HIDE DEF OfS, AllOf, Once
        <4> QED  BY <1>1, <3>2, <3>3, <3>4, <3>5
      <3> QED  BY <3>6
    <2> QED  BY <2>4, <2>5
  <1>5. n \in T
    <2>1. \A k \in 0..n : k \in T
      <3> HIDE DEF T, n
      <3> QED  BY <1>1, <1>3, <1>4, Reaches
    <2> QED  BY <1>1, <2>1
  <1>6. Kept(s, S) = u[n]
    BY DEF Kept, KeptUpTo
  <1> HIDE DEF u, n
  <1> QED  BY <1>1, <1>5, <1>6 DEF IsInjective

(* The names there are, in order.                                          *)
LEMMA InOrderFacts ==
    ASSUME NEW S, S \subseteq Range(Names)
    PROVE  /\ Numbered(InOrder(S)) /\ IsInjective(InOrder(S))
           /\ \A j \in DOMAIN InOrder(S) : InOrder(S)[j] \in S
           /\ \A x \in S : \E j \in DOMAIN InOrder(S) : InOrder(S)[j] = x
  <1>1. Numbered(Names) /\ IsInjective(Names)
    BY NamesAssumption DEF Numbered, IsSequence
  <1>2. \A x \in S : \E i \in DOMAIN Names : Names[i] = x
    BY DEF Range
  <1> QED  BY <1>1, <1>2, KeptFacts DEF InOrder

LEMMA FirstFacts ==
    ASSUME NEW S, S \subseteq Range(Names), S # {}
    PROVE  First(S) \in S
  <1>1. PICK x \in S : TRUE
    OBVIOUS
  <1>2. \E j \in DOMAIN InOrder(S) : InOrder(S)[j] = x
    BY InOrderFacts
  <1>3. Len(InOrder(S)) \in Nat /\ DOMAIN InOrder(S) = 1..Len(InOrder(S))
    BY InOrderFacts, NumberedFacts
  <1>4. 1 \in DOMAIN InOrder(S)
    BY <1>2, <1>3
  <1> QED  BY <1>4, InOrderFacts DEF First

(* The parameters of the first models.                                     *)
LaidUpTo(names) ==
    CHOOSE upto : upto = [k \in 0..Len(names) |-> IF k = 0 THEN <<>> ELSE upto[k - 1] \o Own(names[k])]

LEMMA LaidRecurs ==
    ASSUME NEW names, Len(names) \in Nat
    PROVE  /\ LaidUpTo(names)[0] = <<>>
           /\ \A k \in 1..Len(names) : LaidUpTo(names)[k] = (LaidUpTo(names)[k - 1] \o Own(names[k]))
  <1> DEFINE R(f, m) == f = [k \in 0..m |-> IF k = 0 THEN <<>> ELSE (f[k - 1] \o Own(names[k]))]
             T == {m \in 0..Len(names) : \E f : R(f, m)}
  <1>1. 0 \in T
    <2> DEFINE f == [k \in 0..0 |-> <<>>]
    <2>1. f = [k \in 0..0 |-> f[k]] /\ f[0] = <<>>
      OBVIOUS
    <2>2. \A k \in 0..0 : f[k] = IF k = 0 THEN <<>> ELSE (f[k - 1] \o Own(names[k]))
      BY <2>1
    <2> HIDE DEF f
    <2>3. R(f, 0)
      BY <2>1, <2>2, Zenon
    <2>4. 0 \in 0..Len(names)
      OBVIOUS
    <2> QED  BY <2>3, <2>4
  <1>2. ASSUME NEW m \in 1..Len(names), m - 1 \in T
        PROVE  m \in T
    <2>1. PICK f : R(f, m - 1)
      BY <1>2
    <2> DEFINE h == [k \in 0..m |-> IF k = m THEN (f[m - 1] \o Own(names[m])) ELSE f[k]]
    <2>2. h = [k \in 0..m |-> h[k]]
      OBVIOUS
    <2>3. \A k \in 0..m : h[k] = IF k = m THEN (f[m - 1] \o Own(names[m])) ELSE f[k]
      OBVIOUS
    <2>4. \A k \in 0..(m - 1) : f[k] = IF k = 0 THEN <<>> ELSE (f[k - 1] \o Own(names[k]))
      BY <2>1, Zenon
    <2> HIDE DEF h, R
    <2>5. \A k \in 0..m : h[k] = IF k = 0 THEN <<>> ELSE (h[k - 1] \o Own(names[k]))
      <3> SUFFICES ASSUME NEW k \in 0..m
                   PROVE  h[k] = IF k = 0 THEN <<>> ELSE (h[k - 1] \o Own(names[k]))
        OBVIOUS
      <3>1. CASE k = 0
        <4>1. 0 \in 0..(m - 1) /\ 0 # m
          OBVIOUS
        <4>2. f[0] = <<>>
          BY <2>4, <4>1
        <4> QED  BY <2>3, <3>1, <4>1, <4>2
      <3>2. CASE k # 0
        <4>1. k - 1 \in 0..m /\ k - 1 # m
          BY <3>2
        <4>2. h[k - 1] = f[k - 1]
          BY <2>3, <4>1
        <4>3. h[k] = (f[k - 1] \o Own(names[k]))
          <5>1. CASE k = m
            BY <2>3, <5>1
          <5>2. CASE k # m
            <6>1. k \in 0..(m - 1)
              BY <5>2
            <6>2. f[k] = (f[k - 1] \o Own(names[k]))
              BY <2>4, <3>2, <6>1
            <6> QED  BY <2>3, <5>2, <6>2
          <5> QED  BY <5>1, <5>2
        <4> QED  BY <3>2, <4>2, <4>3
      <3> QED  BY <3>1, <3>2
    <2>6. R(h, m)
      BY <2>2, <2>5, Zenon DEF R
    <2> QED  BY <2>6
  <1>3. Len(names) \in T
    <2> HIDE DEF T
    <2>1. \A k \in 0..Len(names) : k \in T
      BY <1>1, <1>2, Reaches
    <2>2. Len(names) \in 0..Len(names)
      OBVIOUS
    <2> QED  BY <2>1, <2>2
  <1>4. PICK f : R(f, Len(names))
    BY <1>3
  <1>5. R(LaidUpTo(names), Len(names))
    BY <1>4 DEF LaidUpTo
  <1> HIDE DEF T
  <1>6. \A k \in 0..Len(names) : LaidUpTo(names)[k] = IF k = 0 THEN <<>> ELSE (LaidUpTo(names)[k - 1] \o Own(names[k]))
    BY <1>5, Zenon
  <1>7. 0 \in 0..Len(names) /\ \A k \in 1..Len(names) : k \in 0..Len(names) /\ k # 0
    OBVIOUS
  <1> HIDE DEF R
  <1> QED  BY <1>6, <1>7, Zenon

LEMMA ConcatFacts ==
    ASSUME NEW s, NEW t, Numbered(s), Numbered(t)
    PROVE  /\ Numbered(s \o t) /\ Len(s \o t) = Len(s) + Len(t)
           /\ DOMAIN (s \o t) = 1..(Len(s) + Len(t))
           /\ \A i \in 1..Len(s) : (s \o t)[i] = s[i]
           /\ \A i \in 1..Len(t) : (s \o t)[Len(s) + i] = t[i]
  <1>1. PICK S : s \in Seq(S)
    BY DEF Numbered
  <1>2. PICK R : t \in Seq(R)
    BY DEF Numbered
  <1>3. s \in Seq(S \cup R) /\ t \in Seq(S \cup R)
    BY <1>1, <1>2
  <1>4. s \o t \in Seq(S \cup R)
    BY <1>3
  <1>5. Numbered(s \o t)
    BY <1>4 DEF Numbered
  <1> QED  BY <1>3, <1>5

(* What a session was opened with is a description.                        *)
Described == \E o \in Openings : config = o.config /\ source = o.source

LEMMA GraphFacts ==
    ASSUME NEW graph, AGraph(graph)
    PROVE  /\ Numbered(graph.inputs) /\ Numbered(graph.params) /\ Numbered(graph.nodes)
           /\ Len(graph.nodes) \in Nat /\ DOMAIN graph.nodes = 1..Len(graph.nodes)
           /\ Len(graph.params) \in Nat /\ DOMAIN graph.params = 1..Len(graph.params)
           /\ Len(graph.inputs) \in Nat /\ DOMAIN graph.inputs = 1..Len(graph.inputs)
  <1>1. /\ Numbered(graph.inputs) /\ Numbered(graph.params) /\ Numbered(graph.nodes)
    BY DEF AGraph, IsSequence, Numbered
  <1> QED  BY <1>1, NumberedFacts

LEMMA DescribedFacts ==
    ASSUME Described
    PROVE  /\ DOMAIN config.models \subseteq Range(Names)
           /\ \A m \in DOMAIN config.models : AGraph(config.models[m])
           /\ config.objective = NoObjective \/ AGraph(config.objective)
  BY OpeningsAssumption DEF Described

(* A function on the first numbers is a sequence.                          *)
LEMMA IndexedIsNumbered ==
    ASSUME NEW n \in Nat, NEW f, f = [i \in 1..n |-> f[i]]
    PROVE  Numbered(f) /\ Len(f) = n /\ DOMAIN f = 1..n
  <1> DEFINE S == {f[i] : i \in 1..n}
  <1>1. \A i \in 1..n : f[i] \in S
    OBVIOUS
  <1>2. DOMAIN f = 1..n
    OBVIOUS
  <1> HIDE DEF S
  <1>3. f \in [1..n -> S]
    BY <1>1
  <1>4. f \in Seq(S) /\ Len(f) = n
    BY <1>3
  <1>5. Numbered(f)
    BY <1>4 DEF Numbered
  <1> QED  BY <1>2, <1>4, <1>5

LEMMA OwnFacts ==
    ASSUME Described, NEW m \in DOMAIN config.models
    PROVE  /\ Numbered(Own(m)) /\ Len(Own(m)) = Len(config.models[m].params)
           /\ Len(Own(m)) \in Nat
           /\ \A i \in 1..Len(config.models[m].params) :
                  Own(m)[i].path = qualified(m, config.models[m].params[i].path)
  <1> DEFINE n == Len(config.models[m].params)  f == Own(m)
  <1>1. n \in Nat /\ DOMAIN config.models[m].params = 1..n
    BY DescribedFacts, GraphFacts
  <1>2. f = [i \in 1..n |-> f[i]]
    BY <1>1 DEF Own
  <1>3. \A i \in 1..n : f[i].path = qualified(m, config.models[m].params[i].path)
    BY <1>1 DEF Own
  <1> HIDE DEF n, f
  <1>4. Numbered(f) /\ Len(f) = n
    BY <1>1, <1>2, IndexedIsNumbered
  <1> QED  BY <1>1, <1>3, <1>4 DEF n, f

ModelNames == InOrder(DOMAIN config.models)

LEMMA ModelNamesFacts ==
    ASSUME Described
    PROVE  /\ Numbered(ModelNames) /\ IsInjective(ModelNames)
           /\ Len(ModelNames) \in Nat /\ DOMAIN ModelNames = 1..Len(ModelNames)
           /\ \A p \in 1..Len(ModelNames) : ModelNames[p] \in DOMAIN config.models
           /\ \A m \in DOMAIN config.models : \E p \in 1..Len(ModelNames) : ModelNames[p] = m
           /\ DOMAIN config.models # {} => Len(ModelNames) >= 1
  <1>1. Numbered(ModelNames)
    BY DescribedFacts, InOrderFacts DEF ModelNames
  <1>2. Len(ModelNames) \in Nat /\ DOMAIN ModelNames = 1..Len(ModelNames)
    BY <1>1, NumberedFacts
  <1>3. \A m \in DOMAIN config.models : \E p \in 1..Len(ModelNames) : ModelNames[p] = m
    BY <1>2, DescribedFacts, InOrderFacts DEF ModelNames
  <1>4. /\ IsInjective(ModelNames)
        /\ \A p \in 1..Len(ModelNames) : ModelNames[p] \in DOMAIN config.models
    BY <1>2, DescribedFacts, InOrderFacts DEF ModelNames
  <1> QED  BY <1>1, <1>2, <1>3, <1>4

(* A model's parameters are in the list of all of them, from its start on. *)
LEMMA LaidFacts ==
    ASSUME Described
    PROVE  LET n == Len(ModelNames)  all == Laid(ModelNames, n)
           IN  /\ Numbered(all)
               /\ \A p \in 1..n :
                      LET start == Len(Laid(ModelNames, p - 1))
                          params_of_p == config.models[ModelNames[p]].params
                      IN  /\ start \in Nat
                          /\ \A i \in 1..Len(params_of_p) :
                                 /\ start + i \in DOMAIN all
                                 /\ all[start + i].path =
                                        qualified(ModelNames[p], params_of_p[i].path)
  <1> DEFINE n == Len(ModelNames)  u == LaidUpTo(ModelNames)
             Declared(p) == Len(config.models[ModelNames[p]].params)
             Path(p, i)  == qualified(ModelNames[p], config.models[ModelNames[p]].params[i].path)
  <1>1. n \in Nat /\ \A p \in 1..n : ModelNames[p] \in DOMAIN config.models
    BY ModelNamesFacts
  <1>2. u[0] = <<>> /\ \A k \in 1..n : u[k] = u[k - 1] \o Own(ModelNames[k])
    BY <1>1, LaidRecurs
  <1>3. \A p \in 1..n : /\ Numbered(Own(ModelNames[p])) /\ Len(Own(ModelNames[p])) = Declared(p)
                        /\ Declared(p) \in Nat
                        /\ \A i \in 1..Declared(p) : Own(ModelNames[p])[i].path = Path(p, i)
    BY <1>1, OwnFacts
  <1>4. \A k \in 0..n : Laid(ModelNames, k) = u[k]
    BY DEF Laid, LaidUpTo, n, u
  <1> DEFINE There(k) == \A p \in 1..k : \A i \in 1..Declared(p) :
                             /\ Len(u[p - 1]) + i \in 1..Len(u[k])
                             /\ u[k][Len(u[p - 1]) + i].path = Path(p, i)
             T == {k \in 0..n : /\ \A p \in 0..k : Numbered(u[p]) /\ Len(u[p]) \in Nat
                                /\ There(k)}
  <1> HIDE DEF u, n, Declared, Path
  <1>5. 0 \in T
    BY <1>1, <1>2, EmptyIsNumbered
  <1>6. ASSUME NEW k \in 1..n, k - 1 \in T
        PROVE  k \in T
    <2> DEFINE v == u[k - 1]  w == Own(ModelNames[k])
    <2>1. /\ \A p \in 0..(k - 1) : Numbered(u[p]) /\ Len(u[p]) \in Nat
          /\ There(k - 1)
      BY <1>6
    <2>2. k - 1 \in 0..(k - 1) /\ k \in 0..n
      BY <1>1
    <2>3. Numbered(v) /\ Len(v) \in Nat
      BY <2>1, <2>2
    <2>4. /\ Numbered(w) /\ Len(w) = Declared(k) /\ Declared(k) \in Nat
          /\ \A i \in 1..Declared(k) : w[i].path = Path(k, i)
      BY <1>3
    <2>5. u[k] = v \o w
      BY <1>2
    <2> HIDE DEF v, w
    <2>6. /\ Numbered(u[k]) /\ Len(u[k]) = Len(v) + Len(w)
          /\ \A i \in 1..Len(v) : u[k][i] = v[i]
          /\ \A i \in 1..Len(w) : u[k][Len(v) + i] = w[i]
      BY <2>3, <2>4, <2>5, ConcatFacts
    <2>7. \A p \in 0..k : Numbered(u[p]) /\ Len(u[p]) \in Nat
      <3>1. \A p \in 0..k : p = k \/ p \in 0..(k - 1)
        OBVIOUS
      <3> QED  BY <2>1, <2>3, <2>4, <2>6, <3>1
    <2>8. There(k)
      <3> SUFFICES ASSUME NEW p \in 1..k, NEW i \in 1..Declared(p)
                   PROVE  /\ Len(u[p - 1]) + i \in 1..Len(u[k])
                          /\ u[k][Len(u[p - 1]) + i].path = Path(p, i)
        OBVIOUS
      <3>1. CASE p = k
        <4>1. Len(u[p - 1]) = Len(v) /\ i \in 1..Len(w)
          BY <2>4, <3>1 DEF v
        <4> QED  BY <2>3, <2>4, <2>6, <3>1, <4>1
      <3>2. CASE p # k
        <4>1. p \in 1..(k - 1)
          BY <3>2
        <4>2. Len(u[p - 1]) + i \in 1..Len(v) /\ v[Len(u[p - 1]) + i].path = Path(p, i)
          BY <2>1, <4>1 DEF v
        <4> QED  BY <2>3, <2>4, <2>6, <4>2
      <3> QED  BY <3>1, <3>2
    <2> HIDE DEF There
    <2> QED  BY <2>2, <2>7, <2>8
  <1>7. n \in T
    <2>1. \A k \in 0..n : k \in T
      <3> HIDE DEF T
      <3> QED  BY <1>1, <1>5, <1>6, Reaches
    <2> QED  BY <1>1, <2>1
  <1>8. Numbered(u[n]) /\ Len(u[n]) \in Nat /\ There(n) /\ \A p \in 0..n : Len(u[p]) \in Nat
    BY <1>1, <1>7
  <1>9. DOMAIN u[n] = 1..Len(u[n])
    BY <1>8, NumberedFacts
  <1>10. \A p \in 1..n : p - 1 \in 0..n
    BY <1>1
  <1>11. Laid(ModelNames, n) = u[n] /\ \A p \in 1..n : Laid(ModelNames, p - 1) = u[p - 1]
    BY <1>1, <1>4, <1>10
  <1>12. \A p \in 1..n : /\ Len(u[p - 1]) \in Nat
                         /\ \A i \in 1..Declared(p) :
                                /\ Len(u[p - 1]) + i \in DOMAIN u[n]
                                /\ u[n][Len(u[p - 1]) + i].path = Path(p, i)
    BY <1>8, <1>9, <1>10
  <1> QED  BY <1>8, <1>11, <1>12 DEF n, Declared, Path

(* The first nodes of a graph.                                             *)
RunUpTo(program, mine, ins, key0) ==
    CHOOSE upto : upto =
        [i \in 0..Len(program.nodes) |->
            IF i = 0 THEN [values |-> <<>>, draws |-> <<>>, key |-> key0]
            ELSE AfterNode(upto[i - 1], program.nodes[i], mine, ins)]

LEMMA RunRecurs ==
    ASSUME NEW program, NEW mine, NEW ins, NEW key0, Len(program.nodes) \in Nat
    PROVE  /\ RunUpTo(program, mine, ins, key0)[0] = [values |-> <<>>, draws |-> <<>>, key |-> key0]
           /\ \A k \in 1..Len(program.nodes) : RunUpTo(program, mine, ins, key0)[k] = AfterNode(RunUpTo(program, mine, ins, key0)[k - 1], program.nodes[k], mine, ins)
  <1> DEFINE R(f, m) == f = [k \in 0..m |-> IF k = 0 THEN [values |-> <<>>, draws |-> <<>>, key |-> key0] ELSE AfterNode(f[k - 1], program.nodes[k], mine, ins)]
             T == {m \in 0..Len(program.nodes) : \E f : R(f, m)}
  <1>1. 0 \in T
    <2> DEFINE f == [k \in 0..0 |-> [values |-> <<>>, draws |-> <<>>, key |-> key0]]
    <2>1. f = [k \in 0..0 |-> f[k]] /\ f[0] = [values |-> <<>>, draws |-> <<>>, key |-> key0]
      OBVIOUS
    <2>2. \A k \in 0..0 : f[k] = IF k = 0 THEN [values |-> <<>>, draws |-> <<>>, key |-> key0] ELSE AfterNode(f[k - 1], program.nodes[k], mine, ins)
      BY <2>1
    <2> HIDE DEF f
    <2>3. R(f, 0)
      BY <2>1, <2>2, Zenon
    <2>4. 0 \in 0..Len(program.nodes)
      OBVIOUS
    <2> QED  BY <2>3, <2>4
  <1>2. ASSUME NEW m \in 1..Len(program.nodes), m - 1 \in T
        PROVE  m \in T
    <2>1. PICK f : R(f, m - 1)
      BY <1>2
    <2> DEFINE h == [k \in 0..m |-> IF k = m THEN AfterNode(f[m - 1], program.nodes[m], mine, ins) ELSE f[k]]
    <2>2. h = [k \in 0..m |-> h[k]]
      OBVIOUS
    <2>3. \A k \in 0..m : h[k] = IF k = m THEN AfterNode(f[m - 1], program.nodes[m], mine, ins) ELSE f[k]
      OBVIOUS
    <2>4. \A k \in 0..(m - 1) : f[k] = IF k = 0 THEN [values |-> <<>>, draws |-> <<>>, key |-> key0] ELSE AfterNode(f[k - 1], program.nodes[k], mine, ins)
      BY <2>1, Zenon
    <2> HIDE DEF h, R
    <2>5. \A k \in 0..m : h[k] = IF k = 0 THEN [values |-> <<>>, draws |-> <<>>, key |-> key0] ELSE AfterNode(h[k - 1], program.nodes[k], mine, ins)
      <3> SUFFICES ASSUME NEW k \in 0..m
                   PROVE  h[k] = IF k = 0 THEN [values |-> <<>>, draws |-> <<>>, key |-> key0] ELSE AfterNode(h[k - 1], program.nodes[k], mine, ins)
        OBVIOUS
      <3>1. CASE k = 0
        <4>1. 0 \in 0..(m - 1) /\ 0 # m
          OBVIOUS
        <4>2. f[0] = [values |-> <<>>, draws |-> <<>>, key |-> key0]
          BY <2>4, <4>1
        <4> QED  BY <2>3, <3>1, <4>1, <4>2
      <3>2. CASE k # 0
        <4>1. k - 1 \in 0..m /\ k - 1 # m
          BY <3>2
        <4>2. h[k - 1] = f[k - 1]
          BY <2>3, <4>1
        <4>3. h[k] = AfterNode(f[k - 1], program.nodes[k], mine, ins)
          <5>1. CASE k = m
            BY <2>3, <5>1
          <5>2. CASE k # m
            <6>1. k \in 0..(m - 1)
              BY <5>2
            <6>2. f[k] = AfterNode(f[k - 1], program.nodes[k], mine, ins)
              BY <2>4, <3>2, <6>1
            <6> QED  BY <2>3, <5>2, <6>2
          <5> QED  BY <5>1, <5>2
        <4> QED  BY <3>2, <4>2, <4>3
      <3> QED  BY <3>1, <3>2
    <2>6. R(h, m)
      BY <2>2, <2>5, Zenon DEF R
    <2> QED  BY <2>6
  <1>3. Len(program.nodes) \in T
    <2> HIDE DEF T
    <2>1. \A k \in 0..Len(program.nodes) : k \in T
      BY <1>1, <1>2, Reaches
    <2>2. Len(program.nodes) \in 0..Len(program.nodes)
      OBVIOUS
    <2> QED  BY <2>1, <2>2
  <1>4. PICK f : R(f, Len(program.nodes))
    BY <1>3
  <1>5. R(RunUpTo(program, mine, ins, key0), Len(program.nodes))
    BY <1>4 DEF RunUpTo
  <1> HIDE DEF T
  <1>6. \A k \in 0..Len(program.nodes) : RunUpTo(program, mine, ins, key0)[k] = IF k = 0 THEN [values |-> <<>>, draws |-> <<>>, key |-> key0] ELSE AfterNode(RunUpTo(program, mine, ins, key0)[k - 1], program.nodes[k], mine, ins)
    BY <1>5, Zenon
  <1>7. 0 \in 0..Len(program.nodes) /\ \A k \in 1..Len(program.nodes) : k \in 0..Len(program.nodes) /\ k # 0
    OBVIOUS
  <1> HIDE DEF R
  <1> QED  BY <1>6, <1>7, Zenon

(* Of a key: its length, and which of the splits that led to it were       *)
(* handed out.                                                             *)
KeyIs(k, len, S) ==
    /\ k \in Seq({0, 1}) /\ Len(k) = len
    /\ S \subseteq 1..len
    /\ \A i \in 1..len : k[i] = 1 <=> i \in S

LEMMA SplitFacts ==
    ASSUME NEW k, NEW len \in Nat, NEW S, KeyIs(k, len, S)
    PROVE  /\ KeyIs(Next0(k), len + 1, S)
           /\ KeyIs(Mine(k), len + 1, S \cup {len + 1})
           /\ k # NoKey
  <1>1. k \in Seq({0, 1}) /\ Len(k) = len /\ S \subseteq 1..len
    BY DEF KeyIs
  <1>2. \A i \in 1..len : k[i] = 1 <=> i \in S
    BY DEF KeyIs
  <1>3. \A b \in {0, 1} : /\ Append(k, b) \in Seq({0, 1}) /\ Len(Append(k, b)) = len + 1
                          /\ \A i \in 1..len : Append(k, b)[i] = k[i]
                          /\ Append(k, b)[len + 1] = b
    BY <1>1
  <1>4. \A i \in 1..(len + 1) : i = len + 1 \/ i \in 1..len
    OBVIOUS
  <1>5. len + 1 \notin S /\ \A i \in 1..len : i # len + 1 /\ i \in 1..(len + 1)
    BY <1>1
  <1>6. KeyIs(Next0(k), len + 1, S)
    <2>1. Next0(k) = Append(k, 0)
      BY DEF Next0
    <2>2. \A i \in 1..(len + 1) : Next0(k)[i] = 1 <=> i \in S
      BY <1>2, <1>3, <1>4, <1>5, <2>1
    <2> QED  BY <1>1, <1>3, <1>5, <2>1, <2>2 DEF KeyIs
  <1>7. KeyIs(Mine(k), len + 1, S \cup {len + 1})
    <2>1. Mine(k) = Append(k, 1)
      BY DEF Mine
    <2>2. \A i \in 1..(len + 1) : Mine(k)[i] = 1 <=> i \in S \cup {len + 1}
      BY <1>2, <1>3, <1>4, <1>5, <2>1
    <2>3. S \cup {len + 1} \subseteq 1..(len + 1)
      BY <1>1
    <2> QED  BY <1>3, <2>1, <2>2, <2>3 DEF KeyIs
  <1>8. k # NoKey
    <2> SUFFICES ASSUME k = NoKey
                 PROVE  FALSE
      OBVIOUS
    <2>1. Len(k) = 1 /\ k[1] = 2
      BY DEF NoKey
    <2>2. k[1] \in {0, 1}
      BY <1>1, <2>1
    <2> QED  BY <2>1, <2>2
  <1> QED  BY <1>6, <1>7, <1>8

LEMMA KeyMakes ==
    ASSUME NEW k, NEW l, NEW len \in Nat, NEW S, KeyIs(k, len, S), KeyIs(l, len, S)
    PROVE  k = l
  <1>1. k \in Seq({0, 1}) /\ l \in Seq({0, 1}) /\ Len(k) = len /\ Len(l) = len
    BY DEF KeyIs
  <1>2. \A i \in 1..len : k[i] \in {0, 1} /\ l[i] \in {0, 1} /\ (k[i] = 1 <=> l[i] = 1)
    BY <1>1 DEF KeyIs
  <1>3. \A i \in 1..len : k[i] = l[i]
    BY <1>2
  <1>4. k \in [1..len -> {0, 1}] /\ l \in [1..len -> {0, 1}]
    BY <1>1
  <1> QED  BY <1>3, <1>4

LEMMA KeyTells ==
    ASSUME NEW k, NEW len \in Nat, NEW S, KeyIs(k, len, S),
           NEW other \in Nat, NEW R, KeyIs(k, other, R)
    PROVE  len = other /\ S = R
  <1>1. len = other
    BY DEF KeyIs
  <1>2. S \subseteq 1..len /\ R \subseteq 1..len
    BY <1>1 DEF KeyIs
  <1>3. \A i \in 1..len : i \in S <=> i \in R
    BY <1>1 DEF KeyIs
  <1> QED  BY <1>1, <1>2, <1>3

(* What running a node adds.                                               *)
ARun(sofar) == sofar = [values |-> sofar.values, draws |-> sofar.draws, key |-> sofar.key]
Reads(node, ins, values) == UNION {Of(node.ins[k], ins, values) : k \in DOMAIN node.ins}

LEMMA AfterNodeFacts ==
    ASSUME NEW sofar, ARun(sofar), NEW node, NEW mine, NEW ins
    PROVE  LET next == AfterNode(sofar, node, mine, ins)
           IN  /\ ARun(next)
               /\ node.op = "parameter" =>
                      /\ next.values = Append(sofar.values, {Param(mine[node.index])})
                      /\ next.draws = sofar.draws /\ next.key = sofar.key
               /\ (node.op = "dropout" /\ sofar.key # NoKey) =>
                      /\ next.values = Append(sofar.values,
                             Reads(node, ins, sofar.values) \cup {Draw(Mine(sofar.key))})
                      /\ next.draws = Append(sofar.draws, Mine(sofar.key))
                      /\ next.key = Next0(sofar.key)
               /\ (node.op # "parameter" /\ ~(node.op = "dropout" /\ sofar.key # NoKey)) =>
                      /\ next.values = Append(sofar.values, Reads(node, ins, sofar.values))
                      /\ next.draws = sofar.draws /\ next.key = sofar.key
  <1> DEFINE next == AfterNode(sofar, node, mine, ins)
  <1>1. CASE node.op = "parameter"
    <2>1. next = [sofar EXCEPT !.values = Append(@, {Param(mine[node.index])})]
      BY <1>1 DEF AfterNode
    <2> HIDE DEF next
    <2>2. next = [values |-> Append(sofar.values, {Param(mine[node.index])}),
                  draws |-> sofar.draws, key |-> sofar.key]
      BY <2>1 DEF ARun
    <2> QED  BY <1>1, <2>2 DEF ARun, next
  <1>2. CASE node.op = "dropout" /\ sofar.key # NoKey
    <2>1. next = [values |-> Append(sofar.values,
                      Reads(node, ins, sofar.values) \cup {Draw(Mine(sofar.key))}),
                  draws |-> Append(sofar.draws, Mine(sofar.key)), key |-> Next0(sofar.key)]
      BY <1>2 DEF AfterNode, Reads
    <2> HIDE DEF next
    <2> QED  BY <1>2, <2>1 DEF ARun, next
  <1>3. CASE node.op # "parameter" /\ ~(node.op = "dropout" /\ sofar.key # NoKey)
    <2>1. next = [sofar EXCEPT !.values = Append(@, Reads(node, ins, sofar.values))]
      BY <1>3 DEF AfterNode, Reads
    <2> HIDE DEF next
    <2>2. next = [values |-> Append(sofar.values, Reads(node, ins, sofar.values)),
                  draws |-> sofar.draws, key |-> sofar.key]
      BY <2>1 DEF ARun
    <2> QED  BY <1>3, <2>2 DEF ARun, next
  <1> QED  BY <1>1, <1>2, <1>3

(* The draws of a graph: each is split from what the one before left.      *)
LEMMA RunDraws ==
    ASSUME NEW program, Numbered(program.nodes), NEW mine, NEW ins,
           NEW k0, NEW len \in Nat, NEW S, KeyIs(k0, len, S)
    PROVE  /\ Numbered(Run(program, mine, ins, k0).draws)
           /\ \A j \in DOMAIN Run(program, mine, ins, k0).draws :
                  j \in Nat \ {0} /\ KeyIs(Run(program, mine, ins, k0).draws[j], len + j, S \cup {len + j})
  <1> DEFINE n == Len(program.nodes)  u == RunUpTo(program, mine, ins, k0)
             Apart(k) == \A j \in 1..Len(u[k].draws) : KeyIs(u[k].draws[j], len + j, S \cup {len + j})
             Good(k) == /\ ARun(u[k]) /\ Numbered(u[k].draws)
                        /\ KeyIs(u[k].key, len + Len(u[k].draws), S)
                        /\ Apart(k)
             T == {k \in 0..n : Good(k)}
  <1>1. n \in Nat
    BY NumberedFacts
  <1>2. /\ u[0] = [values |-> <<>>, draws |-> <<>>, key |-> k0]
        /\ \A k \in 1..n : u[k] = AfterNode(u[k - 1], program.nodes[k], mine, ins)
    BY <1>1, RunRecurs
  <1> HIDE DEF u, n
  <1>3. 0 \in T
    <2>1. ARun(u[0]) /\ u[0].draws = <<>> /\ u[0].key = k0
      BY <1>2 DEF ARun
    <2>2. Len(u[0].draws) = 0 /\ Numbered(u[0].draws)
      BY <2>1, EmptyIsNumbered
    <2>3. KeyIs(u[0].key, len + Len(u[0].draws), S)
      <3>1. len + Len(u[0].draws) = len
        BY <2>2
      <3> QED  BY <2>1, <3>1
    <2>4. Apart(0)
      BY <2>2
    <2> QED  BY <1>1, <2>1, <2>2, <2>3, <2>4
  <1>4. ASSUME NEW k \in 1..n, k - 1 \in T
        PROVE  k \in T
    <2> DEFINE before == u[k - 1]  node == program.nodes[k]
    <2>1. Good(k - 1) /\ k \in 0..n
      <3> HIDE DEF Good
      <3> QED  BY <1>1, <1>4
    <2>2. /\ ARun(before) /\ Numbered(before.draws)
          /\ KeyIs(before.key, len + Len(before.draws), S)
          /\ \A j \in 1..Len(before.draws) : KeyIs(before.draws[j], len + j, S \cup {len + j})
      BY <2>1
    <2>3. u[k] = AfterNode(before, node, mine, ins)
      BY <1>2
    <2> HIDE DEF before, node
    <2>4. /\ ARun(u[k])
          /\ \/ u[k].draws = before.draws /\ u[k].key = before.key
             \/ u[k].draws = Append(before.draws, Mine(before.key)) /\ u[k].key = Next0(before.key)
      BY <2>2, <2>3, AfterNodeFacts
    <2>5. CASE u[k].draws = before.draws /\ u[k].key = before.key
      <3>1. Apart(k)
        BY <2>2, <2>5
      <3> QED  BY <2>1, <2>2, <2>4, <2>5, <3>1
    <2>6. CASE u[k].draws = Append(before.draws, Mine(before.key)) /\ u[k].key = Next0(before.key)
      <3> DEFINE d == Len(before.draws)
      <3>1. /\ Numbered(u[k].draws) /\ d \in Nat
            /\ Len(u[k].draws) = d + 1
            /\ \A j \in 1..d : u[k].draws[j] = before.draws[j]
            /\ u[k].draws[d + 1] = Mine(before.key)
        BY <2>2, <2>6, NumberedAppend
      <3> HIDE DEF d
      <3>2. KeyIs(before.key, len + d, S) /\ len + d \in Nat
        BY <2>2, <3>1 DEF d
      <3>3. /\ KeyIs(Next0(before.key), len + d + 1, S)
            /\ KeyIs(Mine(before.key), len + d + 1, S \cup {len + d + 1})
        BY <3>2, SplitFacts
      <3>4. len + d + 1 = len + (d + 1)
        BY <3>1
      <3>5. KeyIs(u[k].key, len + Len(u[k].draws), S)
        BY <2>6, <3>1, <3>3, <3>4
      <3>6. Apart(k)
        <4> SUFFICES ASSUME NEW j \in 1..Len(u[k].draws)
                     PROVE  KeyIs(u[k].draws[j], len + j, S \cup {len + j})
          OBVIOUS
        <4>1. CASE j = d + 1
          BY <3>1, <3>3, <3>4, <4>1
        <4>2. CASE j # d + 1
          <5>1. j \in 1..d
            BY <3>1, <4>2
          <5> QED  BY <2>2, <3>1, <5>1 DEF d
        <4> QED  BY <4>1, <4>2
      <3> HIDE DEF Apart
      <3> QED  BY <2>1, <2>4, <3>1, <3>5, <3>6
    <2> QED  BY <2>4, <2>5, <2>6
  <1>5. n \in T
    <2>1. \A k \in 0..n : k \in T
      <3> HIDE DEF T
      <3> QED  BY <1>1, <1>3, <1>4, Reaches
    <2>2. n \in 0..n
      BY <1>1
    <2> HIDE DEF T
    <2> QED  BY <2>1, <2>2
  <1>6. Run(program, mine, ins, k0) = u[n]
    BY DEF Run, RunUpTo, u, n
  <1>7. Numbered(u[n].draws) /\ Apart(n)
    <2>1. Good(n)
      <3> HIDE DEF Good
      <3> QED  BY <1>5
    <2> QED  BY <2>1
  <1>8. DOMAIN u[n].draws = 1..Len(u[n].draws) /\ Len(u[n].draws) \in Nat
    BY <1>7, NumberedFacts
  <1>9. \A j \in DOMAIN u[n].draws :
            j \in Nat \ {0} /\ KeyIs(u[n].draws[j], len + j, S \cup {len + j})
    <2> SUFFICES ASSUME NEW j \in DOMAIN u[n].draws
                 PROVE  j \in Nat \ {0} /\ KeyIs(u[n].draws[j], len + j, S \cup {len + j})
      OBVIOUS
    <2>1. j \in 1..Len(u[n].draws) /\ j \in Nat \ {0}
      BY <1>8
    <2> QED  BY <1>7, <2>1
  <1> QED  BY <1>6, <1>7, <1>9

(* What a node was made of, of the values before it.                       *)
LEMMA ReadsSame ==
    ASSUME NEW node, NEW ins, NEW v, NEW w,
           \A k \in DOMAIN node.ins : node.ins[k].kind = "input" \/ v[node.ins[k].id] = w[node.ins[k].id]
    PROVE  Reads(node, ins, v) = Reads(node, ins, w)
  <1>1. \A k \in DOMAIN node.ins : Of(node.ins[k], ins, v) = Of(node.ins[k], ins, w)
    BY DEF Of
  <1>2. {Of(node.ins[k], ins, v) : k \in DOMAIN node.ins} = {Of(node.ins[k], ins, w) : k \in DOMAIN node.ins}
    BY <1>1
  <1> QED  BY <1>2 DEF Reads

IsValue(value, node, mine, ins, values, keyed) ==
    /\ node.op = "parameter" => value = {Param(mine[node.index])}
    /\ node.op # "parameter" =>
           \/ value = Reads(node, ins, values)
           \/ (keyed /\ \E d : value = Reads(node, ins, values) \cup {Draw(d)})

Before(program) ==
    \A i \in 1..Len(program.nodes) : \A k \in DOMAIN program.nodes[i].ins :
        LET ref == program.nodes[i].ins[k] IN ref.kind = "input" \/ ref.id \in 1..(i - 1)

LEMMA RunValues ==
    ASSUME NEW program, Numbered(program.nodes), Before(program), NEW mine, NEW ins, NEW k0
    PROVE  LET values == Run(program, mine, ins, k0).values
           IN  /\ Numbered(values) /\ Len(values) = Len(program.nodes)
               /\ \A i \in 1..Len(program.nodes) :
                      IsValue(values[i], program.nodes[i], mine, ins, values, k0 # NoKey)
  <1> DEFINE n == Len(program.nodes)  u == RunUpTo(program, mine, ins, k0)
             keyed == k0 # NoKey
             Good(k) == /\ ARun(u[k]) /\ Numbered(u[k].values) /\ Len(u[k].values) = k
                        /\ (~keyed => u[k].key = NoKey)
                        /\ \A i \in 1..k : IsValue(u[k].values[i], program.nodes[i], mine, ins, u[k].values, keyed)
             T == {k \in 0..n : Good(k)}
  <1>1. n \in Nat
    BY NumberedFacts
  <1>2. /\ u[0] = [values |-> <<>>, draws |-> <<>>, key |-> k0]
        /\ \A k \in 1..n : u[k] = AfterNode(u[k - 1], program.nodes[k], mine, ins)
    BY <1>1, RunRecurs
  <1> HIDE DEF u
  <1>3. 0 \in T
    <2>1. ARun(u[0]) /\ u[0].values = <<>> /\ u[0].key = k0
      BY <1>2 DEF ARun
    <2>2. Len(u[0].values) = 0 /\ Numbered(u[0].values)
      BY <2>1, EmptyIsNumbered
    <2> QED  BY <1>1, <2>1, <2>2
  <1>4. ASSUME NEW k \in 1..n, k - 1 \in T
        PROVE  k \in T
    <2> DEFINE before == u[k - 1]  node == program.nodes[k]
    <2>1. Good(k - 1) /\ k \in 0..n /\ k \in Nat
      BY <1>1, <1>4
    <2>2. /\ ARun(before) /\ Numbered(before.values) /\ Len(before.values) = k - 1
          /\ (~keyed => before.key = NoKey)
          /\ \A i \in 1..(k - 1) :
                 IsValue(before.values[i], program.nodes[i], mine, ins, before.values, keyed)
      BY <2>1
    <2>3. u[k] = AfterNode(before, node, mine, ins)
      BY <1>2
    <2> HIDE DEF before
    <2> DEFINE reads == Reads(node, ins, before.values)
    <2>4. PICK x : /\ ARun(u[k]) /\ u[k].values = Append(before.values, x)
                   /\ (~keyed => u[k].key = NoKey)
                   /\ node.op = "parameter" => x = {Param(mine[node.index])}
                   /\ node.op # "parameter" =>
                          x = reads \/ (keyed /\ \E d : x = reads \cup {Draw(d)})
      <3> HIDE DEF node, keyed
      <3>1. CASE node.op = "parameter"
        <4>1. /\ ARun(u[k]) /\ u[k].values = Append(before.values, {Param(mine[node.index])})
              /\ u[k].key = before.key
          BY <2>2, <2>3, <3>1, AfterNodeFacts
        <4> QED  BY <2>2, <3>1, <4>1
      <3>2. CASE node.op = "dropout" /\ before.key # NoKey
        <4>1. node.op # "parameter" /\ keyed
          BY <2>2, <3>2
        <4>2. /\ ARun(u[k]) /\ u[k].values = Append(before.values, reads \cup {Draw(Mine(before.key))})
          BY <2>2, <2>3, <3>2, AfterNodeFacts
        <4> QED  BY <4>1, <4>2
      <3>3. CASE node.op # "parameter" /\ ~(node.op = "dropout" /\ before.key # NoKey)
        <4>1. /\ ARun(u[k]) /\ u[k].values = Append(before.values, reads)
              /\ u[k].key = before.key
          BY <2>2, <2>3, <3>3, AfterNodeFacts
        <4> QED  BY <2>2, <3>3, <4>1
      <3> QED  BY <3>1, <3>2, <3>3
    <2>5. /\ Numbered(u[k].values) /\ Len(u[k].values) = k
          /\ \A i \in 1..(k - 1) : u[k].values[i] = before.values[i]
          /\ u[k].values[k] = x
      <3>1. /\ Numbered(u[k].values) /\ Len(u[k].values) = (k - 1) + 1
            /\ \A i \in 1..(k - 1) : u[k].values[i] = before.values[i]
            /\ u[k].values[(k - 1) + 1] = x
        BY <2>2, <2>4, NumberedAppend
      <3>2. (k - 1) + 1 = k
        OBVIOUS
      <3> QED  BY <3>1, <3>2
    <2>6. \A i \in 1..k : Reads(program.nodes[i], ins, u[k].values) = Reads(program.nodes[i], ins, before.values)
      <3> SUFFICES ASSUME NEW i \in 1..k
                   PROVE  Reads(program.nodes[i], ins, u[k].values) = Reads(program.nodes[i], ins, before.values)
        OBVIOUS
      <3>1. i \in 1..n
        OBVIOUS
      <3>2. \A j \in 1..(i - 1) : j \in 1..(k - 1)
        OBVIOUS
      <3>3. \A j \in DOMAIN program.nodes[i].ins :
                \/ program.nodes[i].ins[j].kind = "input"
                \/ u[k].values[program.nodes[i].ins[j].id] = before.values[program.nodes[i].ins[j].id]
        BY <2>5, <3>1, <3>2 DEF Before
      <3> QED  BY <3>3, ReadsSame
    <2>7. \A i \in 1..k : IsValue(u[k].values[i], program.nodes[i], mine, ins, u[k].values, keyed)
      <3> SUFFICES ASSUME NEW i \in 1..k
                   PROVE  IsValue(u[k].values[i], program.nodes[i], mine, ins, u[k].values, keyed)
        OBVIOUS
      <3> HIDE DEF keyed
      <3>1. CASE i = k
        <4>1. Reads(node, ins, u[k].values) = reads /\ u[k].values[i] = x
          BY <2>5, <2>6, <3>1
        <4> HIDE DEF reads
        <4> QED  BY <2>4, <3>1, <4>1 DEF IsValue
      <3>2. CASE i # k
        <4>1. i \in 1..(k - 1)
          BY <3>2
        <4>2. IsValue(before.values[i], program.nodes[i], mine, ins, before.values, keyed)
          BY <2>2, <4>1
        <4>3. Reads(program.nodes[i], ins, u[k].values) = Reads(program.nodes[i], ins, before.values)
          BY <2>6
        <4>4. u[k].values[i] = before.values[i]
          BY <2>5, <4>1
        <4> QED  BY <4>2, <4>3, <4>4 DEF IsValue
      <3> QED  BY <3>1, <3>2
    <2> HIDE DEF keyed
    <2> QED  BY <2>1, <2>4, <2>5, <2>7
  <1>5. n \in T
    <2>1. \A k \in 0..n : k \in T
      <3> HIDE DEF T, n
      <3> QED  BY <1>1, <1>3, <1>4, Reaches
    <2> QED  BY <1>1, <2>1
  <1>6. Run(program, mine, ins, k0) = u[n]
    BY DEF Run, RunUpTo, u
  <1> QED  BY <1>5, <1>6

(* What a value is of, its draws aside.                                    *)
LEMMA UndrawnFacts ==
    /\ \A value, d : Undrawn(value \cup {Draw(d)}) = Undrawn(value)
    /\ \A array : Undrawn({Param(array)}) = {Param(array)}
    /\ \A name : Undrawn({Field(name)}) = {Field(name)}
    /\ \A value : Undrawn(Undrawn(value)) = Undrawn(value)
  <1>1. \A d : Draw(d).kind = "draw"
    BY DEF Draw
  <1>2. \A array : Param(array).kind # "draw"
    BY DEF Param
  <1>3. \A name : Field(name).kind # "draw"
    BY DEF Field
  <1> QED  BY <1>1, <1>2, <1>3 DEF Undrawn

LEMMA UndrawnReads ==
    ASSUME NEW node, NEW ins, NEW v, NEW meant, NEW f,
           \A k \in DOMAIN node.ins : Undrawn(Of(node.ins[k], ins, v)) = Of(node.ins[k], meant, f)
    PROVE  Undrawn(Reads(node, ins, v)) = Reads(node, meant, f)
  <1>1. \A a : a \in Undrawn(Reads(node, ins, v)) <=>
               \E k \in DOMAIN node.ins : a \in Undrawn(Of(node.ins[k], ins, v))
    BY DEF Undrawn, Reads
  <1>2. \A a : a \in Reads(node, meant, f) <=>
               \E k \in DOMAIN node.ins : a \in Of(node.ins[k], meant, f)
    BY DEF Reads
  <1>3. \A a : a \in Undrawn(Reads(node, ins, v)) <=> a \in Reads(node, meant, f)
    BY <1>1, <1>2
  <1> QED  BY <1>3

(* What a node means, of what the nodes before it do.                      *)
Means(graph, program, meant, of, i) ==
    IF program.nodes[i].op = "parameter"
    THEN {[kind |-> "param", of |-> qualified(graph, program.params[program.nodes[i].index].path)]}
    ELSE Reads(program.nodes[i], meant, of)
MeaningOf(graph, program, meant) ==
    CHOOSE of : of = [i \in 1..Len(program.nodes) |-> Means(graph, program, meant, of, i)]

LEMMA ResolvedFacts ==
    ASSUME NEW program, NEW declared, Resolved(program, declared), AGraph(program)
    PROVE  /\ Before(program)
           /\ \A i \in 1..Len(program.nodes) :
                  \A k \in DOMAIN program.nodes[i].ins :
                      LET ref == program.nodes[i].ins[k]
                      IN  IF ref.kind = "input" THEN ref.id \in 1..Len(program.inputs)
                          ELSE ref.id \in 1..(i - 1)
           /\ \A o \in DOMAIN program.outputs :
                  LET ref == program.outputs[o]
                  IN  IF ref.kind = "input" THEN ref.id \in 1..Len(program.inputs)
                      ELSE ref.id \in 1..Len(program.nodes)
           /\ \A i \in 1..Len(program.nodes) :
                  program.nodes[i].op = "parameter" =>
                      program.nodes[i].index \in Nat \ {0} /\ program.nodes[i].index <= declared
  <1>1. DOMAIN program.nodes = 1..Len(program.nodes)
    BY GraphFacts
  <1>2. \A i \in 1..Len(program.nodes) : \A k \in DOMAIN program.nodes[i].ins :
            check(program.nodes[i].ins[k], program, i - 1)
    BY <1>1 DEF Resolved
  <1>3. \A o \in DOMAIN program.outputs : check(program.outputs[o], program, Len(program.nodes))
    BY DEF Resolved
  <1>4. \A i \in 1..Len(program.nodes) :
            program.nodes[i].op = "parameter" =>
                program.nodes[i].index \in Nat \ {0} /\ program.nodes[i].index <= declared
    BY <1>1 DEF Resolved, AGraph
  <1> QED  BY <1>2, <1>3, <1>4 DEF check, Before

LEMMA RunMeans ==
    ASSUME NEW program, NEW declared, AGraph(program), Resolved(program, declared),
           NEW graph, NEW mine, NEW ins, NEW meant, NEW k0,
           \A x \in 1..Len(program.inputs) : Undrawn(ins[x]) = meant[x],
           \A i \in 1..Len(program.nodes) :
               program.nodes[i].op = "parameter" =>
                   mine[program.nodes[i].index].of =
                       qualified(graph, program.params[program.nodes[i].index].path)
    PROVE  \A o \in DOMAIN program.outputs :
               LET out == Outputs(program, ins, Run(program, mine, ins, k0).values)[o]
               IN  /\ Undrawn(out) = Meaning(graph, program, meant)[o]
                   /\ (k0 = NoKey /\ \A x \in 1..Len(program.inputs) : ins[x] = meant[x]) =>
                          out = Meaning(graph, program, meant)[o]
  <1> DEFINE n == Len(program.nodes)  v == Run(program, mine, ins, k0).values
             f == [i \in 1..n |-> Undrawn(v[i])]
             of == MeaningOf(graph, program, meant)
             bare == k0 = NoKey /\ \A x \in 1..Len(program.inputs) : ins[x] = meant[x]
  <1>1. n \in Nat /\ Numbered(program.nodes)
    BY GraphFacts
  <1>2. /\ Before(program)
        /\ \A i \in 1..n : \A k \in DOMAIN program.nodes[i].ins :
               LET ref == program.nodes[i].ins[k]
               IN  IF ref.kind = "input" THEN ref.id \in 1..Len(program.inputs) ELSE ref.id \in 1..(i - 1)
        /\ \A o \in DOMAIN program.outputs :
               LET ref == program.outputs[o]
               IN  IF ref.kind = "input" THEN ref.id \in 1..Len(program.inputs) ELSE ref.id \in 1..n
    BY ResolvedFacts
  <1>3. \A i \in 1..n : IsValue(v[i], program.nodes[i], mine, ins, v, k0 # NoKey)
    BY <1>1, <1>2, RunValues
  <1> HIDE DEF n, v
  <1>4. \A i \in 1..n : f[i] = Undrawn(v[i])
    OBVIOUS
  <1>5. f = [i \in 1..n |-> Means(graph, program, meant, f, i)]
    <2> HIDE DEF f
    <2>1. ASSUME NEW i \in 1..n
          PROVE  f[i] = Means(graph, program, meant, f, i)
      <3> DEFINE node == program.nodes[i]
      <3>1. CASE node.op = "parameter"
        <4>1. v[i] = {Param(mine[node.index])}
          BY <1>3, <3>1 DEF IsValue
        <4>2. f[i] = {Param(mine[node.index])}
          BY <1>4, <4>1, UndrawnFacts
        <4>3. mine[node.index].of = qualified(graph, program.params[node.index].path)
          BY <3>1 DEF n
        <4> QED  BY <3>1, <4>2, <4>3 DEF Means, Param
      <3>2. CASE node.op # "parameter"
        <4>1. \/ v[i] = Reads(node, ins, v)
              \/ \E d : v[i] = Reads(node, ins, v) \cup {Draw(d)}
          BY <1>3, <3>2 DEF IsValue
        <4>2. Undrawn(v[i]) = Undrawn(Reads(node, ins, v))
          BY <4>1, UndrawnFacts
        <4>3. \A k \in DOMAIN node.ins : Undrawn(Of(node.ins[k], ins, v)) = Of(node.ins[k], meant, f)
          <5> SUFFICES ASSUME NEW k \in DOMAIN node.ins
                       PROVE  Undrawn(Of(node.ins[k], ins, v)) = Of(node.ins[k], meant, f)
            OBVIOUS
          <5>1. CASE node.ins[k].kind = "input"
            BY <1>2, <5>1 DEF Of
          <5>2. CASE node.ins[k].kind # "input"
            <6>1. node.ins[k].id \in 1..(i - 1)
              BY <1>2, <5>2
            <6>2. node.ins[k].id \in 1..n
              BY <1>1, <6>1
            <6> QED  BY <1>4, <5>2, <6>2 DEF Of
          <5> QED  BY <5>1, <5>2
        <4>4. Undrawn(Reads(node, ins, v)) = Reads(node, meant, f)
          BY <4>3, UndrawnReads
        <4> QED  BY <1>4, <3>2, <4>2, <4>4 DEF Means
      <3> QED  BY <3>1, <3>2
    <2>2. f = [i \in 1..n |-> f[i]]
      BY DEF f
    <2> QED  BY <2>1, <2>2
  <1> HIDE DEF f
  <1>6. of = [i \in 1..n |-> Means(graph, program, meant, of, i)]
    BY <1>5 DEF MeaningOf, n
  <1> HIDE DEF of
  <1>7. \A i \in 1..n : of[i] = Means(graph, program, meant, of, i)
    BY <1>6, Zenon
  <1>8. \A i \in 1..n : f[i] = Means(graph, program, meant, f, i)
    BY <1>5, Zenon
  <1>9. \A i \in 1..n : of[i] = f[i]
    <2> DEFINE T == {k \in 0..n : \A i \in 1..k : of[i] = f[i]}
    <2>1. 0 \in T
      BY <1>1
    <2>2. ASSUME NEW k \in 1..n, k - 1 \in T
          PROVE  k \in T
      <3>1. \A i \in 1..(k - 1) : of[i] = f[i]
        BY <2>2
      <3>2. of[k] = f[k]
        <4>1. CASE program.nodes[k].op = "parameter"
          BY <1>7, <1>8, <4>1 DEF Means
        <4>2. CASE program.nodes[k].op # "parameter"
          <5>1. \A j \in DOMAIN program.nodes[k].ins :
                    \/ program.nodes[k].ins[j].kind = "input"
                    \/ of[program.nodes[k].ins[j].id] = f[program.nodes[k].ins[j].id]
            BY <1>2, <3>1
          <5>2. Reads(program.nodes[k], meant, of) = Reads(program.nodes[k], meant, f)
            BY <5>1, ReadsSame
          <5> QED  BY <1>7, <1>8, <4>2, <5>2 DEF Means
        <4> QED  BY <4>1, <4>2
      <3>3. \A i \in 1..k : i = k \/ i \in 1..(k - 1)
        OBVIOUS
      <3>4. k \in 0..n
        BY <1>1
      <3> QED  BY <3>1, <3>2, <3>3, <3>4
    <2>3. \A k \in 0..n : k \in T
      <3> HIDE DEF T
      <3> QED  BY <1>1, <2>1, <2>2, Reaches
    <2>4. n \in 0..n
      BY <1>1
    <2>5. n \in T
      <3> HIDE DEF T
      <3> QED  BY <2>3, <2>4
    <2> QED  BY <2>5
  <1>10. bare => \A i \in 1..n : v[i] = f[i]
    <2> SUFFICES ASSUME bare
                 PROVE  \A i \in 1..n : v[i] = f[i]
      OBVIOUS
    <2> DEFINE T == {k \in 0..n : \A i \in 1..k : v[i] = f[i]}
    <2>1. 0 \in T
      BY <1>1
    <2>2. ASSUME NEW k \in 1..n, k - 1 \in T
          PROVE  k \in T
      <3>1. \A i \in 1..(k - 1) : v[i] = f[i]
        BY <2>2
      <3>2. v[k] = f[k]
        <4>1. CASE program.nodes[k].op = "parameter"
          <5>1. v[k] = {Param(mine[program.nodes[k].index])}
            BY <1>3, <4>1 DEF IsValue
          <5> QED  BY <1>4, <5>1, UndrawnFacts
        <4>2. CASE program.nodes[k].op # "parameter"
          <5>1. v[k] = Reads(program.nodes[k], ins, v)
            BY <1>3, <4>2 DEF IsValue
          <5>2. \A j \in DOMAIN program.nodes[k].ins :
                    Of(program.nodes[k].ins[j], ins, v) = Of(program.nodes[k].ins[j], meant, f)
            BY <1>2, <3>1 DEF Of
          <5>3. {Of(program.nodes[k].ins[j], ins, v) : j \in DOMAIN program.nodes[k].ins} =
                {Of(program.nodes[k].ins[j], meant, f) : j \in DOMAIN program.nodes[k].ins}
            BY <5>2
          <5>4. v[k] = Reads(program.nodes[k], meant, f)
            BY <5>1, <5>3 DEF Reads
          <5> QED  BY <1>8, <4>2, <5>4 DEF Means
        <4> QED  BY <4>1, <4>2
      <3>3. \A i \in 1..k : i = k \/ i \in 1..(k - 1)
        OBVIOUS
      <3>4. k \in 0..n
        BY <1>1
      <3> QED  BY <3>1, <3>2, <3>3, <3>4
    <2>3. \A k \in 0..n : k \in T
      <3> HIDE DEF T, bare
      <3> QED  BY <1>1, <2>1, <2>2, Reaches
    <2>4. n \in 0..n
      BY <1>1
    <2>5. n \in T
      <3> HIDE DEF T
      <3> QED  BY <2>3, <2>4
    <2> QED  BY <2>5
  <1>11. \A o \in DOMAIN program.outputs :
             /\ Outputs(program, ins, v)[o] = Of(program.outputs[o], ins, v)
             /\ Meaning(graph, program, meant)[o] = Of(program.outputs[o], meant, of)
    <2>1. Meaning(graph, program, meant) = [o \in DOMAIN program.outputs |-> Of(program.outputs[o], meant, of)]
      BY DEF Meaning, MeaningOf, Means, Reads, of
    <2> QED  BY <2>1 DEF Outputs
  <1>12. ASSUME NEW o \in DOMAIN program.outputs
         PROVE  LET out == Outputs(program, ins, v)[o]
                IN  /\ Undrawn(out) = Meaning(graph, program, meant)[o]
                    /\ bare => out = Meaning(graph, program, meant)[o]
    <2> DEFINE ref == program.outputs[o]
    <2>1. CASE ref.kind = "input"
      <3>1. ref.id \in 1..Len(program.inputs)
        BY <1>2, <2>1
      <3>2. Undrawn(ins[ref.id]) = meant[ref.id] /\ (bare => ins[ref.id] = meant[ref.id])
        BY <3>1
      <3>3. Outputs(program, ins, v)[o] = ins[ref.id] /\ Meaning(graph, program, meant)[o] = meant[ref.id]
        BY <1>11, <2>1 DEF Of
      <3> HIDE DEF bare
      <3> QED  BY <3>2, <3>3
    <2>2. CASE ref.kind # "input"
      <3>1. ref.id \in 1..n
        BY <1>2, <2>2
      <3>2. Outputs(program, ins, v)[o] = v[ref.id] /\ Meaning(graph, program, meant)[o] = of[ref.id]
        BY <1>11, <2>2 DEF Of
      <3> HIDE DEF bare
      <3> QED  BY <1>4, <1>9, <1>10, <3>1, <3>2
    <2> QED  BY <2>1, <2>2
  <1> QED  BY <1>12 DEF v

(* The first models of a pass.                                             *)
ModelsUpTo(given, fields, key0) ==
    CHOOSE upto : upto =
        [p \in 0..Len(plan.models) |->
            IF p = 0 THEN [ok |-> TRUE, produced |-> <<>>, ran |-> <<>>, key |-> key0]
            ELSE AfterModel(upto[p - 1], plan.models[p], given, fields)]

LEMMA ModelsRecurs ==
    ASSUME NEW given, NEW fields, NEW key0, Len(plan.models) \in Nat
    PROVE  /\ ModelsUpTo(given, fields, key0)[0] = [ok |-> TRUE, produced |-> <<>>, ran |-> <<>>, key |-> key0]
           /\ \A k \in 1..Len(plan.models) : ModelsUpTo(given, fields, key0)[k] = AfterModel(ModelsUpTo(given, fields, key0)[k - 1], plan.models[k], given, fields)
  <1> DEFINE R(f, m) == f = [k \in 0..m |-> IF k = 0 THEN [ok |-> TRUE, produced |-> <<>>, ran |-> <<>>, key |-> key0] ELSE AfterModel(f[k - 1], plan.models[k], given, fields)]
             T == {m \in 0..Len(plan.models) : \E f : R(f, m)}
  <1>1. 0 \in T
    <2> DEFINE f == [k \in 0..0 |-> [ok |-> TRUE, produced |-> <<>>, ran |-> <<>>, key |-> key0]]
    <2>1. f = [k \in 0..0 |-> f[k]] /\ f[0] = [ok |-> TRUE, produced |-> <<>>, ran |-> <<>>, key |-> key0]
      OBVIOUS
    <2>2. \A k \in 0..0 : f[k] = IF k = 0 THEN [ok |-> TRUE, produced |-> <<>>, ran |-> <<>>, key |-> key0] ELSE AfterModel(f[k - 1], plan.models[k], given, fields)
      BY <2>1
    <2> HIDE DEF f
    <2>3. R(f, 0)
      BY <2>1, <2>2, Zenon
    <2>4. 0 \in 0..Len(plan.models)
      OBVIOUS
    <2> QED  BY <2>3, <2>4
  <1>2. ASSUME NEW m \in 1..Len(plan.models), m - 1 \in T
        PROVE  m \in T
    <2>1. PICK f : R(f, m - 1)
      BY <1>2
    <2> DEFINE h == [k \in 0..m |-> IF k = m THEN AfterModel(f[m - 1], plan.models[m], given, fields) ELSE f[k]]
    <2>2. h = [k \in 0..m |-> h[k]]
      OBVIOUS
    <2>3. \A k \in 0..m : h[k] = IF k = m THEN AfterModel(f[m - 1], plan.models[m], given, fields) ELSE f[k]
      OBVIOUS
    <2>4. \A k \in 0..(m - 1) : f[k] = IF k = 0 THEN [ok |-> TRUE, produced |-> <<>>, ran |-> <<>>, key |-> key0] ELSE AfterModel(f[k - 1], plan.models[k], given, fields)
      BY <2>1, Zenon
    <2> HIDE DEF h, R
    <2>5. \A k \in 0..m : h[k] = IF k = 0 THEN [ok |-> TRUE, produced |-> <<>>, ran |-> <<>>, key |-> key0] ELSE AfterModel(h[k - 1], plan.models[k], given, fields)
      <3> SUFFICES ASSUME NEW k \in 0..m
                   PROVE  h[k] = IF k = 0 THEN [ok |-> TRUE, produced |-> <<>>, ran |-> <<>>, key |-> key0] ELSE AfterModel(h[k - 1], plan.models[k], given, fields)
        OBVIOUS
      <3>1. CASE k = 0
        <4>1. 0 \in 0..(m - 1) /\ 0 # m
          OBVIOUS
        <4>2. f[0] = [ok |-> TRUE, produced |-> <<>>, ran |-> <<>>, key |-> key0]
          BY <2>4, <4>1
        <4> QED  BY <2>3, <3>1, <4>1, <4>2
      <3>2. CASE k # 0
        <4>1. k - 1 \in 0..m /\ k - 1 # m
          BY <3>2
        <4>2. h[k - 1] = f[k - 1]
          BY <2>3, <4>1
        <4>3. h[k] = AfterModel(f[k - 1], plan.models[k], given, fields)
          <5>1. CASE k = m
            BY <2>3, <5>1
          <5>2. CASE k # m
            <6>1. k \in 0..(m - 1)
              BY <5>2
            <6>2. f[k] = AfterModel(f[k - 1], plan.models[k], given, fields)
              BY <2>4, <3>2, <6>1
            <6> QED  BY <2>3, <5>2, <6>2
          <5> QED  BY <5>1, <5>2
        <4> QED  BY <3>2, <4>2, <4>3
      <3> QED  BY <3>1, <3>2
    <2>6. R(h, m)
      BY <2>2, <2>5, Zenon DEF R
    <2> QED  BY <2>6
  <1>3. Len(plan.models) \in T
    <2> HIDE DEF T
    <2>1. \A k \in 0..Len(plan.models) : k \in T
      BY <1>1, <1>2, Reaches
    <2>2. Len(plan.models) \in 0..Len(plan.models)
      OBVIOUS
    <2> QED  BY <2>1, <2>2
  <1>4. PICK f : R(f, Len(plan.models))
    BY <1>3
  <1>5. R(ModelsUpTo(given, fields, key0), Len(plan.models))
    BY <1>4 DEF ModelsUpTo
  <1> HIDE DEF T
  <1>6. \A k \in 0..Len(plan.models) : ModelsUpTo(given, fields, key0)[k] = IF k = 0 THEN [ok |-> TRUE, produced |-> <<>>, ran |-> <<>>, key |-> key0] ELSE AfterModel(ModelsUpTo(given, fields, key0)[k - 1], plan.models[k], given, fields)
    BY <1>5, Zenon
  <1>7. 0 \in 0..Len(plan.models) /\ \A k \in 1..Len(plan.models) : k \in 0..Len(plan.models) /\ k # 0
    OBVIOUS
  <1> HIDE DEF R
  <1> QED  BY <1>6, <1>7, Zenon

-----------------------------------------------------------------------------
(* An open plan. *)

Opened ==
    /\ Described
    /\ plan = Resolution /\ resolve(plan)
    /\ params = materialize(plan) /\ Missing \notin Range(params)

n_models == Len(plan.models)
ProgramOf(p) == config.models[ModelNames[p]]

LEMMA PlanFacts ==
    ASSUME Opened
    PROVE  /\ n_models \in Nat \ {0} /\ n_models = Len(ModelNames)
           /\ Len(plan.models) = n_models /\ DOMAIN plan.models = 1..n_models
           /\ \A p \in 1..n_models :
                  /\ ModelNames[p] \in DOMAIN config.models
                  /\ plan.models[p].name = ModelNames[p]
                  /\ plan.models[p].program = ProgramOf(p)
                  /\ plan.models[p].start = Len(Laid(ModelNames, p - 1))
           /\ \A p, q \in 1..n_models : ModelNames[p] = ModelNames[q] => p = q
           /\ \A m \in DOMAIN config.models : \E p \in 1..n_models : ModelNames[p] = m
           /\ plan.all = Laid(ModelNames, n_models)
  <1> DEFINE n == Len(ModelNames)
             f == [p \in 1..n |-> Graph(ModelNames[p], config.models[ModelNames[p]],
                                        Len(Laid(ModelNames, p - 1)))]
  <1>1. /\ n \in Nat /\ DOMAIN ModelNames = 1..n /\ IsInjective(ModelNames)
        /\ \A p \in 1..n : ModelNames[p] \in DOMAIN config.models
        /\ \A m \in DOMAIN config.models : \E p \in 1..n : ModelNames[p] = m
        /\ DOMAIN config.models # {} => n >= 1
    BY ModelNamesFacts DEF Opened
  <1>2. DOMAIN config.models # {}
    BY DEF Opened, resolve
  <1>3. plan.models = f /\ plan.all = Laid(ModelNames, n)
    <2>1. plan = Resolution
      BY DEF Opened
    <2> QED  BY <1>1, <2>1 DEF Resolution, ModelNames
  <1>4. \A p \in 1..n : f[p] = Graph(ModelNames[p], config.models[ModelNames[p]], Len(Laid(ModelNames, p - 1)))
    OBVIOUS
  <1>5. f = [p \in 1..n |-> f[p]]
    OBVIOUS
  <1> HIDE DEF f
  <1>6. Len(f) = n /\ DOMAIN f = 1..n
    BY <1>1, <1>5, IndexedIsNumbered
  <1>7. n_models = n
    BY <1>3, <1>6 DEF n_models
  <1>8. \A p \in 1..n : /\ plan.models[p].name = ModelNames[p]
                        /\ plan.models[p].program = ProgramOf(p)
                        /\ plan.models[p].start = Len(Laid(ModelNames, p - 1))
    <2> SUFFICES ASSUME NEW p \in 1..n
                 PROVE  /\ plan.models[p].name = ModelNames[p]
                        /\ plan.models[p].program = ProgramOf(p)
                        /\ plan.models[p].start = Len(Laid(ModelNames, p - 1))
      OBVIOUS
    <2>1. plan.models[p] = Graph(ModelNames[p], ProgramOf(p), Len(Laid(ModelNames, p - 1)))
      BY <1>3, <1>4 DEF ProgramOf
    <2> QED  BY <2>1 DEF Graph
  <1>9. \A p, q \in 1..n : ModelNames[p] = ModelNames[q] => p = q
    BY <1>1 DEF IsInjective
  <1> QED  BY <1>1, <1>2, <1>3, <1>6, <1>7, <1>8, <1>9

(* A parameter is what its path says, with no draw or that of a fresh one. *)
LEMMA ParamFacts ==
    ASSUME Opened
    PROVE  /\ DOMAIN params = DOMAIN plan.all
           /\ \A i \in DOMAIN plan.all :
                  /\ params[i].of = plan.all[i].path
                  /\ params[i].with \in {<<>>, Mine(key)}
  <1>1. params = materialize(plan) /\ Missing \notin Range(params)
    BY DEF Opened
  <1>2. DOMAIN params = DOMAIN plan.all
    BY <1>1 DEF materialize
  <1>3. ASSUME NEW i \in DOMAIN plan.all
        PROVE  params[i].of = plan.all[i].path /\ params[i].with \in {<<>>, Mine(key)}
    <2>1. params[i] # Missing
      BY <1>1, <1>2 DEF Range
    <2>2. params[i] = parameter(plan.all[i].path, plan.all[i].spec)
      BY <1>1 DEF materialize
    <2>3. \/ params[i] = Missing
          \/ params[i] = Array(plan.all[i].path, <<>>)
          \/ params[i] = Array(plan.all[i].path, Mine(key))
      BY <2>2 DEF parameter, build
    <2> QED  BY <2>1, <2>3 DEF Array
  <1> QED  BY <1>2, <1>3

LEMMA SliceFacts ==
    ASSUME Opened, NEW p \in 1..n_models
    PROVE  /\ AGraph(ProgramOf(p)) /\ Resolved(ProgramOf(p), Len(ProgramOf(p).params))
           /\ Len(ProgramOf(p).params) \in Nat
           /\ \A i \in 1..Len(ProgramOf(p).params) :
                  slice(params, plan.models[p])[i].of = qualified(ModelNames[p], ProgramOf(p).params[i].path)
  <1>1. /\ ModelNames[p] \in DOMAIN config.models /\ n_models = Len(ModelNames)
        /\ plan.models[p].program = ProgramOf(p)
        /\ plan.models[p].start = Len(Laid(ModelNames, p - 1))
        /\ plan.all = Laid(ModelNames, n_models)
    BY PlanFacts
  <1>2. AGraph(ProgramOf(p)) /\ Resolved(ProgramOf(p), Len(ProgramOf(p).params))
    BY <1>1, DescribedFacts DEF Opened, resolve, ProgramOf
  <1>3. Len(ProgramOf(p).params) \in Nat /\ DOMAIN ProgramOf(p).params = 1..Len(ProgramOf(p).params)
    BY <1>2, GraphFacts
  <1>4. \A i \in 1..Len(ProgramOf(p).params) :
            /\ plan.models[p].start + i \in DOMAIN plan.all
            /\ plan.all[plan.models[p].start + i].path = qualified(ModelNames[p], ProgramOf(p).params[i].path)
    BY <1>1, LaidFacts DEF Opened, ProgramOf
  <1>5. \A i \in 1..Len(ProgramOf(p).params) :
            slice(params, plan.models[p])[i] = params[plan.models[p].start + i]
    BY <1>1, <1>3 DEF slice
  <1> QED  BY <1>2, <1>3, <1>4, <1>5, ParamFacts

-----------------------------------------------------------------------------
(* A pass. *)

APass(pass) ==
    pass = [ok |-> pass.ok, produced |-> pass.produced, ran |-> pass.ran, key |-> pass.key]

(* One graph more: what it needs is there, and what it gives is told apart *)
(* by its name.                                                            *)
OutsOf(sofar, graph, mine, fields, k) ==
    LET ins == Inputs(graph.program, fields, sofar.produced)
    IN  Outputs(graph.program, ins, Run(graph.program, mine, ins, k).values)
Adds(next, sofar, graph, mine, fields, k) ==
    /\ APass(next) /\ next.ok \in BOOLEAN /\ next.key = sofar.key
    /\ next.ok => sofar.ok /\ Supplied(graph.program, fields, sofar.produced)
    /\ sofar.ok /\ Supplied(graph.program, fields, sofar.produced) => next.ok
    /\ next.ok =>
           LET ran == Run(graph.program, mine, Inputs(graph.program, fields, sofar.produced), k)
           IN  next.ran = Append(sofar.ran, [graph |-> graph, values |-> ran.values, draws |-> ran.draws])
    /\ next.ok => \A o \in DOMAIN graph.program.outputs :
           /\ qualified(graph.name, o) \in DOMAIN next.produced
           /\ next.produced[qualified(graph.name, o)] = OutsOf(sofar, graph, mine, fields, k)[o]
    /\ next.ok => \A m, o : m # graph.name /\ qualified(m, o) \in DOMAIN sofar.produced =>
           /\ qualified(m, o) \in DOMAIN next.produced
           /\ next.produced[qualified(m, o)] = sofar.produced[qualified(m, o)]

LEMMA OneGraphFacts ==
    ASSUME NEW sofar, APass(sofar), sofar.ok \in BOOLEAN,
           NEW graph, NEW mine, NEW fields, NEW k
    PROVE  Adds(OneGraph(sofar, graph, mine, fields, k), sofar, graph, mine, fields, k)
  <1> DEFINE next == OneGraph(sofar, graph, mine, fields, k)
             ins  == Inputs(graph.program, fields, sofar.produced)
             ran  == Run(graph.program, mine, ins, k)
             outs == Outputs(graph.program, ins, ran.values)
             new  == {qualified(graph.name, o) : o \in DOMAIN outs}
             made == [n \in DOMAIN sofar.produced \cup new |->
                         IF n \in new THEN outs[n[2]] ELSE sofar.produced[n]]
             one  == [graph |-> graph, values |-> ran.values, draws |-> ran.draws]
             good == sofar.ok /\ Supplied(graph.program, fields, sofar.produced)
  <1>1. CASE ~good
    <2>1. next = [sofar EXCEPT !.ok = FALSE]
      BY <1>1 DEF OneGraph
    <2> HIDE DEF next
    <2>2. next = [ok |-> FALSE, produced |-> sofar.produced, ran |-> sofar.ran, key |-> sofar.key]
      BY <2>1 DEF APass
    <2>3. APass(next) /\ next.ok = FALSE /\ next.key = sofar.key
      BY <2>2 DEF APass
    <2> QED  BY <1>1, <2>3 DEF next, Adds
  <1>2. CASE good
    <2>1. next = [sofar EXCEPT !.produced = made, !.ran = Append(@, one)]
      BY <1>2 DEF OneGraph
    <2>2. DOMAIN outs = DOMAIN graph.program.outputs
      BY DEF Outputs
    <2> HIDE DEF next, outs, ran, one
    <2>3. next = [ok |-> sofar.ok, produced |-> made, ran |-> Append(sofar.ran, one), key |-> sofar.key]
      <3> HIDE DEF made
      <3> QED  BY <2>1 DEF APass
    <2>4. /\ APass(next) /\ next.ok = TRUE /\ next.key = sofar.key
          /\ next.produced = made /\ next.ran = Append(sofar.ran, one)
      <3> HIDE DEF made
      <3> QED  BY <1>2, <2>3 DEF APass
    <2>5. \A o \in DOMAIN graph.program.outputs :
              qualified(graph.name, o) \in DOMAIN made /\ made[qualified(graph.name, o)] = outs[o]
      <3> SUFFICES ASSUME NEW o \in DOMAIN graph.program.outputs
                   PROVE  qualified(graph.name, o) \in DOMAIN made /\ made[qualified(graph.name, o)] = outs[o]
        OBVIOUS
      <3>1. qualified(graph.name, o) \in new
        BY <2>2
      <3>2. qualified(graph.name, o)[2] = o
        BY DEF qualified
      <3> HIDE DEF new
      <3> QED  BY <3>1, <3>2
    <2>6. \A m, o : m # graph.name /\ qualified(m, o) \in DOMAIN sofar.produced =>
              qualified(m, o) \in DOMAIN made /\ made[qualified(m, o)] = sofar.produced[qualified(m, o)]
      <3> SUFFICES ASSUME NEW m, NEW o, m # graph.name, qualified(m, o) \in DOMAIN sofar.produced
                   PROVE  qualified(m, o) \in DOMAIN made /\ made[qualified(m, o)] = sofar.produced[qualified(m, o)]
        OBVIOUS
      <3>1. qualified(m, o) \notin new
        BY DEF qualified
      <3> HIDE DEF new
      <3> QED  BY <3>1
    <2>7. outs = OutsOf(sofar, graph, mine, fields, k)
      BY DEF outs, ran, OutsOf
    <2> HIDE DEF made
    <2> QED  BY <1>2, <2>4, <2>5, <2>6, <2>7 DEF next, ran, one, Adds
  <1> QED  BY <1>1, <1>2

(* The draws of a pass over the models: what each graph draws with tells   *)
(* the place of the graph and of the draw in it.                           *)
LEMMA ModelsDraws ==
    ASSUME Opened, NEW fields, NEW k0, NEW len \in Nat, KeyIs(k0, len, {})
    PROVE  LET made == Models(params, fields, k0)
           IN  /\ APass(made) /\ made.ok \in BOOLEAN
               /\ made.ok =>
                      /\ KeyIs(made.key, len + n_models, {})
                      /\ Numbered(made.ran) /\ Len(made.ran) = n_models
                      /\ \A p \in 1..n_models :
                             /\ made.ran[p].graph.name = ModelNames[p]
                             /\ \A j \in DOMAIN made.ran[p].draws :
                                    /\ j \in Nat \ {0}
                                    /\ KeyIs(made.ran[p].draws[j], len + p + j, {len + p, len + p + j})
  <1> DEFINE n == n_models  u == ModelsUpTo(params, fields, k0)
             Told(one, p) == /\ one.graph.name = ModelNames[p]
                             /\ \A j \in DOMAIN one.draws :
                                    /\ j \in Nat \ {0}
                                    /\ KeyIs(one.draws[j], len + p + j, {len + p, len + p + j})
             Good(k) == /\ APass(u[k]) /\ u[k].ok \in BOOLEAN
                        /\ u[k].ok => /\ KeyIs(u[k].key, len + k, {})
                                      /\ Numbered(u[k].ran) /\ Len(u[k].ran) = k
                                      /\ \A p \in 1..k : Told(u[k].ran[p], p)
             T == {k \in 0..n : Good(k)}
  <1>1. n \in Nat /\ Len(plan.models) = n
    BY PlanFacts
  <1>2. /\ u[0] = [ok |-> TRUE, produced |-> <<>>, ran |-> <<>>, key |-> k0]
        /\ \A k \in 1..n : u[k] = AfterModel(u[k - 1], plan.models[k], params, fields)
    BY <1>1, ModelsRecurs
  <1> HIDE DEF u, n, Told
  <1>3. 0 \in T
    <2>1. APass(u[0]) /\ u[0].ok = TRUE /\ u[0].ran = <<>> /\ u[0].key = k0
      BY <1>2 DEF APass
    <2>2. Numbered(u[0].ran) /\ Len(u[0].ran) = 0
      BY <2>1, EmptyIsNumbered
    <2>3. len + 0 = len
      OBVIOUS
    <2>4. KeyIs(u[0].key, len + 0, {})
      BY <2>1, <2>3
    <2>5. Good(0)
      <3>1. \A p \in 1..0 : FALSE
        OBVIOUS
      <3> QED  BY <2>1, <2>2, <2>4, <3>1
    <2> HIDE DEF Good
    <2> QED  BY <1>1, <2>5
  <1>4. ASSUME NEW k \in 1..n, k - 1 \in T
        PROVE  k \in T
    <2> DEFINE before == u[k - 1]  model == plan.models[k]  mine == slice(params, model)
               moved == [before EXCEPT !.key = Next0(@)]
    <2>1. Good(k - 1) /\ k \in 0..n
      <3> HIDE DEF Good
      <3> QED  BY <1>1, <1>4
    <2>2. u[k] = AfterModel(before, model, params, fields)
      BY <1>2
    <2>3. APass(before) /\ before.ok \in BOOLEAN
      BY <2>1
    <2>4. /\ model.name = ModelNames[k] /\ model.program = ProgramOf(k)
          /\ Numbered(ProgramOf(k).nodes)
      BY PlanFacts, SliceFacts, GraphFacts DEF n
    <2> HIDE DEF before, model, mine
    <2>5. CASE ~before.ok
      <3>1. APass(u[k]) /\ u[k].ok \in BOOLEAN /\ ~u[k].ok
        <4>1. PICK sofar, left, k1 :
                  /\ u[k] = OneGraph(sofar, model, mine, fields, k1)
                  /\ sofar = [before EXCEPT !.key = left]
          <5>1. before = [before EXCEPT !.key = before.key]
            BY <2>3 DEF APass
          <5>2. CASE before.key = NoKey
            BY <2>2, <5>1, <5>2 DEF AfterModel, mine
          <5>3. CASE before.key # NoKey
            BY <2>2, <5>3 DEF AfterModel, mine
          <5> QED  BY <5>2, <5>3
        <4>2. ~sofar.ok /\ sofar = [ok |-> sofar.ok, produced |-> sofar.produced, ran |-> sofar.ran, key |-> sofar.key]
          BY <2>3, <2>5, <4>1 DEF APass
        <4>3. u[k] = [sofar EXCEPT !.ok = FALSE]
          BY <4>1, <4>2 DEF OneGraph
        <4>4. u[k] = [ok |-> FALSE, produced |-> sofar.produced, ran |-> sofar.ran, key |-> sofar.key]
          BY <4>2, <4>3
        <4> QED  BY <4>4 DEF APass
      <3> QED  BY <2>1, <3>1
    <2>6. CASE before.ok
      <3>1. /\ KeyIs(before.key, len + (k - 1), {})
            /\ Numbered(before.ran) /\ Len(before.ran) = k - 1
            /\ \A p \in 1..(k - 1) : Told(before.ran[p], p)
        BY <2>1, <2>6 DEF before
      <3>2. len + (k - 1) \in Nat /\ len + (k - 1) + 1 = len + k
        OBVIOUS
      <3>3. /\ KeyIs(Next0(before.key), len + k, {})
            /\ KeyIs(Mine(before.key), len + k, {len + k})
            /\ before.key # NoKey
        <4>1. /\ KeyIs(Next0(before.key), len + (k - 1) + 1, {})
              /\ KeyIs(Mine(before.key), len + (k - 1) + 1, {} \cup {len + (k - 1) + 1})
              /\ before.key # NoKey
          BY <3>1, <3>2, SplitFacts
        <4>2. {} \cup {len + k} = {len + k}
          OBVIOUS
        <4> QED  BY <3>2, <4>1, <4>2
      <3>4. u[k] = OneGraph(moved, model, mine, fields, Mine(before.key))
        BY <2>2, <3>3 DEF AfterModel, mine
      <3>5. APass(moved) /\ moved.ok \in BOOLEAN /\ moved.ran = before.ran /\ moved.key = Next0(before.key)
        BY <2>3 DEF APass
      <3> HIDE DEF moved
      <3> DEFINE ins == Inputs(model.program, fields, moved.produced)
                 ran == Run(model.program, mine, ins, Mine(before.key))
                 one == [graph |-> model, values |-> ran.values, draws |-> ran.draws]
      <3> HIDE DEF ins
      <3>6. /\ APass(u[k]) /\ u[k].ok \in BOOLEAN /\ u[k].key = Next0(before.key)
            /\ u[k].ok => u[k].ran = Append(before.ran, one)
        <4>1. Adds(u[k], moved, model, mine, fields, Mine(before.key))
          BY <3>4, <3>5, OneGraphFacts
        <4> QED  BY <3>5, <4>1 DEF ins, Adds
      <3>7. Told(one, k)
        <4>1. one.graph = model /\ one.draws = ran.draws
          OBVIOUS
        <4>2. len + k \in Nat
          OBVIOUS
        <4>3. \A j \in DOMAIN ran.draws :
                  j \in Nat \ {0} /\ KeyIs(ran.draws[j], len + k + j, {len + k} \cup {len + k + j})
          BY <2>4, <3>3, <4>2, RunDraws
        <4>4. \A j : {len + k} \cup {len + k + j} = {len + k, len + k + j}
          OBVIOUS
        <4> HIDE DEF one, ran
        <4> QED  BY <2>4, <4>1, <4>3, <4>4 DEF Told
      <3> HIDE DEF one
      <3>8. u[k].ok => /\ Numbered(u[k].ran) /\ Len(u[k].ran) = k
                       /\ \A p \in 1..k : Told(u[k].ran[p], p)
        <4> SUFFICES ASSUME u[k].ok
                     PROVE  /\ Numbered(u[k].ran) /\ Len(u[k].ran) = k
                            /\ \A p \in 1..k : Told(u[k].ran[p], p)
          OBVIOUS
        <4>1. /\ Numbered(u[k].ran) /\ Len(u[k].ran) = (k - 1) + 1
              /\ \A i \in 1..(k - 1) : u[k].ran[i] = before.ran[i]
              /\ u[k].ran[(k - 1) + 1] = one
          <5>1. u[k].ran = Append(before.ran, one)
            BY <3>6
          <5> QED  BY <3>1, <5>1, NumberedAppend
        <4>2. (k - 1) + 1 = k /\ \A p \in 1..k : p = k \/ p \in 1..(k - 1)
          OBVIOUS
        <4> QED  BY <3>1, <3>7, <4>1, <4>2
      <3> QED  BY <2>1, <3>3, <3>6, <3>8
    <2> QED  BY <2>3, <2>5, <2>6
  <1>5. Good(n)
    <2>1. \A k \in 0..n : k \in T
      <3> HIDE DEF T
      <3> QED  BY <1>1, <1>3, <1>4, Reaches
    <2>2. n \in 0..n
      BY <1>1
    <2>3. n \in T
      <3> HIDE DEF T
      <3> QED  BY <2>1, <2>2
    <2> HIDE DEF Good
    <2> QED  BY <2>3
  <1>6. Models(params, fields, k0) = u[n]
    BY <1>1 DEF Models, ModelsUpTo, u
  <1> QED  BY <1>5, <1>6 DEF Told, n

(* What a model declares to read is in a batch that has what models read.  *)
LEMMA ModelInputs ==
    ASSUME Opened, GraphConfigAccepts, NEW names, plan.reads \subseteq names,
           NEW p \in 1..n_models, NEW produced
    PROVE  /\ Supplied(ProgramOf(p), bind(names), produced)
           /\ \A x \in 1..Len(ProgramOf(p).inputs) :
                  Inputs(ProgramOf(p), bind(names), produced)[x] = {Field(ProgramOf(p).inputs[x].field)}
  <1>1. ModelNames[p] \in DOMAIN config.models
    BY PlanFacts
  <1>2. \A x \in DOMAIN ProgramOf(p).inputs : ProgramOf(p).inputs[x].from = "batch"
    BY <1>1 DEF GraphConfigAccepts, ReadsBatch, ProgramOf
  <1>3. \A x \in DOMAIN ProgramOf(p).inputs : ProgramOf(p).inputs[x].field \in BatchFields(ProgramOf(p))
    BY <1>2 DEF BatchFields
  <1>4. BatchFields(ProgramOf(p)) \subseteq plan.reads
    <2>1. plan.reads = UNION {BatchFields(config.models[m]) : m \in DOMAIN config.models}
      BY DEF Opened, Resolution
    <2> QED  BY <1>1, <2>1 DEF ProgramOf
  <1>5. \A x \in DOMAIN ProgramOf(p).inputs :
            /\ ProgramOf(p).inputs[x].field \in DOMAIN bind(names)
            /\ bind(names)[ProgramOf(p).inputs[x].field] = {Field(ProgramOf(p).inputs[x].field)}
    BY <1>3, <1>4 DEF bind
  <1>6. DOMAIN ProgramOf(p).inputs = 1..Len(ProgramOf(p).inputs)
    BY SliceFacts, GraphFacts
  <1> QED  BY <1>2, <1>5, <1>6 DEF Supplied, Inputs

(* What each model gives is what its program means over its own parameters *)
(* and the batch.                                                          *)
LEMMA ModelMeans ==
    ASSUME Opened, GraphConfigAccepts, NEW names, plan.reads \subseteq names,
           NEW p \in 1..n_models, NEW produced, NEW k1
    PROVE  LET program == ProgramOf(p)
               ins  == Inputs(program, bind(names), produced)
               outs == Outputs(program, ins, Run(program, slice(params, plan.models[p]), ins, k1).values)
           IN  \A o \in DOMAIN program.outputs :
                   /\ Undrawn(outs[o]) = MeantBy(ModelNames[p])[o]
                   /\ k1 = NoKey => outs[o] = MeantBy(ModelNames[p])[o]
  <1> DEFINE program == ProgramOf(p)  mine == slice(params, plan.models[p])
             ins  == Inputs(program, bind(names), produced)
             meant == [i \in DOMAIN program.inputs |-> {Field(program.inputs[i].field)}]
             outs == Outputs(program, ins, Run(program, mine, ins, k1).values)
  <1>1. /\ AGraph(program) /\ Resolved(program, Len(program.params)) /\ Len(program.params) \in Nat
        /\ \A i \in 1..Len(program.params) : mine[i].of = qualified(ModelNames[p], program.params[i].path)
    BY SliceFacts
  <1>2. DOMAIN program.inputs = 1..Len(program.inputs)
    BY <1>1, GraphFacts
  <1>3. \A x \in 1..Len(program.inputs) : ins[x] = {Field(program.inputs[x].field)}
    BY ModelInputs
  <1>4. \A x \in 1..Len(program.inputs) : ins[x] = meant[x] /\ Undrawn(ins[x]) = meant[x]
    BY <1>2, <1>3, UndrawnFacts
  <1>5. \A i \in 1..Len(program.nodes) :
            program.nodes[i].op = "parameter" =>
                mine[program.nodes[i].index].of =
                    qualified(ModelNames[p], program.params[program.nodes[i].index].path)
    <2> HIDE DEF program, mine
    <2>1. \A i \in 1..Len(program.nodes) :
              program.nodes[i].op = "parameter" =>
                  program.nodes[i].index \in Nat \ {0} /\ program.nodes[i].index <= Len(program.params)
      BY <1>1, ResolvedFacts
    <2>2. \A i \in 1..Len(program.nodes) :
              program.nodes[i].op = "parameter" => program.nodes[i].index \in 1..Len(program.params)
      BY <1>1, <2>1
    <2> QED  BY <1>1, <2>2
  <1>6. MeantBy(ModelNames[p]) = Meaning(ModelNames[p], program, meant)
    BY DEF MeantBy, ProgramOf
  <1> HIDE DEF program, mine, ins, meant
  <1>7. \A o \in DOMAIN program.outputs :
            /\ Undrawn(outs[o]) = Meaning(ModelNames[p], program, meant)[o]
            /\ k1 = NoKey => outs[o] = Meaning(ModelNames[p], program, meant)[o]
    BY <1>1, <1>4, <1>5, RunMeans
  <1> QED  BY <1>6, <1>7 DEF program, mine, ins

(* A pass over the models goes through, and gives each one's meaning under *)
(* its name.                                                               *)
LEMMA ModelsMean ==
    ASSUME Opened, GraphConfigAccepts, NEW names, plan.reads \subseteq names, NEW k0
    PROVE  LET made == Models(params, bind(names), k0)
           IN  /\ APass(made) /\ made.ok \in BOOLEAN /\ made.ok
               /\ \A m \in DOMAIN config.models : \A o \in DOMAIN config.models[m].outputs :
                      /\ qualified(m, o) \in DOMAIN made.produced
                      /\ Undrawn(made.produced[qualified(m, o)]) = MeantBy(m)[o]
                      /\ k0 = NoKey => made.produced[qualified(m, o)] = MeantBy(m)[o]
  <1> DEFINE n == n_models  fields == bind(names)  u == ModelsUpTo(params, fields, k0)
             Gives(produced, p) == \A o \in DOMAIN ProgramOf(p).outputs :
                 /\ qualified(ModelNames[p], o) \in DOMAIN produced
                 /\ Undrawn(produced[qualified(ModelNames[p], o)]) = MeantBy(ModelNames[p])[o]
                 /\ k0 = NoKey => produced[qualified(ModelNames[p], o)] = MeantBy(ModelNames[p])[o]
             Good(k) == /\ APass(u[k]) /\ u[k].ok \in BOOLEAN /\ u[k].ok
                        /\ k0 = NoKey => u[k].key = NoKey
                        /\ \A p \in 1..k : Gives(u[k].produced, p)
             T == {k \in 0..n : Good(k)}
  <1>1. n \in Nat /\ Len(plan.models) = n
    BY PlanFacts
  <1>2. /\ u[0] = [ok |-> TRUE, produced |-> <<>>, ran |-> <<>>, key |-> k0]
        /\ \A k \in 1..n : u[k] = AfterModel(u[k - 1], plan.models[k], params, fields)
    BY <1>1, ModelsRecurs
  <1> HIDE DEF u, n, fields, Gives
  <1>3. 0 \in T
    <2>1. APass(u[0]) /\ u[0].ok = TRUE /\ u[0].key = k0
      BY <1>2 DEF APass
    <2>2. \A p \in 1..0 : FALSE
      OBVIOUS
    <2>3. Good(0)
      BY <2>1, <2>2
    <2> HIDE DEF Good
    <2> QED  BY <1>1, <2>3
  <1>4. ASSUME NEW k \in 1..n, k - 1 \in T
        PROVE  k \in T
    <2> DEFINE before == u[k - 1]  model == plan.models[k]  mine == slice(params, model)
    <2>1. Good(k - 1) /\ k \in 0..n
      <3> HIDE DEF Good
      <3> QED  BY <1>1, <1>4
    <2>2. u[k] = AfterModel(before, model, params, fields)
      BY <1>2
    <2>3. /\ APass(before) /\ before.ok \in BOOLEAN /\ before.ok
          /\ k0 = NoKey => before.key = NoKey
          /\ \A p \in 1..(k - 1) : Gives(before.produced, p)
      BY <2>1
    <2>4. model.name = ModelNames[k] /\ model.program = ProgramOf(k)
      BY PlanFacts DEF n
    <2> HIDE DEF before, model, mine
    <2>5. PICK sofar, left, k1 :
              /\ u[k] = OneGraph(sofar, model, mine, fields, k1)
              /\ sofar = [before EXCEPT !.key = left]
              /\ k0 = NoKey => left = NoKey /\ k1 = NoKey
      <3>1. before = [before EXCEPT !.key = before.key]
        BY <2>3 DEF APass
      <3>2. CASE before.key = NoKey
        BY <2>2, <3>1, <3>2 DEF AfterModel, mine
      <3>3. CASE before.key # NoKey
        <4>1. k0 # NoKey
          BY <2>3, <3>3
        <4> QED  BY <2>2, <3>3, <4>1 DEF AfterModel, mine
      <3> QED  BY <3>2, <3>3
    <2>6. /\ APass(sofar) /\ sofar.ok \in BOOLEAN /\ sofar.ok
          /\ sofar.produced = before.produced /\ sofar.key = left
      BY <2>3, <2>5 DEF APass
    <2> DEFINE ins  == Inputs(model.program, fields, sofar.produced)
               outs == Outputs(model.program, ins, Run(model.program, mine, ins, k1).values)
    <2>7. Supplied(model.program, fields, sofar.produced)
      BY <2>4, ModelInputs DEF n, fields
    <2>8. \A o \in DOMAIN ProgramOf(k).outputs :
              /\ Undrawn(outs[o]) = MeantBy(ModelNames[k])[o]
              /\ k1 = NoKey => outs[o] = MeantBy(ModelNames[k])[o]
      BY <2>4, ModelMeans DEF n, fields, mine, model
    <2> HIDE DEF outs
    <2>9. /\ APass(u[k]) /\ u[k].ok \in BOOLEAN /\ u[k].ok /\ u[k].key = left
          /\ \A o \in DOMAIN ProgramOf(k).outputs :
                 /\ qualified(ModelNames[k], o) \in DOMAIN u[k].produced
                 /\ u[k].produced[qualified(ModelNames[k], o)] = outs[o]
          /\ \A m, o : m # ModelNames[k] /\ qualified(m, o) \in DOMAIN before.produced =>
                 /\ qualified(m, o) \in DOMAIN u[k].produced
                 /\ u[k].produced[qualified(m, o)] = before.produced[qualified(m, o)]
      <3>1. Adds(u[k], sofar, model, mine, fields, k1)
        BY <2>5, <2>6, OneGraphFacts
      <3>2. u[k].ok /\ APass(u[k]) /\ u[k].ok \in BOOLEAN /\ u[k].key = left
        BY <2>6, <2>7, <3>1 DEF Adds
      <3>3. \A o \in DOMAIN ProgramOf(k).outputs :
                /\ qualified(ModelNames[k], o) \in DOMAIN u[k].produced
                /\ u[k].produced[qualified(ModelNames[k], o)] = outs[o]
        BY <2>4, <3>1, <3>2 DEF Adds, OutsOf, outs
      <3>4. \A m, o : m # ModelNames[k] /\ qualified(m, o) \in DOMAIN before.produced =>
                /\ qualified(m, o) \in DOMAIN u[k].produced
                /\ u[k].produced[qualified(m, o)] = before.produced[qualified(m, o)]
        BY <2>4, <2>6, <3>1, <3>2 DEF Adds
      <3> QED  BY <3>2, <3>3, <3>4
    <2>10. Gives(u[k].produced, k)
      BY <2>5, <2>8, <2>9 DEF Gives
    <2>11. ASSUME NEW p \in 1..(k - 1)
           PROVE  Gives(u[k].produced, p)
      <3>1. Gives(before.produced, p)
        BY <2>3
      <3>2. ModelNames[p] # ModelNames[k]
        <4>1. p \in 1..n /\ p # k
          BY <1>1
        <4> QED  BY <4>1, PlanFacts DEF n
      <3> QED  BY <2>9, <3>1, <3>2 DEF Gives
    <2>12. Good(k)
      <3>1. \A p \in 1..k : p = k \/ p \in 1..(k - 1)
        OBVIOUS
      <3>2. \A p \in 1..k : Gives(u[k].produced, p)
        BY <2>10, <2>11, <3>1
      <3> QED  BY <2>5, <2>9, <3>2
    <2> HIDE DEF Good
    <2> QED  BY <2>1, <2>12
  <1>5. Good(n)
    <2>1. \A k \in 0..n : k \in T
      <3> HIDE DEF T
      <3> QED  BY <1>1, <1>3, <1>4, Reaches
    <2>2. n \in 0..n
      BY <1>1
    <2>3. n \in T
      <3> HIDE DEF T
      <3> QED  BY <2>1, <2>2
    <2> HIDE DEF Good
    <2> QED  BY <2>3
  <1>6. Models(params, fields, k0) = u[n]
    BY <1>1 DEF Models, ModelsUpTo, u
  <1>7. ASSUME NEW m \in DOMAIN config.models, NEW o \in DOMAIN config.models[m].outputs
        PROVE  /\ qualified(m, o) \in DOMAIN u[n].produced
               /\ Undrawn(u[n].produced[qualified(m, o)]) = MeantBy(m)[o]
               /\ k0 = NoKey => u[n].produced[qualified(m, o)] = MeantBy(m)[o]
    <2>1. PICK p \in 1..n : ModelNames[p] = m
      BY PlanFacts DEF n
    <2>2. Gives(u[n].produced, p)
      BY <1>5
    <2> QED  BY <2>1, <2>2 DEF Gives, ProgramOf
  <1> QED  BY <1>5, <1>6, <1>7 DEF fields

-----------------------------------------------------------------------------
(* A pass with its objective. *)

ObjectiveGraph == Graph(OBJECTIVE, config.objective, 0)

LEMMA ObjectiveFacts ==
    ASSUME Opened
    PROVE  /\ config.objective = NoObjective => Objective = <<>>
           /\ config.objective # NoObjective =>
                  /\ Objective # <<>> /\ Objective[1] = ObjectiveGraph
                  /\ ObjectiveGraph.name = OBJECTIVE /\ ObjectiveGraph.program = config.objective
                  /\ AGraph(config.objective) /\ Resolved(config.objective, 0)
           /\ Numbered(Objective)
  <1>1. config.objective # NoObjective => AGraph(config.objective) /\ Resolved(config.objective, 0)
    BY DescribedFacts DEF Opened, resolve
  <1>2. config.objective # NoObjective => Objective = <<ObjectiveGraph>>
    BY DEF Objective, ObjectiveGraph
  <1>3. Numbered(<<ObjectiveGraph>>) /\ <<ObjectiveGraph>> # <<>> /\ <<ObjectiveGraph>>[1] = ObjectiveGraph
    <2>1. <<ObjectiveGraph>> \in Seq({ObjectiveGraph})
      OBVIOUS
    <2> QED  BY <2>1 DEF Numbered
  <1>4. config.objective = NoObjective => Objective = <<>>
    BY DEF Objective
  <1>5. ObjectiveGraph.name = OBJECTIVE /\ ObjectiveGraph.program = config.objective
    BY DEF ObjectiveGraph, Graph
  <1> QED  BY <1>1, <1>2, <1>3, <1>4, <1>5, EmptyIsNumbered

(* What a batch must carry has all that any of the graphs reads from it.   *)
LEMMA PlanInputs ==
    ASSUME Opened
    PROVE  /\ plan.reads \subseteq plan.inputs
           /\ config.objective # NoObjective => BatchFields(config.objective) \subseteq plan.inputs
  <1> DEFINE graphs == plan.models \o Objective
  <1>1. plan.inputs = UNION {BatchFields(graphs[g].program) : g \in DOMAIN graphs}
    <2>1. plan = Resolution
      BY DEF Opened
    <2> QED  BY <2>1 DEF Resolution
  <1>2. plan.reads = UNION {BatchFields(config.models[m]) : m \in DOMAIN config.models}
    BY DEF Opened, Resolution
  <1>3. Numbered(plan.models) /\ Numbered(Objective)
    <2>1. plan.models = [p \in 1..n_models |-> plan.models[p]]
      <3>1. plan.models = [p \in DOMAIN ModelNames |-> plan.models[p]]
        BY DEF Opened, Resolution, ModelNames
      <3>2. DOMAIN plan.models = 1..n_models
        BY PlanFacts
      <3> QED  BY <3>1, <3>2
    <2>2. n_models \in Nat
      BY PlanFacts
    <2> QED  BY <2>1, <2>2, IndexedIsNumbered, ObjectiveFacts
  <1>4. /\ DOMAIN graphs = 1..(n_models + Len(Objective))
        /\ \A p \in 1..n_models : graphs[p] = plan.models[p]
        /\ \A i \in 1..Len(Objective) : graphs[n_models + i] = Objective[i]
    BY <1>3, ConcatFacts DEF n_models
  <1>5. n_models \in Nat /\ Len(Objective) \in Nat
    BY <1>3, NumberedFacts DEF n_models
  <1> HIDE DEF graphs
  <1>6. ASSUME NEW m \in DOMAIN config.models
        PROVE  BatchFields(config.models[m]) \subseteq plan.inputs
    <2>1. PICK p \in 1..n_models : ModelNames[p] = m
      BY PlanFacts
    <2>2. graphs[p].program = config.models[m]
      BY <1>4, <2>1, PlanFacts DEF ProgramOf
    <2>3. p \in DOMAIN graphs
      BY <1>4, <1>5
    <2> QED  BY <1>1, <2>2, <2>3
  <1>7. ASSUME config.objective # NoObjective
        PROVE  BatchFields(config.objective) \subseteq plan.inputs
    <2>1. Objective = <<ObjectiveGraph>>
      BY <1>7 DEF Objective, ObjectiveGraph
    <2>2. Len(Objective) = 1 /\ Objective[1] = ObjectiveGraph
      BY <2>1
    <2>3. n_models + 1 \in DOMAIN graphs /\ graphs[n_models + 1].program = config.objective
      BY <1>4, <1>5, <1>7, <2>2, ObjectiveFacts
    <2> QED  BY <1>1, <2>3
  <1> QED  BY <1>2, <1>6, <1>7

(* Every draw of a pass tells its graph and its place.                     *)
DrawnAt(g, i, k, len) ==
    \/ g \in 1..n_models /\ KeyIs(k, len + g + i, {len + g, len + g + i})
    \/ g = n_models + 1 /\ KeyIs(k, len + n_models + i, {len + n_models + i})

LEMMA ForwardDraws ==
    ASSUME Opened, NEW fields, NEW k0, NEW len \in Nat, KeyIs(k0, len, {}),
           forward(params, fields, k0).ok
    PROVE  \A g \in DOMAIN forward(params, fields, k0).ran :
               /\ g \in Nat
               /\ \A i \in DOMAIN forward(params, fields, k0).ran[g].draws :
                      /\ i \in Nat \ {0}
                      /\ DrawnAt(g, i, forward(params, fields, k0).ran[g].draws[i], len)
  <1> DEFINE n == n_models  pass == forward(params, fields, k0)  made == Models(params, fields, k0)
             Told(one, g) == \A i \in DOMAIN one.draws :
                                 i \in Nat \ {0} /\ DrawnAt(g, i, one.draws[i], len)
  <1>1. n \in Nat /\ n_models = n
    BY PlanFacts
  <1>2. /\ APass(made) /\ made.ok \in BOOLEAN
        /\ made.ok => /\ KeyIs(made.key, len + n, {})
                      /\ Numbered(made.ran) /\ Len(made.ran) = n
                      /\ \A p \in 1..n :
                             \A j \in DOMAIN made.ran[p].draws :
                                 /\ j \in Nat \ {0}
                                 /\ KeyIs(made.ran[p].draws[j], len + p + j, {len + p, len + p + j})
    BY ModelsDraws
  <1> HIDE DEF n, made
  <1>3. made.ok => /\ DOMAIN made.ran = 1..n
                   /\ \A g \in DOMAIN made.ran : g \in Nat /\ Told(made.ran[g], g)
    <2> SUFFICES ASSUME made.ok
                 PROVE  DOMAIN made.ran = 1..n /\ \A g \in DOMAIN made.ran : g \in Nat /\ Told(made.ran[g], g)
      OBVIOUS
    <2>1. DOMAIN made.ran = 1..n
      BY <1>2, NumberedFacts
    <2>2. ASSUME NEW g \in 1..n, NEW j \in DOMAIN made.ran[g].draws
          PROVE  j \in Nat \ {0} /\ DrawnAt(g, j, made.ran[g].draws[j], len)
      BY <1>1, <1>2 DEF DrawnAt
    <2>3. \A g \in 1..n : g \in Nat
      BY <1>1
    <2> QED  BY <2>1, <2>2, <2>3
  <1>4. CASE config.objective = NoObjective
    <2>1. pass = made
      BY <1>4, ObjectiveFacts DEF forward, made
    <2> HIDE DEF pass, Told
    <2>2. \A g \in DOMAIN pass.ran : g \in Nat /\ Told(pass.ran[g], g)
      BY <1>3, <2>1 DEF pass
    <2> QED  BY <2>2 DEF pass, Told
  <1>5. CASE config.objective # NoObjective
    <2>1. pass = OneGraph(made, ObjectiveGraph, <<>>, fields, made.key)
      BY <1>5, ObjectiveFacts DEF forward, made
    <2>2. Adds(pass, made, ObjectiveGraph, <<>>, fields, made.key)
      BY <1>2, <2>1, OneGraphFacts
    <2> DEFINE ran == Run(ObjectiveGraph.program, <<>>, Inputs(ObjectiveGraph.program, fields, made.produced), made.key)
               one == [graph |-> ObjectiveGraph, values |-> ran.values, draws |-> ran.draws]
    <2>3. pass.ok
      OBVIOUS
    <2> HIDE DEF pass
    <2>4. made.ok /\ pass.ran = Append(made.ran, one)
      BY <2>2, <2>3 DEF Adds
    <2>5. Told(one, n + 1)
      <3>1. Numbered(ObjectiveGraph.program.nodes)
        BY <1>5, ObjectiveFacts, GraphFacts
      <3>2. KeyIs(made.key, len + n, {}) /\ len + n \in Nat
        BY <1>1, <1>2, <2>4
      <3>3. \A j \in DOMAIN ran.draws :
                j \in Nat \ {0} /\ KeyIs(ran.draws[j], len + n + j, {} \cup {len + n + j})
        BY <3>1, <3>2, RunDraws
      <3>4. one.draws = ran.draws
        OBVIOUS
      <3>5. \A j : {} \cup {len + n + j} = {len + n + j}
        OBVIOUS
      <3> HIDE DEF one, ran
      <3> QED  BY <1>1, <3>3, <3>4, <3>5 DEF DrawnAt
    <2> HIDE DEF one
    <2>6. \A g \in DOMAIN pass.ran : g \in Nat /\ Told(pass.ran[g], g)
      <3>1. /\ DOMAIN pass.ran = 1..(Len(made.ran) + 1)
            /\ \A i \in 1..Len(made.ran) : pass.ran[i] = made.ran[i]
            /\ pass.ran[Len(made.ran) + 1] = one
        BY <1>2, <2>4, NumberedAppend
      <3>2. Len(made.ran) = n /\ n + 1 \in Nat /\ \A g \in 1..(n + 1) : g = n + 1 \/ g \in 1..n
        BY <1>1, <1>2, <2>4
      <3> HIDE DEF Told
      <3> QED  BY <1>3, <2>4, <2>5, <3>1, <3>2
    <2> HIDE DEF Told
    <2> QED  BY <2>6 DEF pass, Told
  <1> QED  BY <1>4, <1>5

(* One of a set of one is its first by name.                               *)
LEMMA OnlyFacts ==
    ASSUME NEW S, S \subseteq Range(Names), Cardinality(S) = 1
    PROVE  /\ S = {TheOnly(S)} /\ First(S) = TheOnly(S)
  <1>1. IsFiniteSet(S)
    <2>1. Numbered(Names)
      BY NamesAssumption DEF Numbered, IsSequence
    <2>2. Len(Names) \in Nat /\ DOMAIN Names = 1..Len(Names)
      BY <2>1, NumberedFacts
    <2>3. IsFiniteSet(DOMAIN Names)
      BY <2>2, FS_Interval
    <2>4. Names \in Surjection(DOMAIN Names, Range(Names))
      <3>1. Numbered(Names)
        BY <2>1
      <3>2. \A i \in DOMAIN Names : Names[i] \in Range(Names)
        BY DEF Range
      <3>3. \A x \in Range(Names) : \E i \in DOMAIN Names : Names[i] = x
        BY DEF Range
      <3>4. Names = [i \in DOMAIN Names |-> Names[i]]
        BY <2>2, NamesAssumption DEF IsSequence
      <3>5. Names \in [DOMAIN Names -> Range(Names)]
        BY <3>2, <3>4
      <3> QED  BY <3>3, <3>5 DEF Surjection
    <2>5. IsFiniteSet(Range(Names))
      BY <2>3, <2>4, FS_Surjection
    <2> QED  BY <2>5, FS_Subset
  <1>2. PICK x : S = {x}
    BY <1>1, FS_Singleton
  <1>3. TheOnly(S) = x
    BY <1>2 DEF TheOnly
  <1>4. First(S) \in S
    BY <1>2, FirstFacts
  <1> QED  BY <1>2, <1>3, <1>4

(* A pass over what GraphConfig accepts goes through, and its loss is what *)
(* the description means by it.                                            *)
LEMMA ForwardMeans ==
    ASSUME Opened, GraphConfigAccepts, NEW names, plan.inputs \subseteq names, NEW k0
    PROVE  /\ forward(params, bind(names), k0).ok
           /\ config.train # {} => Undrawn(LossOf(forward(params, bind(names), k0))) = MeantLoss
  <1> DEFINE fields == bind(names)  made == Models(params, fields, k0)
             pass == forward(params, fields, k0)
  <1>1. plan.reads \subseteq names
    BY PlanInputs
  <1>2. /\ APass(made) /\ made.ok \in BOOLEAN /\ made.ok
        /\ \A m \in DOMAIN config.models : \A o \in DOMAIN config.models[m].outputs :
               /\ qualified(m, o) \in DOMAIN made.produced
               /\ Undrawn(made.produced[qualified(m, o)]) = MeantBy(m)[o]
    BY <1>1, ModelsMean
  <1>3. CASE config.objective = NoObjective
    <2>1. pass = made /\ Objective = <<>>
      BY <1>3, ObjectiveFacts DEF forward
    <2>2. ASSUME config.train # {}
          PROVE  Undrawn(LossOf(pass)) = MeantLoss
      <3> DEFINE m == TheOnly(DOMAIN config.models)  o == TheOnly(DOMAIN config.models[m].outputs)
      <3>1. /\ Cardinality(DOMAIN config.models) = 1
            /\ \A x \in DOMAIN config.models : Cardinality(DOMAIN config.models[x].outputs) = 1
        BY <1>3, <2>2 DEF GraphConfigAccepts
      <3>2. DOMAIN config.models = {m}
        BY <3>1, DescribedFacts, OnlyFacts DEF Opened
      <3>3. DOMAIN config.models[m].outputs \subseteq Range(Names)
        BY <3>2, DescribedFacts DEF Opened, AGraph
      <3>4. DOMAIN config.models[m].outputs = {o} /\ First(DOMAIN config.models[m].outputs) = o
        BY <3>1, <3>2, <3>3, OnlyFacts
      <3>5. plan.models[1].name = m /\ plan.models[1].program = config.models[m]
        <4>1. 1 \in 1..n_models
          BY PlanFacts
        <4>2. /\ ModelNames[1] \in DOMAIN config.models
              /\ plan.models[1].name = ModelNames[1]
              /\ plan.models[1].program = config.models[ModelNames[1]]
          BY <4>1, PlanFacts DEF ProgramOf
        <4> QED  BY <3>2, <4>2
      <3> HIDE DEF m, o, made, pass
      <3>6. LossOf(pass) = made.produced[qualified(m, o)]
        BY <2>1, <3>4, <3>5 DEF LossOf
      <3>7. MeantLoss = MeantBy(m)[o]
        BY <1>3 DEF MeantLoss, m, o
      <3> QED  BY <1>2, <3>2, <3>4, <3>6, <3>7
    <2> QED  BY <1>2, <2>1, <2>2
  <1>4. CASE config.objective # NoObjective
    <2> DEFINE program == config.objective  from == config.objective.inputs
               meant == [i \in DOMAIN from |->
                            IF from[i].from = "batch" THEN {Field(from[i].field)}
                            ELSE MeantBy(from[i].model)[from[i].output]]
               ins  == Inputs(program, fields, made.produced)
               outs == Outputs(program, ins, Run(program, <<>>, ins, made.key).values)
    <2>1. pass = OneGraph(made, ObjectiveGraph, <<>>, fields, made.key)
      BY <1>4, ObjectiveFacts DEF forward
    <2> HIDE DEF made, pass
    <2>2. Adds(pass, made, ObjectiveGraph, <<>>, fields, made.key)
      BY <1>2, <2>1, OneGraphFacts
    <2>3. /\ ObjectiveGraph.name = OBJECTIVE /\ ObjectiveGraph.program = program
          /\ AGraph(program) /\ Resolved(program, 0)
      BY <1>4, ObjectiveFacts
    <2>4. DOMAIN from = 1..Len(from)
      BY <2>3, GraphFacts
    <2>5. DOMAIN program.outputs = {LOSS} /\ Wired(program)
      BY <1>4 DEF GraphConfigAccepts
    <2>6. ASSUME NEW i \in DOMAIN from, from[i].from = "batch"
          PROVE  /\ from[i].field \in DOMAIN fields
                 /\ fields[from[i].field] = {Field(from[i].field)}
      <3>1. from[i].field \in BatchFields(program)
        BY <2>6 DEF BatchFields
      <3>2. from[i].field \in names
        BY <1>4, <3>1, PlanInputs
      <3> QED  BY <3>2 DEF bind
    <2>7. ASSUME NEW i \in DOMAIN from, from[i].from # "batch"
          PROVE  /\ qualified(from[i].model, from[i].output) \in DOMAIN made.produced
                 /\ Undrawn(made.produced[qualified(from[i].model, from[i].output)]) =
                        MeantBy(from[i].model)[from[i].output]
      <3>1. from[i].from = "model"
        BY <2>3, <2>7 DEF AGraph
      <3>2. from[i].model \in DOMAIN config.models /\ from[i].output \in DOMAIN config.models[from[i].model].outputs
        BY <2>5, <3>1 DEF Wired
      <3> QED  BY <1>2, <3>2
    <2> HIDE DEF fields
    <2>8. Supplied(program, fields, made.produced)
      BY <2>6, <2>7 DEF Supplied
    <2>9. pass.ok
      BY <1>2, <2>2, <2>3, <2>8 DEF Adds
    <2>10. \A x \in 1..Len(program.inputs) : Undrawn(ins[x]) = meant[x]
      BY <2>4, <2>6, <2>7, UndrawnFacts DEF Inputs
    <2>11. \A i \in 1..Len(program.nodes) : program.nodes[i].op # "parameter"
      <3>1. \A i \in 1..Len(program.nodes) :
                program.nodes[i].op = "parameter" =>
                    program.nodes[i].index \in Nat \ {0} /\ program.nodes[i].index <= 0
        BY <2>3, ResolvedFacts
      <3> QED  BY <3>1
    <2> HIDE DEF program, meant, ins
    <2>12. \A o \in DOMAIN program.outputs : Undrawn(outs[o]) = Meaning(OBJECTIVE, program, meant)[o]
      BY <2>3, <2>10, <2>11, RunMeans
    <2> HIDE DEF outs
    <2>13. LossOf(pass) = outs[LOSS]
      <3>1. First({LOSS}) = LOSS
        <4>1. {LOSS} \subseteq Range(Names)
          BY <2>3, <2>5 DEF AGraph
        <4> QED  BY <4>1, FirstFacts
      <3>2. Objective # <<>> /\ Objective[1] = ObjectiveGraph
        BY <1>4, ObjectiveFacts
      <3>3. LossOf(pass) = pass.produced[qualified(OBJECTIVE, LOSS)]
        BY <2>3, <2>5, <3>1, <3>2 DEF LossOf
      <3>4. pass.produced[qualified(OBJECTIVE, LOSS)] = OutsOf(made, ObjectiveGraph, <<>>, fields, made.key)[LOSS]
        BY <2>2, <2>3, <2>5, <2>9 DEF Adds
      <3> QED  BY <2>3, <3>3, <3>4 DEF OutsOf, outs, ins
    <2>14. MeantLoss = Meaning(OBJECTIVE, program, meant)[LOSS]
      BY <1>4 DEF MeantLoss, program, meant
    <2> QED  BY <2>5, <2>9, <2>12, <2>13, <2>14 DEF pass, fields
  <1> QED  BY <1>3, <1>4

-----------------------------------------------------------------------------
(* What a pass leaves to be seen. *)

(* Of each graph that ran there are so many values.                        *)
Shaped(ran) == Numbered(ran) /\ \A g \in DOMAIN ran : Numbered(ran[g].values)

LEMMA AddsShaped ==
    ASSUME NEW next, NEW sofar, NEW graph, NEW mine, NEW fields, NEW k,
           Adds(next, sofar, graph, mine, fields, k), next.ok,
           sofar.ok => Shaped(sofar.ran),
           AGraph(graph.program), NEW declared, Resolved(graph.program, declared)
    PROVE  Shaped(next.ran)
  <1> DEFINE ran == Run(graph.program, mine, Inputs(graph.program, fields, sofar.produced), k)
             one == [graph |-> graph, values |-> ran.values, draws |-> ran.draws]
  <1>1. sofar.ok /\ next.ran = Append(sofar.ran, one)
    BY DEF Adds
  <1>2. Numbered(ran.values)
    BY ResolvedFacts, GraphFacts, RunValues
  <1>3. Numbered(one.values)
    BY <1>2
  <1> HIDE DEF one
  <1>4. Numbered(sofar.ran) /\ \A g \in 1..Len(sofar.ran) : Numbered(sofar.ran[g].values)
    BY <1>1, NumberedFacts DEF Shaped
  <1>5. /\ Numbered(next.ran) /\ DOMAIN next.ran = 1..(Len(sofar.ran) + 1) /\ Len(sofar.ran) \in Nat
        /\ \A g \in 1..Len(sofar.ran) : next.ran[g] = sofar.ran[g]
        /\ next.ran[Len(sofar.ran) + 1] = one
    BY <1>1, <1>4, NumberedAppend
  <1>6. \A g \in 1..(Len(sofar.ran) + 1) : g = Len(sofar.ran) + 1 \/ g \in 1..Len(sofar.ran)
    BY <1>5
  <1>7. \A g \in DOMAIN next.ran : Numbered(next.ran[g].values)
    BY <1>3, <1>4, <1>5, <1>6
  <1> QED  BY <1>5, <1>7 DEF Shaped

LEMMA ModelsShaped ==
    ASSUME Opened, NEW fields, NEW k0
    PROVE  LET made == Models(params, fields, k0)
           IN  APass(made) /\ made.ok \in BOOLEAN /\ (made.ok => Shaped(made.ran))
  <1> DEFINE n == n_models  u == ModelsUpTo(params, fields, k0)
             Good(k) == APass(u[k]) /\ u[k].ok \in BOOLEAN /\ (u[k].ok => Shaped(u[k].ran))
             T == {k \in 0..n : Good(k)}
  <1>1. n \in Nat /\ Len(plan.models) = n
    BY PlanFacts
  <1>2. /\ u[0] = [ok |-> TRUE, produced |-> <<>>, ran |-> <<>>, key |-> k0]
        /\ \A k \in 1..n : u[k] = AfterModel(u[k - 1], plan.models[k], params, fields)
    BY <1>1, ModelsRecurs
  <1> HIDE DEF u, n
  <1>3. 0 \in T
    <2>1. APass(u[0]) /\ u[0].ok = TRUE /\ u[0].ran = <<>>
      BY <1>2 DEF APass
    <2>2. Shaped(u[0].ran)
      BY <2>1, EmptyIsNumbered DEF Shaped
    <2>3. 0 \in 0..n
      BY <1>1
    <2>4. Good(0)
      BY <2>1, <2>2
    <2> HIDE DEF Good
    <2> QED  BY <2>3, <2>4
  <1>4. ASSUME NEW k \in 1..n, k - 1 \in T
        PROVE  k \in T
    <2> DEFINE before == u[k - 1]  model == plan.models[k]  mine == slice(params, model)
    <2>1. Good(k - 1) /\ k \in 0..n
      <3> HIDE DEF Good
      <3> QED  BY <1>1, <1>4
    <2>2. u[k] = AfterModel(before, model, params, fields)
      BY <1>2
    <2>3. APass(before) /\ before.ok \in BOOLEAN /\ (before.ok => Shaped(before.ran))
      BY <2>1
    <2>4. /\ AGraph(model.program)
          /\ Resolved(model.program, Len(model.program.params))
      <3>1. ModelNames[k] \in DOMAIN config.models /\ model.program = config.models[ModelNames[k]]
        BY PlanFacts DEF n, ProgramOf
      <3> QED  BY <3>1, DescribedFacts DEF Opened, resolve
    <2> HIDE DEF before, model, mine
    <2>5. PICK sofar, left, k1 :
              /\ u[k] = OneGraph(sofar, model, mine, fields, k1)
              /\ sofar = [before EXCEPT !.key = left]
      <3>1. before = [before EXCEPT !.key = before.key]
        BY <2>3 DEF APass
      <3>2. CASE before.key = NoKey
        BY <2>2, <3>1, <3>2 DEF AfterModel, mine
      <3>3. CASE before.key # NoKey
        BY <2>2, <3>3 DEF AfterModel, mine
      <3> QED  BY <3>2, <3>3
    <2>6. /\ APass(sofar) /\ sofar.ok \in BOOLEAN
          /\ sofar.ok => Shaped(sofar.ran)
      BY <2>3, <2>5 DEF APass
    <2>7. Adds(u[k], sofar, model, mine, fields, k1)
      BY <2>5, <2>6, OneGraphFacts
    <2>8. u[k].ok => Shaped(u[k].ran)
      BY <2>4, <2>6, <2>7, AddsShaped
    <2>9. APass(u[k]) /\ u[k].ok \in BOOLEAN
      BY <2>7 DEF Adds
    <2> QED  BY <2>1, <2>8, <2>9
  <1>5. Good(n)
    <2>1. \A k \in 0..n : k \in T
      <3> HIDE DEF T
      <3> QED  BY <1>1, <1>3, <1>4, Reaches
    <2>2. n \in T
      <3>1. n \in 0..n
        BY <1>1
      <3> HIDE DEF T
      <3> QED  BY <2>1, <3>1
    <2> HIDE DEF Good
    <2> QED  BY <2>2
  <1>6. Models(params, fields, k0) = u[n]
    BY <1>1 DEF Models, ModelsUpTo, u
  <1> QED  BY <1>5, <1>6

LEMMA ForwardShaped ==
    ASSUME Opened, NEW fields, NEW k0, forward(params, fields, k0).ok
    PROVE  Shaped(forward(params, fields, k0).ran)
  <1> DEFINE pass == forward(params, fields, k0)  made == Models(params, fields, k0)
  <1>1. APass(made) /\ made.ok \in BOOLEAN /\ (made.ok => Shaped(made.ran))
    BY ModelsShaped
  <1>2. CASE config.objective = NoObjective
    <2>1. pass = made
      BY <1>2, ObjectiveFacts DEF forward
    <2> QED  BY <1>1, <2>1
  <1>3. CASE config.objective # NoObjective
    <2>1. pass = OneGraph(made, ObjectiveGraph, <<>>, fields, made.key)
      BY <1>3, ObjectiveFacts DEF forward
    <2> HIDE DEF made
    <2>2. Adds(pass, made, ObjectiveGraph, <<>>, fields, made.key)
      BY <1>1, <2>1, OneGraphFacts
    <2>3. AGraph(ObjectiveGraph.program) /\ Resolved(ObjectiveGraph.program, 0)
      BY <1>3, ObjectiveFacts
    <2>4. pass.ok
      OBVIOUS
    <2> HIDE DEF pass
    <2> QED  BY <1>1, <2>2, <2>3, <2>4, AddsShaped DEF pass
  <1> QED  BY <1>2, <1>3

LEMMA GreatestOf ==
    ASSUME NEW S \in SUBSET Nat, S # {}, NEW b \in Nat, \A x \in S : x <= b
    PROVE  \E j \in S : \A i \in S : i <= j
  <1> DEFINE R == {b - x : x \in S}
  <1>1. R \in SUBSET Nat /\ R # {}
    <2>1. \A x \in S : b - x \in Nat
      OBVIOUS
    <2> QED  BY <2>1
  <1>2. PICK r \in R : \A q \in R : r <= q
    <2> HIDE DEF R
    <2> QED  BY <1>1, LeastOf
  <1>3. PICK j \in S : r = b - j
    BY <1>2
  <1>4. \A i \in S : b - j <= b - i
    BY <1>2, <1>3
  <1> QED  BY <1>4

Behind(at, by) == at[1] < by[1] \/ (at[1] = by[1] /\ at[2] <= by[2])

(* Of some nodes of a pass there is one that ran last.                     *)
LEMMA LatestOf ==
    ASSUME NEW pass, Shaped(pass.ran), NEW S \in SUBSET NodesOf(pass), S # {}
    PROVE  \E by \in S : \A at \in S : Behind(at, by)
  <1>1. /\ Len(pass.ran) \in Nat /\ DOMAIN pass.ran = 1..Len(pass.ran)
        /\ \A g \in DOMAIN pass.ran : /\ Len(pass.ran[g].values) \in Nat
                                       /\ DOMAIN pass.ran[g].values = 1..Len(pass.ran[g].values)
    BY NumberedFacts DEF Shaped
  <1>2. \A at \in S : /\ at = <<at[1], at[2]>>
                      /\ at[1] \in 1..Len(pass.ran)
                      /\ at[2] \in 1..Len(pass.ran[at[1]].values)
    BY <1>1 DEF NodesOf
  <1> DEFINE G == {at[1] : at \in S}
  <1>3. G \in SUBSET Nat /\ G # {} /\ \A x \in G : x <= Len(pass.ran)
    BY <1>1, <1>2
  <1>4. PICK g \in G : \A h \in G : h <= g
    <2> HIDE DEF G
    <2> QED  BY <1>1, <1>3, GreatestOf
  <1> DEFINE I == {at[2] : at \in {x \in S : x[1] = g}}
  <1>5. I \in SUBSET Nat /\ I # {} /\ Len(pass.ran[g].values) \in Nat
        /\ \A x \in I : x <= Len(pass.ran[g].values)
    BY <1>1, <1>2, <1>4
  <1>6. PICK i \in I : \A h \in I : h <= i
    <2> HIDE DEF I
    <2> QED  BY <1>5, GreatestOf
  <1>7. PICK by \in S : by[1] = g /\ by[2] = i
    BY <1>6
  <1>8. ASSUME NEW at \in S
        PROVE  Behind(at, by)
    <2>1. at[1] <= g /\ at[1] \in Nat /\ g \in Nat
      BY <1>2, <1>3, <1>4
    <2>2. at[1] = g => at[2] <= i
      BY <1>6
    <2> QED  BY <1>7, <2>1, <2>2 DEF Behind
  <1> QED  BY <1>8

-----------------------------------------------------------------------------
(* The invariant: once it is open, a session has the plan and parameters   *)
(* its description says; the key it draws from next tells the steps it has *)
(* taken, and each draw so far the step, the graph and the place; and what *)
(* the taps report is of the last pass.                                    *)

ArgnumsIn(some) == \A k \in DOMAIN some : some[k] \in DOMAIN plan.all
KeysTold(keys, len) ==
    \A at \in DOMAIN keys :
        \E g \in Nat : \E i \in Nat \ {0} : at = <<g, i>> /\ DrawnAt(g, i, keys[at], len)
DrawsTold(passes) ==
    /\ Numbered(passes)
    /\ \A p \in DOMAIN passes : passes[p].step \in Nat /\ KeysTold(passes[p].keys, passes[p].step)
AnswerMeans(given) ==
    GraphConfigAccepts =>
        /\ given.call # "unwired"
        /\ given.call = "loss" /\ config.train # {} => Undrawn(given.of) = MeantLoss
        /\ given.call = "outputs" =>
               \A n \in DOMAIN given.of : given.of[n] = MeantBy(n[1])[n[2]]
        /\ given.call = "gradients" =>
               \A k \in DOMAIN given.of : given.of[k].path = given.of[k].by
TapsTold(kept, made) ==
    LET named(n) == {at \in NodesOf(made.pass) : NameAt(made.pass, at) = n}
    IN  /\ DOMAIN kept = {n \in made.asked : named(n) # {}}
        /\ \A n \in DOMAIN kept : \E at \in named(n) :
               /\ kept[n] = made.pass.ran[at[1]].values[at[2]]
               /\ \A by \in named(n) : by[1] < at[1] \/ (by[1] = at[1] /\ by[2] <= at[2])
LossTold(given, made) == given.call = "loss" => given.of = LossOf(made.pass)

IInv ==
    /\ Described
    /\ step \in Nat /\ KeyIs(rng, step, {})
    /\ phase = "open" =>
           /\ Opened /\ ArgnumsIn(argnums)
           /\ taps \subseteq plan.nodes
           /\ DrawsTold(drawn)
    /\ phase # "open" =>
           /\ params = <<>> /\ drawn = <<>> /\ answer = Nothing
           /\ taps = {} /\ tapped = <<>>
    /\ AnswerMeans(answer)
    /\ TapsTold(tapped, last)
    /\ LossTold(answer, last)

LEMMA AnswersNothing ==
    ASSUME NEW why, why \notin {"unwired", "loss", "outputs", "gradients"}
    PROVE  AnswerMeans([call |-> why])
  BY DEF AnswerMeans

LEMMA InitKeeps == Init => IInv
  <1> SUFFICES ASSUME Init
               PROVE  IInv
    OBVIOUS
  <1>1. Described
    BY DEF Init, Described
  <1>2. KeyIs(rng, 0, {})
    <2>1. rng = <<>>
      BY DEF Init, key
    <2>2. rng \in Seq({0, 1}) /\ Len(rng) = 0
      BY <2>1
    <2> QED  BY <2>2 DEF KeyIs
  <1>3. AnswerMeans(answer)
    BY AnswersNothing DEF Init, Nothing
  <1>4. TapsTold(tapped, last)
    <2>1. last.asked = {} /\ DOMAIN tapped = {}
      BY DEF Init, NoPass
    <2> QED  BY <2>1 DEF TapsTold
  <1>5. LossTold(answer, last)
    BY DEF Init, Nothing, LossTold
  <1> QED  BY <1>1, <1>2, <1>3, <1>4, <1>5 DEF Init, IInv

(* What depends on the description alone stays as it is.                   *)
LEMMA Same ==
    ASSUME UNCHANGED <<config, source>>
    PROVE  /\ Described' = Described
           /\ Resolution' = Resolution
           /\ ModelNames' = ModelNames
           /\ GraphConfigAccepts' = GraphConfigAccepts
           /\ MeantLoss' = MeantLoss
           /\ \A m : MeantBy(m)' = MeantBy(m)
  <1>1. Described' = Described
    BY DEF Described
  <1>2. Resolution' = Resolution
    BY DEF Resolution, Laid, Own, Objective, Graph, BatchFields, NamedNodes, qualified, InOrder, Kept
  <1>3. ModelNames' = ModelNames
    BY DEF ModelNames, InOrder, Kept
  <1>4. GraphConfigAccepts' = GraphConfigAccepts
    BY DEF GraphConfigAccepts, ReadsBatch, Wired
  <1>5. MeantLoss' = MeantLoss
    BY DEF MeantLoss, MeantBy, Meaning, Of, TheOnly, Field, qualified
  <1>6. \A m : MeantBy(m)' = MeantBy(m)
    BY DEF MeantBy, Meaning, Of, Field, qualified
  <1> QED  BY <1>1, <1>2, <1>3, <1>4, <1>5, <1>6

LEMMA SameOpened ==
    ASSUME UNCHANGED <<config, source>>, Described,
           plan' = Resolution, resolve(Resolution),
           params' = materialize(Resolution), Missing \notin Range(params')
    PROVE  Opened'
  <1>1. Described' /\ plan' = Resolution'
    BY Same
  <1>2. resolve(plan)'
    BY DEF resolve
  <1>3. params' = materialize(plan)'
    BY DEF materialize, parameter, build, Array, Missing, Mine, key
  <1>4. (Missing \notin Range(params))'
    BY DEF Missing, Array, Range
  <1> QED  BY <1>1, <1>2, <1>3, <1>4 DEF Opened

LEMMA SameDrawnAt ==
    ASSUME UNCHANGED <<config, source, plan>>
    PROVE  /\ \A g, i, k, len : DrawnAt(g, i, k, len)' = DrawnAt(g, i, k, len)
           /\ \A pass : LossOf(pass)' = LossOf(pass)
  <1>1. \A g, i, k, len : DrawnAt(g, i, k, len)' = DrawnAt(g, i, k, len)
    BY DEF DrawnAt, n_models, KeyIs
  <1>2. \A pass : LossOf(pass)' = LossOf(pass)
    BY DEF LossOf, Objective, Graph, First, InOrder, Kept, qualified
  <1> QED  BY <1>1, <1>2

(* A call of an open session leaves its description, its plan and its      *)
(* parameters; what is left to show of it is the rest.                     *)
LEMMA CallKeeps ==
    ASSUME IInv, phase = "open", UNCHANGED <<settled, params>>,
           ArgnumsIn(argnums'), taps' \subseteq plan.nodes, DrawsTold(drawn'),
           step' \in Nat, KeyIs(rng', step', {}),
           AnswerMeans(answer'), TapsTold(tapped', last'), LossTold(answer', last')
    PROVE  IInv'
  <1>1. UNCHANGED <<config, source, phase, plan, params>>
    BY DEF settled
  <1>2. Described' /\ Opened'
    <2>1. Opened /\ Described
      BY DEF IInv
    <2>2. /\ plan' = Resolution /\ resolve(Resolution)
          /\ params' = materialize(Resolution) /\ Missing \notin Range(params')
      BY <1>1, <2>1 DEF Opened
    <2> QED  BY <1>1, <2>1, <2>2, Same, SameOpened
  <1>3. ArgnumsIn(argnums)'
    BY <1>1 DEF ArgnumsIn
  <1>4. DrawsTold(drawn)'
    <2>1. \A g, i, k, len : DrawnAt(g, i, k, len)' = DrawnAt(g, i, k, len)
      BY <1>1, SameDrawnAt
    <2>2. DrawsTold(drawn')
      OBVIOUS
    <2> QED  BY <2>1, <2>2 DEF DrawsTold, KeysTold, Numbered
  <1>5. AnswerMeans(answer)'
    BY <1>1, Same DEF AnswerMeans
  <1>6. TapsTold(tapped, last)' /\ LossTold(answer, last)'
    <2>1. TapsTold(tapped, last)'
      BY DEF TapsTold, NodesOf, NameAt, qualified
    <2>2. \A pass : LossOf(pass)' = LossOf(pass)
      BY <1>1, SameDrawnAt
    <2>3. LossTold(answer', last')
      OBVIOUS
    <2> QED  BY <2>1, <2>2, <2>3 DEF LossTold
  <1>7. (step \in Nat /\ KeyIs(rng, step, {}))'
    BY DEF KeyIs
  <1>8. (phase = "open")' /\ (taps \subseteq plan.nodes)'
    BY <1>1
  <1> QED  BY <1>2, <1>3, <1>4, <1>5, <1>6, <1>7, <1>8 DEF IInv

-----------------------------------------------------------------------------
(* The calls. *)

(* What opens is frozen to positions there are.                            *)
LEMMA PositionsFacts ==
    ASSUME Described
    PROVE  \A S : \A k \in DOMAIN InPlanOrder(Resolution, S) :
               InPlanOrder(Resolution, S)[k] \in DOMAIN Resolution.all
  <1> DEFINE all == Resolution.all  n == Len(all)  f == [i \in DOMAIN all |-> i]
  <1>1. Numbered(all)
    <2>1. all = Laid(ModelNames, Len(ModelNames))
      BY DEF Resolution, ModelNames
    <2> QED  BY <2>1, LaidFacts
  <1>2. n \in Nat /\ DOMAIN all = 1..n
    BY <1>1, NumberedFacts
  <1> HIDE DEF all, n
  <1>3. f = [i \in 1..n |-> f[i]] /\ \A i \in DOMAIN f : f[i] \in DOMAIN all
    BY <1>2
  <1> HIDE DEF f
  <1>4. Numbered(f)
    BY <1>2, <1>3, IndexedIsNumbered
  <1>5. \A S : \A k \in DOMAIN Kept(f, S) : Kept(f, S)[k] \in DOMAIN all
    <2> SUFFICES ASSUME NEW S, NEW k \in DOMAIN Kept(f, S)
                 PROVE  Kept(f, S)[k] \in DOMAIN all
      OBVIOUS
    <2>1. \E i \in DOMAIN f : Kept(f, S)[k] = f[i]
      BY <1>4, KeptFacts
    <2> QED  BY <1>3, <2>1
  <1>6. \A S : InPlanOrder(Resolution, S) = Kept(f, S)
    BY DEF InPlanOrder, f, all
  <1> QED  BY <1>5, <1>6 DEF all

LEMMA OpenKeeps ==
    ASSUME IInv, Open
    PROVE  IInv'
  <1>1. /\ UNCHANGED <<config, source, rng, step, taps, tapped, last, answer, drawn>>
        /\ phase = "unopened"
    BY DEF Open, watched
  <1>2. /\ Described /\ step \in Nat /\ KeyIs(rng, step, {})
        /\ params = <<>> /\ drawn = <<>> /\ answer = Nothing /\ taps = {} /\ tapped = <<>>
        /\ AnswerMeans(answer) /\ TapsTold(tapped, last)
    BY <1>1 DEF IInv
  <1>3. Described' /\ (step \in Nat /\ KeyIs(rng, step, {}))'
    BY <1>1, <1>2, Same DEF KeyIs
  <1>4. AnswerMeans(answer)' /\ TapsTold(tapped, last)' /\ LossTold(answer, last)'
    <2>1. AnswerMeans(answer)'
      BY <1>1, <1>2, Same DEF AnswerMeans
    <2>2. TapsTold(tapped, last)'
      <3>1. TapsTold(tapped', last')
        BY <1>1, <1>2
      <3> QED  BY <3>1 DEF TapsTold, NodesOf, NameAt, qualified
    <2>3. LossTold(answer, last)'
      BY <1>1, <1>2 DEF LossTold, Nothing
    <2> QED  BY <2>1, <2>2, <2>3
  <1>5. CASE resolve(Resolution) /\ Missing \notin Range(materialize(Resolution))
    <2>1. /\ phase' = "open" /\ plan' = Resolution /\ params' = materialize(Resolution)
          /\ argnums' = InPlanOrder(Resolution, Resolution.candidates)
      BY <1>5 DEF Open
    <2>2. Opened'
      BY <1>1, <1>2, <1>5, <2>1, SameOpened
    <2>3. ArgnumsIn(argnums)'
      BY <1>2, <2>1, PositionsFacts DEF ArgnumsIn
    <2>4. (taps \subseteq plan.nodes)' /\ DrawsTold(drawn)'
      BY <1>1, <1>2, EmptyIsNumbered DEF DrawsTold, Numbered
    <2> QED  BY <1>3, <1>4, <2>1, <2>2, <2>3, <2>4 DEF IInv
  <1>6. CASE ~(resolve(Resolution) /\ Missing \notin Range(materialize(Resolution)))
    <2>1. phase' = "refused" /\ params' = params
      BY <1>6 DEF Open
    <2>2. (params = <<>> /\ drawn = <<>> /\ answer = Nothing /\ taps = {} /\ tapped = <<>>)'
      BY <1>1, <1>2, <2>1 DEF Nothing
    <2> QED  BY <1>3, <1>4, <2>1, <2>2 DEF IInv
  <1> QED  BY <1>5, <1>6

(* What the rest of a call may leave as it was.                            *)
LEMMA OpenNow ==
    ASSUME IInv, phase = "open"
    PROVE  /\ Opened /\ ArgnumsIn(argnums) /\ taps \subseteq plan.nodes /\ DrawsTold(drawn)
           /\ step \in Nat /\ KeyIs(rng, step, {})
           /\ AnswerMeans(answer) /\ TapsTold(tapped, last) /\ LossTold(answer, last)
  BY DEF IInv

LEMMA FailsKeeps ==
    ASSUME IInv, phase = "open", NEW why, Fails(why), why # "loss", AnswerMeans([call |-> why])
    PROVE  IInv'
  <1>1. /\ answer' = [call |-> why]
        /\ UNCHANGED <<settled, params, argnums, rng, step, taps, tapped, last, parts, drawn>>
    BY DEF Fails, watched
  <1>2. LossTold(answer', last')
    BY <1>1 DEF LossTold
  <1> QED  BY <1>1, <1>2, OpenNow, CallKeeps

LEMMA RefusesKeeps ==
    ASSUME IInv, phase = "open", NEW batch, Refuses(batch)
    PROVE  IInv'
  <1>1. AnswerMeans([call |-> "batch"]) /\ AnswerMeans([call |-> "below"])
    BY AnswersNothing
  <1>2. CASE Bound(batch, plan.inputs) /\ ~forward(params, bind(batch), NoKey).ok /\ Fails("unwired")
    <2>1. ~GraphConfigAccepts
      <3>1. plan.inputs \subseteq batch
        BY <1>2 DEF Bound
      <3> QED  BY <1>2, <3>1, OpenNow, ForwardMeans
    <2>2. AnswerMeans([call |-> "unwired"])
      BY <2>1 DEF AnswerMeans
    <2> QED  BY <1>2, <2>2, FailsKeeps
  <1>3. CASE Fails("batch")
    BY <1>1, <1>3, FailsKeeps
  <1>4. CASE Fails("below")
    BY <1>1, <1>4, FailsKeeps
  <1> QED  BY <1>2, <1>3, <1>4 DEF Refuses

LEMMA TapsKeep ==
    ASSUME IInv, phase = "open", NEW n \in plan.nodes, tap(n) \/ untap(n)
    PROVE  IInv'
  <1>1. /\ taps' = taps \cup {n} \/ taps' = taps \ {n}
        /\ UNCHANGED <<settled, params, argnums, rng, step, tapped, last, answer, parts, drawn>>
    BY DEF tap, untap, watched
  <1>2. taps' \subseteq plan.nodes
    BY <1>1, OpenNow
  <1> QED  BY <1>1, <1>2, OpenNow, CallKeeps

LEMMA RecordsTold ==
    ASSUME NEW pass, Shaped(pass.ran), Records(pass), LetsThrough(pass)
    PROVE  TapsTold(tapped', last')
  <1> DEFINE named(n) == {at \in NodesOf(pass) : NameAt(pass, at) = n}
             there == {NameAt(pass, at) : at \in NodesOf(pass)}
             Is(n, by) == by \in named(n) /\ \A at \in named(n) : Behind(at, by)
             latest(n) == CHOOSE by \in NodesOf(pass) :
                              /\ NameAt(pass, by) = n
                              /\ \A at \in NodesOf(pass) : NameAt(pass, at) = n => Behind(at, by)
  <1>1. /\ DOMAIN tapped' = there \cap taps
        /\ \A n \in there \cap taps : tapped'[n] = pass.ran[latest(n)[1]].values[latest(n)[2]]
    BY DEF Records, Saw, Behind
  <1>2. \A n \in there : Is(n, latest(n))
    <2> SUFFICES ASSUME NEW n \in there
                 PROVE  Is(n, latest(n))
      OBVIOUS
    <2>1. named(n) # {} /\ named(n) \in SUBSET NodesOf(pass)
      OBVIOUS
    <2>2. \E by \in named(n) : \A at \in named(n) : Behind(at, by)
      <3> HIDE DEF named
      <3> QED  BY <2>1, LatestOf
    <2> QED  BY <2>2
  <1>3. /\ last'.asked = taps /\ last'.pass.ran = pass.ran
        /\ NodesOf(last'.pass) = NodesOf(pass)
        /\ \A at : NameAt(last'.pass, at) = NameAt(pass, at)
    BY DEF LetsThrough, NodesOf, NameAt
  <1>4. \A n : n \in there <=> named(n) # {}
    OBVIOUS
  <1>5. DOMAIN tapped' = {n \in taps : named(n) # {}}
    BY <1>1, <1>4
  <1> HIDE DEF latest, there
  <1>6. \A n \in DOMAIN tapped' : \E at \in named(n) :
            /\ tapped'[n] = pass.ran[at[1]].values[at[2]]
            /\ \A by \in named(n) : by[1] < at[1] \/ (by[1] = at[1] /\ by[2] <= at[2])
    <2> SUFFICES ASSUME NEW n \in DOMAIN tapped'
                 PROVE  \E at \in named(n) :
                            /\ tapped'[n] = pass.ran[at[1]].values[at[2]]
                            /\ \A by \in named(n) : by[1] < at[1] \/ (by[1] = at[1] /\ by[2] <= at[2])
      OBVIOUS
    <2>1. n \in there \cap taps
      BY <1>1
    <2>2. Is(n, latest(n)) /\ tapped'[n] = pass.ran[latest(n)[1]].values[latest(n)[2]]
      BY <1>1, <1>2, <2>1
    <2> HIDE DEF named
    <2> QED  BY <2>2 DEF Behind
  <1>7. \A n : {at \in NodesOf(last'.pass) : NameAt(last'.pass, at) = n} = named(n)
    BY <1>3
  <1> HIDE DEF named
  <1> QED  BY <1>3, <1>5, <1>6, <1>7 DEF TapsTold

(* A pass that draws, for the step to come, is told of.                    *)
LEMMA DrawsTells ==
    ASSUME IInv, phase = "open", NEW fields, forward(params, fields, rng).ok,
           Draws(forward(params, fields, rng))
    PROVE  DrawsTold(drawn')
  <1> DEFINE pass == forward(params, fields, rng)
             new == [step |-> step, keys |-> KeysOf(pass)]
  <1>1. Opened /\ DrawsTold(drawn) /\ step \in Nat /\ KeyIs(rng, step, {})
    BY OpenNow
  <1>2. \A g \in DOMAIN pass.ran :
            /\ g \in Nat
            /\ \A i \in DOMAIN pass.ran[g].draws :
                   i \in Nat \ {0} /\ DrawnAt(g, i, pass.ran[g].draws[i], step)
    BY <1>1, ForwardDraws
  <1> HIDE DEF pass
  <1>3. KeysTold(KeysOf(pass), step)
    <2> SUFFICES ASSUME NEW at \in DOMAIN KeysOf(pass)
                 PROVE  \E g \in Nat : \E i \in Nat \ {0} :
                            at = <<g, i>> /\ DrawnAt(g, i, KeysOf(pass)[at], step)
      BY DEF KeysTold
    <2>1. PICK g \in DOMAIN pass.ran : \E i \in DOMAIN pass.ran[g].draws : at = <<g, i>>
      BY DEF KeysOf
    <2>2. PICK i \in DOMAIN pass.ran[g].draws : at = <<g, i>>
      BY <2>1
    <2>3. KeysOf(pass)[at] = pass.ran[g].draws[i]
      BY <2>2 DEF KeysOf
    <2> QED  BY <1>2, <2>2, <2>3
  <1>4. drawn' = Append(drawn, new)
    BY DEF Draws, pass
  <1>5. Numbered(drawn) /\ \A p \in 1..Len(drawn) :
            drawn[p].step \in Nat /\ KeysTold(drawn[p].keys, drawn[p].step)
    BY <1>1, NumberedFacts DEF DrawsTold
  <1>6. new.step \in Nat /\ KeysTold(new.keys, new.step)
    BY <1>1, <1>3
  <1> HIDE DEF new
  <1>7. /\ Numbered(drawn') /\ DOMAIN drawn' = 1..(Len(drawn) + 1) /\ Len(drawn) \in Nat
        /\ \A p \in 1..Len(drawn) : drawn'[p] = drawn[p]
        /\ drawn'[Len(drawn) + 1] = new
    BY <1>4, <1>5, NumberedAppend
  <1>8. \A p \in 1..(Len(drawn) + 1) : p = Len(drawn) + 1 \/ p \in 1..Len(drawn)
    BY <1>7
  <1>9. \A p \in DOMAIN drawn' : drawn'[p].step \in Nat /\ KeysTold(drawn'[p].keys, drawn'[p].step)
    BY <1>5, <1>6, <1>7, <1>8
  <1> QED  BY <1>7, <1>9 DEF DrawsTold

(* What a loss was read from is the last pass.                             *)
LEMMA LossTells ==
    ASSUME NEW pass, LetsThrough(pass), answer' = [call |-> "loss", of |-> LossOf(pass)]
    PROVE  LossTold(answer', last')
  <1>1. last'.pass.produced = pass.produced
    BY DEF LetsThrough
  <1>2. LossOf(last'.pass) = LossOf(pass)
    BY <1>1 DEF LossOf
  <1> QED  BY <1>2 DEF LossTold

LEMMA DifferentiatesKeeps ==
    ASSUME IInv, phase = "open", NEW batch, Differentiates(batch),
           step' \in Nat, KeyIs(rng', step', {})
    PROVE  IInv'
  <1> DEFINE pass == forward(params, bind(batch), rng)
  <1>1. /\ plan.inputs \subseteq batch
        /\ pass.ok
        /\ Records(pass) /\ LetsThrough(pass) /\ Draws(pass)
        /\ answer' = [call |-> "loss", of |-> LossOf(pass)]
        /\ UNCHANGED <<settled, params, argnums, taps>>
    BY DEF Differentiates, Bound, watched_again, Answers
  <1>2. Opened /\ ArgnumsIn(argnums) /\ taps \subseteq plan.nodes
    BY OpenNow
  <1>3. DrawsTold(drawn')
    BY <1>1, DrawsTells
  <1>4. Shaped(pass.ran)
    BY <1>1, <1>2, ForwardShaped
  <1> HIDE DEF pass
  <1>5. AnswerMeans(answer')
    <2>1. GraphConfigAccepts /\ config.train # {} => Undrawn(LossOf(pass)) = MeantLoss
      BY <1>1, <1>2, ForwardMeans DEF pass
    <2>2. answer'.call = "loss" /\ answer'.of = LossOf(pass)
      BY <1>1
    <2> QED  BY <2>1, <2>2 DEF AnswerMeans
  <1>6. TapsTold(tapped', last') /\ LossTold(answer', last')
    BY <1>1, <1>4, RecordsTold, LossTells
  <1> QED  BY <1>1, <1>2, <1>3, <1>5, <1>6, CallKeeps

(* A step moves the key by one split.                                      *)
LEMMA Moves ==
    ASSUME IInv, rng' = Next0(rng), step' = step + 1
    PROVE  step' \in Nat /\ KeyIs(rng', step', {})
  <1>1. step \in Nat /\ KeyIs(rng, step, {})
    BY DEF IInv
  <1>2. KeyIs(Next0(rng), step + 1, {})
    BY <1>1, SplitFacts
  <1> QED  BY <1>1, <1>2

LEMMA StepsKeep ==
    ASSUME IInv, phase = "open", NEW batch, run_step(batch) \/ accumulate(batch)
    PROVE  IInv'
  <1>1. CASE run_step(batch)
    BY <1>1, Moves, DifferentiatesKeeps DEF run_step
  <1>2. CASE accumulate(batch)
    <2>1. UNCHANGED <<rng, step>> /\ Differentiates(batch)
      BY <1>2 DEF accumulate
    <2>2. step' \in Nat /\ KeyIs(rng', step', {})
      BY <2>1, OpenNow
    <2> QED  BY <2>1, <2>2, DifferentiatesKeeps
  <1> QED  BY <1>1, <1>2

LEMMA ApplyKeeps ==
    ASSUME IInv, phase = "open", apply \/ discard
    PROVE  IInv'
  <1>1. /\ step' \in Nat /\ KeyIs(rng', step', {})
    <2>1. CASE apply
      BY <2>1, Moves DEF apply
    <2>2. CASE discard
      BY <2>2, OpenNow DEF discard
    <2> QED  BY <2>1, <2>2
  <1>2. answer' = [call |-> "none"] /\ UNCHANGED <<settled, params, argnums, taps, tapped, last, drawn>>
    BY DEF apply, discard, Nothing, watched
  <1>3. AnswerMeans(answer') /\ LossTold(answer', last')
    BY <1>2, AnswersNothing DEF LossTold
  <1> QED  BY <1>1, <1>2, <1>3, OpenNow, CallKeeps

LEMMA SetFrozenKeeps ==
    ASSUME IInv, phase = "open", NEW matched, NEW frozen, set_frozen(matched, frozen)
    PROVE  IInv'
  <1>1. CASE Fails("frozen")
    <2>1. AnswerMeans([call |-> "frozen"])
      BY AnswersNothing
    <2> QED  BY <1>1, <2>1, FailsKeeps
  <1>2. ASSUME NEW wanted,
               argnums' = InPlanOrder(plan, wanted), answer' = [call |-> "none"],
               UNCHANGED <<settled, params, rng, step, taps, tapped, last, drawn>>
        PROVE  IInv'
    <2>1. AnswerMeans(answer') /\ LossTold(answer', last')
      BY <1>2, AnswersNothing DEF LossTold
    <2>2. ArgnumsIn(argnums')
      <3>1. plan = Resolution /\ Described
        BY OpenNow DEF Opened
      <3> QED  BY <1>2, <3>1, PositionsFacts DEF ArgnumsIn
    <2> QED  BY <1>2, <2>1, <2>2, OpenNow, CallKeeps
  <1>3. \/ Fails("frozen")
        \/ \E wanted : /\ argnums' = InPlanOrder(plan, wanted) /\ answer' = [call |-> "none"]
                       /\ UNCHANGED <<settled, params, rng, step, taps, tapped, last, drawn>>
    BY DEF set_frozen, Nothing, watched
  <1> QED  BY <1>1, <1>2, <1>3

LEMMA EvaluateKeeps ==
    ASSUME IInv, phase = "open", NEW batch, NEW late, evaluate(batch, late)
    PROVE  IInv'
  <1> DEFINE pass == forward(params, bind(batch), NoKey)
  <1>1. /\ plan.inputs \subseteq batch
        /\ pass.ok /\ Records(pass) /\ LetsThrough(pass)
        /\ \/ answer' = [call |-> "late"]
           \/ answer' = [call |-> "loss", of |-> LossOf(pass)]
        /\ UNCHANGED <<settled, params, argnums, rng, step, taps, drawn>>
    BY DEF evaluate, Bound, Answers
  <1>2. Opened /\ taps \subseteq plan.nodes
    BY OpenNow
  <1> HIDE DEF pass
  <1>3. AnswerMeans(answer')
    <2>1. CASE answer' = [call |-> "late"]
      BY <2>1, AnswersNothing
    <2>2. CASE answer' = [call |-> "loss", of |-> LossOf(pass)]
      <3>1. GraphConfigAccepts /\ config.train # {} => Undrawn(LossOf(pass)) = MeantLoss
        BY <1>1, <1>2, ForwardMeans DEF pass
      <3>2. answer'.call = "loss" /\ answer'.of = LossOf(pass)
        BY <2>2
      <3> QED  BY <3>1, <3>2 DEF AnswerMeans
    <2> QED  BY <1>1, <2>1, <2>2
  <1>4. TapsTold(tapped', last')
    BY <1>1, <1>2, ForwardShaped, RecordsTold DEF pass
  <1>5. LossTold(answer', last')
    BY <1>1, LossTells DEF LossTold
  <1> QED  BY <1>1, <1>3, <1>4, <1>5, OpenNow, CallKeeps

LEMMA ForwardNamedKeeps ==
    ASSUME IInv, phase = "open", NEW batch, NEW wanted, NEW late, forward_named(batch, wanted, late)
    PROVE  IInv'
  <1> DEFINE pass == Models(params, bind(plan.reads), NoKey)
             names == IF wanted = {} THEN plan.outputs ELSE wanted
  <1>1. /\ wanted \subseteq plan.outputs
        /\ pass.ok /\ Records(pass) /\ LetsThrough(pass)
        /\ \/ answer' = [call |-> "late"]
           \/ answer' = [call |-> "outputs", of |-> [n \in names |-> pass.produced[n]]]
        /\ UNCHANGED <<settled, params, argnums, rng, step, taps, drawn>>
    BY DEF forward_named, Answers
  <1>2. Opened /\ taps \subseteq plan.nodes
    BY OpenNow
  <1>3. names \subseteq plan.outputs
    BY <1>1
  <1> HIDE DEF pass, names
  <1>4. AnswerMeans(answer')
    <2>1. CASE answer' = [call |-> "late"]
      BY <2>1, AnswersNothing
    <2>2. CASE answer' = [call |-> "outputs", of |-> [n \in names |-> pass.produced[n]]]
      <3>1. answer'.call = "outputs" /\ answer'.of = [n \in names |-> pass.produced[n]]
        BY <2>2
      <3>2. ASSUME GraphConfigAccepts, NEW n \in names
            PROVE  pass.produced[n] = MeantBy(n[1])[n[2]]
        <4>1. plan.outputs = UNION {{qualified(m, o) : o \in DOMAIN config.models[m].outputs} :
                                        m \in DOMAIN config.models}
          BY <1>2 DEF Opened, Resolution
        <4>2. PICK m \in DOMAIN config.models : \E o \in DOMAIN config.models[m].outputs : n = qualified(m, o)
          BY <1>3, <4>1
        <4>3. PICK o \in DOMAIN config.models[m].outputs : n = qualified(m, o)
          BY <4>2
        <4>4. n[1] = m /\ n[2] = o
          BY <4>3 DEF qualified
        <4>5. pass.produced[qualified(m, o)] = MeantBy(m)[o]
          BY <1>2, <3>2, ModelsMean DEF pass
        <4> QED  BY <4>3, <4>4, <4>5
      <3> QED  BY <3>1, <3>2 DEF AnswerMeans
    <2> QED  BY <1>1, <2>1, <2>2
  <1>5. TapsTold(tapped', last')
    BY <1>1, <1>2, ModelsShaped, RecordsTold DEF pass
  <1>6. LossTold(answer', last')
    BY <1>1 DEF LossTold
  <1> QED  BY <1>1, <1>4, <1>5, <1>6, OpenNow, CallKeeps

LEMMA GradientsKeep ==
    ASSUME IInv, phase = "open", NEW batch, NEW of, gradients(batch) \/ field_gradients(batch, of)
    PROVE  IInv'
  <1>1. /\ UNCHANGED <<settled, params, argnums, rng, step, taps, tapped, last>>
        /\ DrawsTold(drawn')
    <2>1. CASE gradients(batch)
      BY <2>1, DrawsTells DEF gradients, watched
    <2>2. CASE field_gradients(batch, of)
      BY <2>2, OpenNow DEF field_gradients, watched
    <2> QED  BY <2>1, <2>2
  <1>2. /\ answer'.call = "gradients"
        /\ \A k \in DOMAIN answer'.of : answer'.of[k].path = answer'.of[k].by
    <2>1. CASE gradients(batch)
      <3>1. answer' = [call |-> "gradients",
                       of |-> [k \in DOMAIN argnums |-> [path |-> plan.all[argnums[k]].path,
                                                         by   |-> params[argnums[k]].of]]]
        BY <2>1 DEF gradients, Answers
      <3>2. \A k \in DOMAIN argnums : params[argnums[k]].of = plan.all[argnums[k]].path
        BY OpenNow, ParamFacts DEF ArgnumsIn
      <3> QED  BY <3>1, <3>2
    <2>2. CASE field_gradients(batch, of)
      <3>1. answer' = [call |-> "gradients",
                       of |-> [k \in DOMAIN of |-> [path |-> of[k], by |-> of[k]]]]
        BY <2>2 DEF field_gradients, Answers
      <3> QED  BY <3>1
    <2> QED  BY <2>1, <2>2
  <1>3. AnswerMeans(answer') /\ LossTold(answer', last')
    BY <1>2 DEF AnswerMeans, LossTold
  <1> QED  BY <1>1, <1>3, OpenNow, CallKeeps

LEMMA NextKeeps ==
    ASSUME IInv, [Next]_vars
    PROVE  IInv'
  <1>1. CASE UNCHANGED vars
    <2>1. UNCHANGED <<settled, params, argnums, rng, step, taps, tapped, last, answer, parts, drawn, phase>>
      BY <1>1 DEF vars, settled, watched
    <2>2. CASE phase = "open"
      BY <2>1, <2>2, OpenNow, CallKeeps
    <2>3. CASE phase # "open"
      <3>1. UNCHANGED <<config, source>>
        BY <2>1 DEF settled
      <3>2. Described' /\ AnswerMeans(answer)'
        BY <2>1, <3>1, Same DEF IInv, AnswerMeans
      <3>3. TapsTold(tapped, last)'
        <4>1. TapsTold(tapped', last')
          BY <2>1 DEF IInv
        <4> QED  BY <4>1 DEF TapsTold, NodesOf, NameAt, qualified
      <3>4. LossTold(answer, last)'
        BY <2>1, <2>3 DEF IInv, LossTold, Nothing
      <3> QED  BY <2>1, <2>3, <3>2, <3>3, <3>4 DEF IInv, KeyIs, Nothing
    <2> QED  BY <2>2, <2>3
  <1>2. CASE Open
    BY <1>2, OpenKeeps
  <1>3. ASSUME phase = "open", NEW n \in plan.nodes, tap(n) \/ untap(n)
        PROVE  IInv'
    BY <1>3, TapsKeep
  <1>4. ASSUME phase = "open", NEW b, run_step(b) \/ accumulate(b) \/ gradients(b) \/ Refuses(b)
        PROVE  IInv'
    BY <1>4, StepsKeep, GradientsKeep, RefusesKeeps
  <1>5. ASSUME phase = "open", NEW b, NEW of, field_gradients(b, of)
        PROVE  IInv'
    BY <1>5, GradientsKeep
  <1>6. ASSUME phase = "open", NEW b, NEW late, NEW w, evaluate(b, late) \/ forward_named(b, w, late)
        PROVE  IInv'
    BY <1>6, EvaluateKeeps, ForwardNamedKeeps
  <1>7. CASE phase = "open" /\ (apply \/ discard)
    BY <1>7, ApplyKeeps
  <1>8. ASSUME phase = "open", NEW matched, NEW frozen, set_frozen(matched, frozen)
        PROVE  IInv'
    BY <1>8, SetFrozenKeeps
  <1>9. CASE Next
    BY <1>2, <1>3, <1>4, <1>5, <1>6, <1>7, <1>8, <1>9, ZenonT(40) DEF Next
  <1> QED  BY <1>1, <1>9

LEMMA SpecKeeps == Spec => []IInv
  BY InitKeeps, NextKeeps, PTL DEF Spec

(* Of two draws, in one step, the keys are one where the places are; and   *)
(* of two at one place, where the steps are.                               *)
LEMMA ToldApart ==
    ASSUME Opened,
           NEW k, NEW g \in Nat, NEW i \in Nat \ {0}, NEW s \in Nat, DrawnAt(g, i, k, s),
           NEW l, NEW h \in Nat, NEW j \in Nat \ {0}, NEW t \in Nat, DrawnAt(h, j, l, t)
    PROVE  /\ s = t => (k = l <=> <<g, i>> = <<h, j>>)
           /\ <<g, i>> = <<h, j>> => (k = l <=> s = t)
  <1> DEFINE n == n_models
  <1>1. n \in Nat
    BY PlanFacts
  <1> HIDE DEF n
  <1>2. \/ g \in 1..n /\ KeyIs(k, s + g + i, {s + g, s + g + i})
        \/ g = n + 1 /\ KeyIs(k, s + n + i, {s + n + i})
    BY DEF DrawnAt, n
  <1>3. \/ h \in 1..n /\ KeyIs(l, t + h + j, {t + h, t + h + j})
        \/ h = n + 1 /\ KeyIs(l, t + n + j, {t + n + j})
    BY DEF DrawnAt, n
  <1>4. g \notin 1..n \/ g # n + 1
    BY <1>1
  <1>5. ASSUME k = l, s = t
        PROVE  g = h /\ i = j
    <2>1. CASE /\ g \in 1..n /\ KeyIs(k, s + g + i, {s + g, s + g + i})
               /\ h \in 1..n /\ KeyIs(l, t + h + j, {t + h, t + h + j})
      <3>1. s + g + i = t + h + j /\ {s + g, s + g + i} = {t + h, t + h + j}
        BY <1>5, <2>1, KeyTells
      <3>2. s + g \in {t + h, t + h + j} /\ t + h \in {s + g, s + g + i}
        BY <3>1
      <3> QED  BY <1>5, <3>1, <3>2
    <2>2. CASE /\ g \in 1..n /\ KeyIs(k, s + g + i, {s + g, s + g + i})
               /\ h = n + 1 /\ KeyIs(l, t + n + j, {t + n + j})
      <3>1. {s + g, s + g + i} = {t + n + j}
        BY <1>1, <1>5, <2>2, KeyTells
      <3>2. s + g = t + n + j /\ s + g + i = t + n + j
        BY <3>1
      <3> QED  BY <3>2
    <2>3. CASE /\ g = n + 1 /\ KeyIs(k, s + n + i, {s + n + i})
               /\ h \in 1..n /\ KeyIs(l, t + h + j, {t + h, t + h + j})
      <3>1. {t + h, t + h + j} = {s + n + i}
        BY <1>1, <1>5, <2>3, KeyTells
      <3>2. t + h = s + n + i /\ t + h + j = s + n + i
        BY <3>1
      <3> QED  BY <3>2
    <2>4. CASE /\ g = n + 1 /\ KeyIs(k, s + n + i, {s + n + i})
               /\ h = n + 1 /\ KeyIs(l, t + n + j, {t + n + j})
      <3>1. s + n + i = t + n + j
        BY <1>1, <1>5, <2>4, KeyTells
      <3> QED  BY <1>1, <1>5, <2>4, <3>1
    <2> QED  BY <1>2, <1>3, <2>1, <2>2, <2>3, <2>4
  <1>6. ASSUME k = l, g = h, i = j
        PROVE  s = t
    <2>1. CASE /\ g \in 1..n /\ KeyIs(k, s + g + i, {s + g, s + g + i})
               /\ KeyIs(l, t + h + j, {t + h, t + h + j})
      <3>1. s + g + i = t + h + j
        BY <1>6, <2>1, KeyTells
      <3> QED  BY <1>6, <3>1
    <2>2. CASE /\ KeyIs(k, s + n + i, {s + n + i})
               /\ KeyIs(l, t + n + j, {t + n + j})
      <3>1. s + n + i = t + n + j
        BY <1>1, <1>6, <2>2, KeyTells
      <3> QED  BY <1>1, <1>6, <3>1
    <2> QED  BY <1>2, <1>3, <1>4, <1>6, <2>1, <2>2
  <1>7. ASSUME g = h, i = j, s = t
        PROVE  k = l
    <2>1. \E len \in Nat : \E S : KeyIs(k, len, S) /\ KeyIs(l, len, S)
      <3>1. s + g + i \in Nat /\ s + n + i \in Nat
        BY <1>1
      <3> QED  BY <1>2, <1>3, <1>4, <1>7, <3>1
    <2> QED  BY <2>1, KeyMakes
  <1> QED  BY <1>5, <1>6, <1>7

(* What a fresh parameter was made with is one split from the seed, and a  *)
(* draw of a step is two.                                                  *)
LEMMA ToldFresh ==
    ASSUME Opened, NEW k, NEW g, NEW i \in Nat \ {0}, NEW s \in Nat, DrawnAt(g, i, k, s)
    PROVE  k # <<>> /\ k # Mine(key)
  <1>1. n_models \in Nat \ {0}
    BY PlanFacts
  <1>2. Len(k) >= 2
    <2>1. CASE g \in 1..n_models /\ KeyIs(k, s + g + i, {s + g, s + g + i})
      <3>1. g \in 1..n_models /\ Len(k) = s + g + i
        BY <2>1 DEF KeyIs
      <3> QED  BY <1>1, <3>1
    <2>2. CASE KeyIs(k, s + n_models + i, {s + n_models + i})
      <3>1. Len(k) = s + n_models + i
        BY <2>2 DEF KeyIs
      <3> QED  BY <1>1, <3>1
    <2> QED  BY <2>1, <2>2 DEF DrawnAt
  <1> DEFINE mine == Mine(key)
  <1>3. Len(<<>>) = 0 /\ Len(mine) = 1
    BY DEF Mine, key
  <1> HIDE DEF mine
  <1>4. k # <<>>
    BY <1>2, <1>3
  <1>5. ASSUME k = mine
        PROVE  FALSE
    <2>1. Len(k) = 1
      BY <1>3, <1>5
    <2> QED  BY <1>2, <2>1
  <1> QED  BY <1>4, <1>5 DEF mine

-----------------------------------------------------------------------------
(* The theorems. *)

(* A call answers what the description means by the names in it, whatever  *)
(* is frozen and wherever a plan put it.                                   *)
THEOREM AnsweringByName == Spec => []AnswersByName
  <1>1. IInv => AnswersByName
    BY DEF IInv, AnswerMeans, AnswersByName
  <1> QED  BY <1>1, SpecKeeps, PTL

(* Of all passes made for one step each node draws with one key and no     *)
(* other node with it, no node draws with one key in two steps, and no     *)
(* pass with that of a fresh parameter.                                    *)
THEOREM DrawingApart == Spec => []DrawsApart
  <1>1. IInv => DrawsApart
    <2> SUFFICES ASSUME IInv, phase = "open"
                 PROVE  DrawsApart
      <3>1. ASSUME IInv, phase # "open"
            PROVE  DrawsApart
        BY <3>1 DEF IInv, DrawsApart
      <3> QED  BY <3>1
    <2>1. Opened /\ DrawsTold(drawn)
      BY OpenNow
    <2>2. ASSUME NEW p \in DOMAIN drawn, NEW at \in DOMAIN drawn[p].keys
          PROVE  /\ drawn[p].step \in Nat
                 /\ \E g \in Nat : \E i \in Nat \ {0} :
                        at = <<g, i>> /\ DrawnAt(g, i, drawn[p].keys[at], drawn[p].step)
      BY <2>1, <2>2 DEF DrawsTold, KeysTold
    <2>3. ASSUME NEW p \in DOMAIN drawn, NEW at \in DOMAIN drawn[p].keys,
                 NEW q \in DOMAIN drawn, NEW by \in DOMAIN drawn[q].keys
          PROVE  /\ drawn[p].step = drawn[q].step => (drawn[p].keys[at] = drawn[q].keys[by] <=> at = by)
                 /\ at = by => (drawn[p].keys[at] = drawn[q].keys[by] <=> drawn[p].step = drawn[q].step)
      <3>1. PICK g \in Nat : \E i \in Nat \ {0} :
                at = <<g, i>> /\ DrawnAt(g, i, drawn[p].keys[at], drawn[p].step)
        BY <2>2
      <3>2. PICK i \in Nat \ {0} : at = <<g, i>> /\ DrawnAt(g, i, drawn[p].keys[at], drawn[p].step)
        BY <3>1
      <3>3. PICK h \in Nat : \E j \in Nat \ {0} :
                by = <<h, j>> /\ DrawnAt(h, j, drawn[q].keys[by], drawn[q].step)
        BY <2>2
      <3>4. PICK j \in Nat \ {0} : by = <<h, j>> /\ DrawnAt(h, j, drawn[q].keys[by], drawn[q].step)
        BY <3>3
      <3>5. drawn[p].step \in Nat /\ drawn[q].step \in Nat
        BY <2>2
      <3>6. /\ drawn[p].step = drawn[q].step =>
                   (drawn[p].keys[at] = drawn[q].keys[by] <=> <<g, i>> = <<h, j>>)
            /\ <<g, i>> = <<h, j>> =>
                   (drawn[p].keys[at] = drawn[q].keys[by] <=> drawn[p].step = drawn[q].step)
        BY <2>1, <3>2, <3>4, <3>5, ToldApart
      <3> QED  BY <3>2, <3>4, <3>6
    <2>4. ASSUME NEW p \in DOMAIN drawn, NEW at \in DOMAIN drawn[p].keys, NEW m \in DOMAIN params
          PROVE  params[m].with # drawn[p].keys[at]
      <3>1. PICK g \in Nat : \E i \in Nat \ {0} :
                at = <<g, i>> /\ DrawnAt(g, i, drawn[p].keys[at], drawn[p].step)
        BY <2>2
      <3>2. PICK i \in Nat \ {0} : DrawnAt(g, i, drawn[p].keys[at], drawn[p].step)
        BY <3>1
      <3>3. drawn[p].step \in Nat
        BY <2>2
      <3>4. drawn[p].keys[at] # <<>> /\ drawn[p].keys[at] # Mine(key)
        BY <2>1, <3>2, <3>3, ToldFresh
      <3>5. params[m].with \in {<<>>, Mine(key)}
        BY <2>1, ParamFacts
      <3> QED  BY <3>4, <3>5
    <2> QED  BY <2>3, <2>4 DEF DrawsApart
  <1> QED  BY <1>1, SpecKeeps, PTL

(* What the taps report is of the last pass let through: each node watched *)
(* that ran in it and no other, as it was there; and a loss answered is    *)
(* that of the same pass.                                                  *)
THEOREM TappingOnePass == Spec => []TappedIsOnePass
  <1>1. IInv => TappedIsOnePass
    BY DEF IInv, TapsTold, LossTold, TappedIsOnePass
  <1> QED  BY <1>1, SpecKeeps, PTL

(* What GraphConfig accepts never fails for its wiring.                    *)
THEOREM AcceptingWired == Spec => []AcceptedIsWired
  <1>1. IInv => AcceptedIsWired
    BY DEF IInv, AnswerMeans, AcceptedIsWired
  <1> QED  BY <1>1, SpecKeeps, PTL
=============================================================================
