----------------------------- MODULE NaturalsLeast -----------------------------
(***************************************************************************)
(* The least-number principle for sets of naturals.  With it a fact about  *)
(* all prefixes of a sequence is proved from its least counterexample.     *)
(***************************************************************************)
EXTENDS Integers, WellFoundedInduction, TLAPS

LEMMA LeastNumber ==
    ASSUME NEW T \in SUBSET Nat, T # {}
    PROVE  \E n \in T : \A m \in T : n <= m
  <1> DEFINE R == OpToRel(<, Nat)
  <1>1. \A m, n \in Nat : m < n => <<m, n>> \in R
    BY DEF OpToRel
  <1>2. IsWellFoundedOn(R, Nat)
    BY NatLessThanWellFounded
  <1> HIDE DEF R
  <1>3. PICK n \in T : \A m \in T : ~(<<m, n>> \in R)
    BY <1>2, WFMin
  <1>4. ASSUME NEW m \in T PROVE n <= m
    <2>1. m \in Nat /\ n \in Nat /\ ~(m < n)
      BY <1>1, <1>3
    <2> QED
      BY <2>1
  <1> QED
    BY <1>4

\* Among finitely many positions there is a first one with the greatest value.
LEMMA FirstGreatest ==
    ASSUME NEW n \in Nat, NEW f \in [1..n -> Nat], NEW I \in SUBSET (1..n), I # {}
    PROVE  \E i \in I : \A j \in I : f[i] > f[j] \/ (f[i] = f[j] /\ i <= j)
  <1> DEFINE Beats(i, j) == f[i] > f[j] \/ (f[i] = f[j] /\ i <= j)
             Some(k) == \E i \in I : i <= k
             Best(k) == \E i \in I : i <= k /\ \A j \in I : j <= k => Beats(i, j)
             T == {k \in Nat : k <= n /\ Some(k) /\ ~Best(k)}
  <1>1. \A i \in I : i \in Nat /\ i >= 1 /\ i <= n /\ f[i] \in Nat
    OBVIOUS
  <1>1a. \A a, b, c \in Nat : a > b /\ (b > c \/ b = c) => a > c
    OBVIOUS
  <1>1b. \A a, b \in Nat : a > b \/ b > a \/ a = b
    OBVIOUS
  <1>2. T = {}
    <2> SUFFICES ASSUME T # {} PROVE FALSE
      OBVIOUS
    <2>1. PICK k \in T : \A m \in T : k <= m
      BY LeastNumber
    <2>2. k \in Nat /\ k <= n /\ Some(k) /\ ~Best(k)
      BY <2>1
    <2>3. k >= 1
      BY <1>1, <2>2
    <2>4. k - 1 \in Nat /\ k - 1 <= n /\ k - 1 \notin T
      <3>1. k - 1 \in Nat /\ k - 1 <= n /\ ~(k <= k - 1)
        BY <2>2, <2>3
      <3> HIDE DEF T
      <3> QED
        BY <2>1, <3>1
    <2>5. CASE ~Some(k - 1)
      <3>1. \A i \in I : i <= k => i = k
        <4> SUFFICES ASSUME NEW i \in I, i <= k PROVE i = k
          OBVIOUS
        <4>1. i \in Nat /\ ~(i <= k - 1)
          BY <1>1, <2>5
        <4> QED
          BY <2>2, <4>1
      <3>2. k \in I
        BY <2>2, <3>1
      <3>3. \A j \in I : j <= k => Beats(k, j)
        BY <1>1, <3>1
      <3> QED
        BY <2>2, <3>2, <3>3
    <2>6. CASE Some(k - 1)
      <3>1. Best(k - 1)
        BY <2>4, <2>6
      <3>2. PICK i \in I : i <= k - 1 /\ \A j \in I : j <= k - 1 => Beats(i, j)
        BY <3>1
      <3>3. \A j \in I : j <= k => j <= k - 1 \/ j = k
        BY <1>1, <2>2
      <3>4. CASE k \notin I
        <4>1. i <= k /\ \A j \in I : j <= k => Beats(i, j)
          BY <1>1, <2>2, <3>2, <3>3, <3>4
        <4> QED
          BY <2>2, <4>1
      <3>5. CASE k \in I /\ f[k] > f[i]
        <4>1. \A j \in I : j <= k => Beats(k, j)
          <5> SUFFICES ASSUME NEW j \in I, j <= k PROVE Beats(k, j)
            OBVIOUS
          <5>1. j = k \/ Beats(i, j)
            BY <3>2, <3>3
          <5>2. i \in Nat /\ j \in Nat /\ f[i] \in Nat /\ f[j] \in Nat /\ f[k] \in Nat
            BY <1>1, <3>5
          <5>3. CASE j = k
            <6>1. f[k] = f[j] /\ k <= j
              BY <2>2, <5>3
            <6> QED
              BY <6>1
          <5>4. CASE Beats(i, j)
            <6>1. f[i] > f[j] \/ f[i] = f[j]
              BY <5>4, Zenon
            <6>2. f[k] > f[j]
              BY <1>1a, <3>5, <5>2, <6>1, Zenon
            <6> QED
              BY <6>2, Zenon
          <5> QED
            BY <5>1, <5>3, <5>4
        <4> QED
          BY <2>2, <3>5, <4>1
      <3>6. CASE k \in I /\ ~(f[k] > f[i])
        <4>1. i <= k
          BY <1>1, <2>2, <3>2
        <4>2. \A j \in I : j <= k => Beats(i, j)
          <5> SUFFICES ASSUME NEW j \in I, j <= k PROVE Beats(i, j)
            OBVIOUS
          <5>1. j = k \/ Beats(i, j)
            BY <3>2, <3>3
          <5>2. f[i] \in Nat /\ f[k] \in Nat
            BY <1>1, <3>6
          <5>3. CASE j = k
            <6>1. f[i] > f[j] \/ f[i] = f[j]
              BY <1>1b, <3>6, <5>2, <5>3, Zenon
            <6> QED
              BY <4>1, <5>3, <6>1
          <5> QED
            BY <5>1, <5>3
        <4> QED
          BY <2>2, <4>1, <4>2
      <3> QED
        BY <3>4, <3>5, <3>6
    <2> QED
      BY <2>5, <2>6
  <1>3. Some(n) /\ n <= n
    <2>1. PICK i : i \in I
      OBVIOUS
    <2>2. i <= n /\ n <= n
      BY <1>1, <2>1
    <2> QED
      BY <2>1, <2>2
  <1>4. Best(n)
    BY <1>2, <1>3
  <1> QED
    BY <1>1, <1>4

=============================================================================
