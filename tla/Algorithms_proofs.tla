-------------------------- MODULE Algorithms_proofs --------------------------
(***************************************************************************)
(* The pure functions for every input: the quiet windows of the heartbeat  *)
(* for every minute of the day, the choice of memory sections for every    *)
(* file and every prompt.                                                  *)
(***************************************************************************)
EXTENDS Heartbeat, MemorySections, TLAPS, FiniteSetTheorems, FunctionTheorems, SequenceTheorems,
        WellFoundedInduction

-----------------------------------------------------------------------------
(* Induction over the natural numbers, stated with a set where the library *)
(* has an operator.                                                        *)

LEMMA LeastElement ==
    ASSUME NEW T \in SUBSET Nat, T # {}
    PROVE  \E x \in T : \A y \in T : x <= y
<1>1. IsWellFoundedOn(OpToRel(<, Nat), Nat)
  BY NatLessThanWellFounded
<1>2. PICK x \in T : \A y \in T : ~(<<y, x>> \in OpToRel(<, Nat))
  BY <1>1, WFMin
<1>3. \A y \in T : ~(y < x)
  BY <1>2 DEF OpToRel
<1> QED BY <1>3

LEMMA Induction ==
    ASSUME NEW S, 0 \in S, \A n \in Nat : n \in S => n + 1 \in S
    PROVE  Nat \subseteq S
<1> SUFFICES ASSUME Nat \ S # {} PROVE FALSE
  OBVIOUS
<1>1. PICK x \in Nat \ S : \A y \in Nat \ S : x <= y
  BY LeastElement
<1>2. x - 1 \in Nat /\ ~(x <= x - 1)
  BY <1>1
<1> QED BY <1>1, <1>2

\* A function may be defined along 0 .. N, the value at n from the one at n - 1:
\* from the empty selection, a selection for each round.
Selections == Seq(Nat)
Rounds(N, next, f) == f[0] = <<>> /\ \A n \in 1 .. N : f[n] = next[<<n, f[n - 1]>>]

LEMMA Recursion ==
    ASSUME NEW N, N \in Nat, NEW next, next \in [(1 .. N) \X Selections -> Selections]
    PROVE  \E f \in [0 .. N -> Selections] : Rounds(N, next, f)
<1> DEFINE S == Selections
<1> DEFINE base == <<>>
<1>0. base \in S
  BY DEF Selections
<1> HIDE DEF S, base
<1> DEFINE Upto(k, f) == f[0] = base /\ \A n \in 1 .. k : f[n] = next[<<n, f[n - 1]>>]
<1> DEFINE Good == {k \in Nat : k <= N => \E f \in [0 .. k -> S] : Upto(k, f)}
<1>1. 0 \in Good
  <2>1. [n \in 0 .. 0 |-> base] \in [0 .. 0 -> S] /\ Upto(0, [n \in 0 .. 0 |-> base])
    BY <1>0
  <2> QED BY <2>1
<1>2. ASSUME NEW k \in Nat, k \in Good PROVE k + 1 \in Good
  <2> SUFFICES ASSUME k + 1 <= N PROVE \E f \in [0 .. k + 1 -> S] : Upto(k + 1, f)
    OBVIOUS
  <2>1. PICK f \in [0 .. k -> S] : Upto(k, f)
    BY <1>2
  <2> DEFINE g == [n \in 0 .. k + 1 |-> IF n = k + 1 THEN next[<<k + 1, f[k]>>] ELSE f[n]]
  <2>2. f[k] \in S /\ <<k + 1, f[k]>> \in (1 .. N) \X S
    OBVIOUS
  <2>3. next[<<k + 1, f[k]>>] \in S
    BY <2>2 DEF S
  <2>4. g \in [0 .. k + 1 -> S]
    BY <2>3
  <2>5. /\ \A n \in 0 .. k : g[n] = f[n]
        /\ g[k + 1] = next[<<k + 1, f[k]>>]
    OBVIOUS
  <2>6. \A n \in 1 .. k + 1 : (n \in 1 .. k /\ n - 1 \in 0 .. k) \/ (n = k + 1 /\ n - 1 = k)
    OBVIOUS
  <2>7. Upto(k + 1, g)
    <3> HIDE DEF g
    <3>1. g[0] = base
      BY <2>1, <2>5
    <3>2. \A n \in 1 .. k + 1 : g[n] = next[<<n, g[n - 1]>>]
      <4> SUFFICES ASSUME NEW n \in 1 .. k + 1 PROVE g[n] = next[<<n, g[n - 1]>>]
        OBVIOUS
      <4>1. CASE n \in 1 .. k /\ n - 1 \in 0 .. k
        <5>1. n \in 0 .. k /\ f[n] = next[<<n, f[n - 1]>>]
          BY <2>1, <4>1
        <5>2. g[n] = f[n] /\ g[n - 1] = f[n - 1]
          BY <2>5, <4>1, <5>1, Zenon
        <5> QED BY <5>1, <5>2
      <4>2. CASE n = k + 1 /\ n - 1 = k
        <5>1. g[k] = f[k]
          BY <2>5
        <5> QED BY <2>5, <4>2, <5>1, Zenon
      <4> QED BY <2>6, <4>1, <4>2
    <3> QED BY <3>1, <3>2
  <2> HIDE DEF g, Upto
  <2> QED BY <2>4, <2>7
<1> HIDE DEF Good
<1>3. N \in Good
  BY <1>1, <1>2, Induction
<1> QED BY <1>3 DEF Good, S, base, Rounds

-----------------------------------------------------------------------------
(* The insertion sort of SelectRelevant.                                   *)

\* Place i of the list stands before place j once sorted: it has more hits, or
\* as many and is further ahead in the file.
Before(score, i, j) == score[i] > score[j] \/ (score[i] = score[j] /\ i < j)

\* The candidates among the first n, each of them, in the order of Before.
Sorted(score, cand, n, s) ==
    /\ s \in Seq(1 .. n)
    /\ \A i \in 1 .. n : i \in cand <=> \E p \in 1 .. Len(s) : s[p] = i
    /\ \A p, q \in 1 .. Len(s) : p < q => Before(score, s[p], s[q])

\* Those that score as much or more stand at the front.
StandAhead(score, s, n) == {p \in 1 .. Len(s) : score[s[p]] >= score[n]}

LEMMA AheadIsPrefix ==
    ASSUME NEW N \in Nat, NEW score \in [1 .. N -> Nat], NEW cand, NEW n \in 1 .. N,
           NEW s, Sorted(score, cand, n - 1, s)
    PROVE  \E k \in 0 .. Len(s) :
              StandAhead(score, s, n) = 1 .. k /\ Cardinality(StandAhead(score, s, n)) = k
<1> DEFINE A == {p \in 1 .. Len(s) : score[s[p]] >= score[n]}
<1>1. /\ Len(s) \in Nat /\ \A p \in 1 .. Len(s) : s[p] \in 1 .. N /\ score[s[p]] \in Nat
      /\ score[n] \in Nat
  <2>1. s \in Seq(1 .. n - 1)
    BY DEF Sorted
  <2>2. \A i \in 1 .. n - 1 : i \in 1 .. N
    OBVIOUS
  <2> QED BY <2>1, <2>2
<1>2. \A p, q \in 1 .. Len(s) : p < q => score[s[p]] >= score[s[q]]
  <2> SUFFICES ASSUME NEW p \in 1 .. Len(s), NEW q \in 1 .. Len(s), p < q
               PROVE  score[s[p]] >= score[s[q]]
    OBVIOUS
  <2>1. score[s[p]] > score[s[q]] \/ score[s[p]] = score[s[q]]
    BY DEF Sorted, Before
  <2> QED BY <1>1, <2>1
<1>3. \A p, q \in 1 .. Len(s) : p < q /\ q \in A => p \in A
  <2> SUFFICES ASSUME NEW p \in 1 .. Len(s), NEW q \in 1 .. Len(s), p < q, q \in A
               PROVE  score[s[p]] >= score[n]
    OBVIOUS
  <2>1. score[s[p]] >= score[s[q]] /\ score[s[q]] >= score[n]
    BY <1>2
  <2> QED BY <1>1, <2>1
<1> HIDE DEF A
<1>4. \E k \in 0 .. Len(s) : A = 1 .. k
  <2>1. CASE A = 1 .. Len(s)
    BY <1>1, <2>1
  <2>2. CASE A # 1 .. Len(s)
    <3>1. A \subseteq 1 .. Len(s)
      BY DEF A
    <3>2. (1 .. Len(s)) \ A # {}
      BY <2>2, <3>1, Zenon
    <3>3. (1 .. Len(s)) \ A \in SUBSET Nat
      OBVIOUS
    <3>4. PICK m \in (1 .. Len(s)) \ A : \A y \in (1 .. Len(s)) \ A : m <= y
      BY <3>2, <3>3, LeastElement
    <3>5. \A p \in 1 .. Len(s) : p \in A <=> p < m
      <4> SUFFICES ASSUME NEW p \in 1 .. Len(s) PROVE p \in A <=> p < m
        OBVIOUS
      <4>1. CASE p < m
        BY <1>1, <3>4, <4>1
      <4>2. CASE p = m
        BY <1>1, <3>4, <4>2
      <4>3. CASE m < p
        BY <1>1, <1>3, <3>4, <4>3
      <4> QED BY <1>1, <3>4, <4>1, <4>2, <4>3
    <3>6. m - 1 \in 0 .. Len(s) /\ m \in 1 .. Len(s)
      BY <1>1, <3>4
    <3>7. \A p \in A : p \in 1 .. m - 1
      BY <1>1, <3>1, <3>5, <3>6
    <3>8. \A p \in 1 .. m - 1 : p \in A
      BY <1>1, <3>5, <3>6
    <3>9. A = 1 .. m - 1
      BY <3>7, <3>8, Zenon
    <3> QED BY <3>6, <3>9
  <2> QED BY <2>1, <2>2
<1>5. PICK k \in 0 .. Len(s) : A = 1 .. k
  BY <1>4
<1>6. Cardinality(1 .. k) = k
  <2>1. k \in Int /\ 1 \in Int /\ k >= 0
    BY <1>1
  <2>2. Cardinality(1 .. k) = IF 1 > k THEN 0 ELSE k - 1 + 1
    BY <2>1, FS_Interval
  <2> QED BY <2>1, <2>2
<1> QED BY <1>5, <1>6 DEF A, StandAhead

LEMMA PlacesOf ==
    ASSUME NEW N, NEW s, s \in Seq(1 .. N)
    PROVE  \A p \in 1 .. Len(s) : s[p] \in 1 .. N
<1> DEFINE S == 1 .. N
<1>1. s \in Seq(S)
  OBVIOUS
<1> HIDE DEF S
<1>2. \A p \in 1 .. Len(s) : s[p] \in S
  BY <1>1
<1> QED BY <1>2 DEF S

\* The n-th behind the first k.
LEMMA InsertAtIs ==
    ASSUME NEW S, NEW s \in Seq(S), NEW k \in 0 .. Len(s), NEW x \in S
    PROVE  /\ InsertAt(s, k + 1, x) \in Seq(S)
           /\ Len(InsertAt(s, k + 1, x)) = Len(s) + 1
           /\ \A p \in 1 .. k : InsertAt(s, k + 1, x)[p] = s[p]
           /\ InsertAt(s, k + 1, x)[k + 1] = x
           /\ \A p \in k + 1 .. Len(s) : InsertAt(s, k + 1, x)[p + 1] = s[p]
<1> DEFINE u == SubSeq(s, 1, k)
<1> DEFINE v == SubSeq(s, k + 1, Len(s))
<1>1. /\ u \in Seq(S) /\ Len(u) = k /\ \A p \in 1 .. k : u[p] = s[p]
      /\ v \in Seq(S) /\ Len(v) = Len(s) - k /\ \A p \in 1 .. Len(s) - k : v[p] = s[k + p]
      /\ Len(s) \in Nat
  OBVIOUS
<1>2. InsertAt(s, k + 1, x) = u \o <<x>> \o v
  <2>1. (k + 1) - 1 = k
    OBVIOUS
  <2>2. InsertAt(s, k + 1, x) = SubSeq(s, 1, (k + 1) - 1) \o <<x>> \o SubSeq(s, k + 1, Len(s))
    BY Zenon DEF InsertAt
  <2> QED BY <2>1, <2>2, Zenon DEF u, v
<1> HIDE DEF u, v
<1> DEFINE w == u \o <<x>>
<1>3. /\ w \in Seq(S) /\ Len(w) = k + 1
      /\ \A p \in 1 .. k : w[p] = s[p]
      /\ w[k + 1] = x
  BY <1>1
<1> HIDE DEF w
<1> DEFINE t == w \o v
<1>4. /\ t \in Seq(S) /\ Len(t) = Len(w) + Len(v)
      /\ \A p \in 1 .. Len(w) + Len(v) : t[p] = IF p <= Len(w) THEN w[p] ELSE v[p - Len(w)]
  BY <1>1, <1>3, ConcatProperties
<1>5. Len(t) = Len(s) + 1
  BY <1>1, <1>3, <1>4
<1> HIDE DEF t
<1>6. \A p \in 1 .. k + 1 : t[p] = w[p]
  <2> SUFFICES ASSUME NEW p \in 1 .. k + 1 PROVE t[p] = w[p]
    OBVIOUS
  <2>1. p \in 1 .. Len(w) + Len(v) /\ p <= Len(w)
    BY <1>1, <1>3
  <2> QED BY <1>4, <2>1
<1>7. \A p \in k + 1 .. Len(s) : t[p + 1] = s[p]
  <2> SUFFICES ASSUME NEW p \in k + 1 .. Len(s) PROVE t[p + 1] = s[p]
    OBVIOUS
  <2>1. p + 1 \in 1 .. Len(w) + Len(v) /\ ~(p + 1 <= Len(w)) /\ p + 1 - Len(w) = p - k
        /\ p - k \in 1 .. Len(s) - k /\ k + (p - k) = p
    BY <1>1, <1>3
  <2>2. t[p + 1] = v[p - k]
    <3>1. t[p + 1] = v[p + 1 - Len(w)]
      BY <1>4, <2>1
    <3> QED BY <2>1, <3>1
  <2>3. v[p - k] = s[p]
    BY <1>1, <2>1
  <2> QED BY <2>2, <2>3
<1>8. (\A p \in 1 .. k : t[p] = s[p]) /\ t[k + 1] = x
  BY <1>3, <1>6
<1> QED BY <1>2, <1>4, <1>5, <1>7, <1>8 DEF t, w

\* A round of the sort keeps the order, as one that has as many hits goes behind.
LEMMA RoundSorts ==
    ASSUME NEW N \in Nat, NEW score \in [1 .. N -> Nat], NEW cand, NEW n \in 1 .. N, n \in cand,
           NEW s, Sorted(score, cand, n - 1, s),
           NEW k \in 0 .. Len(s), StandAhead(score, s, n) = 1 .. k
    PROVE  Sorted(score, cand, n, InsertAt(s, k + 1, n))
<1> DEFINE t == InsertAt(s, k + 1, n)
<1>0. /\ s \in Seq(1 .. n - 1) /\ Len(s) \in Nat
      /\ \A p \in 1 .. Len(s) : s[p] \in 1 .. n - 1
      /\ \A i \in 1 .. n : i \in 1 .. N /\ score[i] \in Nat
      /\ \A i \in 1 .. n : i \in 1 .. n - 1 \/ i = n
      /\ \A i \in 1 .. n - 1 : i \in 1 .. n /\ i < n
  BY DEF Sorted
<1>1. /\ t \in Seq(1 .. n) /\ Len(t) = Len(s) + 1
      /\ \A p \in 1 .. k : t[p] = s[p]
      /\ t[k + 1] = n
      /\ \A p \in k + 1 .. Len(s) : t[p + 1] = s[p]
  <2>1. s \in Seq(1 .. n) /\ n \in 1 .. n
    BY <1>0
  <2> DEFINE S == 1 .. n
  <2> HIDE DEF S
  <2>2. s \in Seq(S) /\ n \in S
    BY <2>1 DEF S
  <2>3. t \in Seq(S) /\ Len(t) = Len(s) + 1 /\ t[k + 1] = n
    BY <2>2, InsertAtIs
  <2>4. \A p \in 1 .. k : t[p] = s[p]
    BY <2>2, InsertAtIs
  <2>5. \A p \in k + 1 .. Len(s) : t[p + 1] = s[p]
    BY <2>2, InsertAtIs
  <2> QED BY <2>3, <2>4, <2>5 DEF S
<1> HIDE DEF t
<1>2. /\ \A p \in 1 .. k : p \in 1 .. Len(s) /\ score[s[p]] >= score[n]
      /\ \A p \in k + 1 .. Len(s) : p \in 1 .. Len(s) /\ p \notin 1 .. k
      /\ \A p \in k + 1 .. Len(s) : score[s[p]] < score[n]
  <2>1. \A p \in k + 1 .. Len(s) : p \in 1 .. Len(s) /\ p \notin 1 .. k
    BY <1>0
  <2>2. \A p \in 1 .. Len(s) : ~(score[s[p]] >= score[n]) => score[s[p]] < score[n]
    BY <1>0
  <2>3. \A p \in 1 .. Len(s) : p \in 1 .. k <=> score[s[p]] >= score[n]
    BY DEF StandAhead
  <2>4. \A p \in 1 .. k : p \in 1 .. Len(s)
    BY <1>0
  <2> QED BY <2>1, <2>2, <2>3, <2>4
\* The places of t: before the new one, its own, behind it.
<1>3. \A q \in 1 .. Len(t) :
          \/ q \in 1 .. k
          \/ q = k + 1
          \/ q - 1 \in k + 1 .. Len(s) /\ (q - 1) + 1 = q
  BY <1>0, <1>1
<1>4. /\ \A p \in 1 .. k : p \in 1 .. Len(t)
      /\ k + 1 \in 1 .. Len(t)
      /\ \A p \in k + 1 .. Len(s) : p + 1 \in 1 .. Len(t)
  BY <1>0, <1>1
<1>5. \A p \in 1 .. Len(s) : p \in 1 .. k \/ p \in k + 1 .. Len(s)
  BY <1>0
<1>6. \A i \in 1 .. n : i \in cand <=> \E p \in 1 .. Len(t) : t[p] = i
  <2> SUFFICES ASSUME NEW i \in 1 .. n
               PROVE  i \in cand <=> \E p \in 1 .. Len(t) : t[p] = i
    OBVIOUS
  <2>1. CASE i = n
    BY <1>1, <1>4, <2>1
  <2>2. CASE i # n
    <3>1. i \in 1 .. n - 1
      BY <1>0, <2>2
    <3>2. i \in cand <=> \E p \in 1 .. Len(s) : s[p] = i
      BY <3>1 DEF Sorted
    <3>3. ASSUME NEW p \in 1 .. Len(s), s[p] = i PROVE \E q \in 1 .. Len(t) : t[q] = i
      BY <1>1, <1>4, <1>5, <3>3, Zenon
    <3>4. ASSUME NEW q \in 1 .. Len(t), t[q] = i PROVE \E p \in 1 .. Len(s) : s[p] = i
      <4>1. CASE q \in 1 .. k
        BY <1>1, <1>2, <3>4, <4>1, Zenon
      <4>2. CASE q = k + 1
        BY <1>1, <2>2, <3>4, <4>2
      <4>3. CASE q - 1 \in k + 1 .. Len(s) /\ (q - 1) + 1 = q
        <5>1. t[(q - 1) + 1] = s[q - 1]
          BY <1>1, <4>3, Zenon
        <5> QED BY <1>2, <3>4, <4>3, <5>1
      <4> QED BY <1>3, <4>1, <4>2, <4>3
    <3> QED BY <3>2, <3>3, <3>4
  <2> QED BY <2>1, <2>2
<1>7. \A p, q \in 1 .. Len(t) : p < q => Before(score, t[p], t[q])
  <2> SUFFICES ASSUME NEW p \in 1 .. Len(t), NEW q \in 1 .. Len(t), p < q
               PROVE  Before(score, t[p], t[q])
    OBVIOUS
  <2>s. \A a, b \in 1 .. Len(s) : a < b => Before(score, s[a], s[b])
    BY DEF Sorted
  <2>n. \A a \in 1 .. k : Before(score, s[a], n)
    <3> SUFFICES ASSUME NEW a \in 1 .. k PROVE Before(score, s[a], n)
      OBVIOUS
    <3>1. a \in 1 .. Len(s) /\ score[s[a]] >= score[n] /\ s[a] \in 1 .. n - 1
      BY <1>0, <1>2
    <3>2. score[s[a]] \in Nat /\ score[n] \in Nat /\ s[a] < n
      BY <1>0, <3>1
    <3>3. score[s[a]] > score[n] \/ score[s[a]] = score[n]
      BY <3>1, <3>2
    <3> QED BY <3>2, <3>3 DEF Before
  <2>m. \A b \in k + 1 .. Len(s) : Before(score, n, s[b])
    <3> SUFFICES ASSUME NEW b \in k + 1 .. Len(s) PROVE Before(score, n, s[b])
      OBVIOUS
    <3>1. b \in 1 .. Len(s) /\ score[s[b]] < score[n] /\ s[b] \in 1 .. n
      BY <1>0, <1>2
    <3>2. score[s[b]] \in Nat /\ score[n] \in Nat
      BY <1>0, <3>1
    <3> QED BY <3>1, <3>2 DEF Before
  <2>p. p \in Nat /\ q \in Nat /\ k \in Nat
    BY <1>0, <1>1
  <2>1. CASE q \in 1 .. k
    <3>1. p \in 1 .. k
      BY <2>1, <2>p
    <3>2. p \in 1 .. Len(s) /\ q \in 1 .. Len(s) /\ t[p] = s[p] /\ t[q] = s[q]
      BY <1>1, <1>2, <2>1, <3>1
    <3> QED BY <2>s, <3>2
  <2>2. CASE q = k + 1
    <3>1. p \in 1 .. k
      BY <2>2, <2>p
    <3>2. t[p] = s[p] /\ t[q] = n
      BY <1>1, <2>2, <3>1
    <3> QED BY <2>n, <3>1, <3>2
  <2>3. CASE q - 1 \in k + 1 .. Len(s) /\ (q - 1) + 1 = q
    <3>1. t[q] = s[q - 1] /\ q - 1 \in 1 .. Len(s)
      <4>1. t[(q - 1) + 1] = s[q - 1]
        BY <1>1, <2>3, Zenon
      <4> QED BY <1>2, <2>3, <4>1
    <3>2. CASE p \in 1 .. k
      <4>1. p \in 1 .. Len(s) /\ t[p] = s[p]
        BY <1>1, <1>2, <3>2
      <4>2. p < q - 1
        BY <2>3, <2>p, <3>2
      <4> QED BY <2>s, <3>1, <4>1, <4>2
    <3>3. CASE p = k + 1
      <4>1. t[p] = n
        BY <1>1, <3>3
      <4> QED BY <2>3, <2>m, <3>1, <4>1
    <3>4. CASE p - 1 \in k + 1 .. Len(s) /\ (p - 1) + 1 = p
      <4>1. t[p] = s[p - 1] /\ p - 1 \in 1 .. Len(s)
        <5>1. t[(p - 1) + 1] = s[p - 1]
          BY <1>1, <3>4, Zenon
        <5> QED BY <1>2, <3>4, <5>1
      <4>2. p - 1 < q - 1
        BY <2>p
      <4> QED BY <2>s, <3>1, <4>1, <4>2
    <3> QED BY <1>3, <3>2, <3>3, <3>4
  <2> QED BY <1>3, <2>1, <2>2, <2>3
<1> QED BY <1>1, <1>6, <1>7 DEF Sorted, t

LEMMA RoundIsSort ==
    ASSUME NEW N \in Nat, NEW score \in [1 .. N -> Nat], NEW cand, NEW n \in 1 .. N, n \in cand,
           NEW s, Sorted(score, cand, n - 1, s)
    PROVE  Sorted(score, cand, n, InsertAt(s, Cardinality(StandAhead(score, s, n)) + 1, n))
<1>1. PICK k \in 0 .. Len(s) :
          StandAhead(score, s, n) = 1 .. k /\ Cardinality(StandAhead(score, s, n)) = k
  BY AheadIsPrefix
<1>2. Sorted(score, cand, n, InsertAt(s, k + 1, n))
  BY <1>1, RoundSorts
<1> QED BY <1>1, <1>2

\* What does not take part leaves the order as it is.
LEMMA RoundSkips ==
    ASSUME NEW N \in Nat, NEW score, NEW cand, NEW n \in 1 .. N, n \notin cand,
           NEW s, Sorted(score, cand, n - 1, s)
    PROVE  Sorted(score, cand, n, s)
<1>1. \A i \in 1 .. n : i \in 1 .. n - 1 \/ i = n
  OBVIOUS
<1>2. s \in Seq(1 .. n - 1) /\ \A p \in 1 .. Len(s) : s[p] \in 1 .. n - 1
  BY DEF Sorted
<1>3. \A p \in 1 .. Len(s) : s[p] # n
  BY <1>2
<1>4. s \in Seq(1 .. n)
  BY <1>2
<1> QED BY <1>1, <1>3, <1>4 DEF Sorted

\* The p-th has exactly p - 1 candidates before it.
LEMMA CountBefore ==
    ASSUME NEW N \in Nat, NEW score \in [1 .. N -> Nat], NEW cand,
           NEW s, Sorted(score, cand, N, s), NEW p \in 1 .. Len(s)
    PROVE  Cardinality({j \in 1 .. N : j \in cand /\ Before(score, j, s[p])}) = p - 1
<1> DEFINE B == {j \in 1 .. N : j \in cand /\ Before(score, j, s[p])}
<1> DEFINE f == [q \in 1 .. p - 1 |-> s[q]]
<1>1. /\ s \in Seq(1 .. N) /\ Len(s) \in Nat /\ p \in Nat
      /\ \A q \in 1 .. Len(s) : s[q] \in 1 .. N /\ s[q] \in cand
      /\ \A q \in 1 .. p - 1 : q \in 1 .. Len(s) /\ q < p
  <2>1. s \in Seq(1 .. N)
    BY DEF Sorted
  <2>2. \A q \in 1 .. Len(s) : s[q] \in 1 .. N
    BY <2>1
  <2> QED BY <2>1, <2>2 DEF Sorted
<1>2. \A q, r \in 1 .. Len(s) : q < r => Before(score, s[q], s[r])
  BY DEF Sorted
<1>3. \A a, b \in 1 .. N : ~(Before(score, a, b) /\ Before(score, b, a)) /\ ~Before(score, a, a)
  BY DEF Before
<1>4. f \in [1 .. p - 1 -> B]
  BY <1>1, <1>2
<1>5. f \in Injection(1 .. p - 1, B)
  <2> SUFFICES ASSUME NEW q \in 1 .. p - 1, NEW r \in 1 .. p - 1, s[q] = s[r]
               PROVE  q = r
    BY <1>4, Fun_IsInj
  <2>1. ~(q < r) /\ ~(r < q)
    BY <1>1, <1>2, <1>3
  <2> QED BY <2>1
<1>6. \A j \in B : \E q \in 1 .. p - 1 : f[q] = j
  <2> SUFFICES ASSUME NEW j \in B PROVE \E q \in 1 .. p - 1 : s[q] = j
    OBVIOUS
  <2>1. PICK q \in 1 .. Len(s) : s[q] = j
    BY DEF Sorted
  <2>2. ~(p < q) /\ p # q
    BY <1>1, <1>2, <1>3, <2>1
  <2>3. q \in 1 .. p - 1
    BY <1>1, <2>2
  <2> QED BY <2>1, <2>3
<1>7. f \in Surjection(1 .. p - 1, B)
  BY <1>4, <1>6, Fun_IsSurj
<1>8. IsFiniteSet(B)
  <2>1. IsFiniteSet(1 .. N)
    BY FS_Interval
  <2>2. B \in SUBSET (1 .. N)
    OBVIOUS
  <2> HIDE DEF B
  <2> QED BY <2>1, <2>2, FS_Subset
<1> HIDE DEF f, B
<1>9. Cardinality(1 .. p - 1) = Cardinality(B)
  BY <1>5, <1>7, <1>8, FS_Injection
<1>10. Cardinality(1 .. p - 1) = p - 1
  <2>1. p - 1 \in Int /\ 1 \in Int /\ p >= 1
    BY <1>1
  <2>2. Cardinality(1 .. p - 1) = IF 1 > p - 1 THEN 0 ELSE p - 1 - 1 + 1
    BY <2>1, FS_Interval
  <2> QED BY <2>1, <2>2
<1> QED BY <1>9, <1>10 DEF B

-----------------------------------------------------------------------------
(* SelectRelevant itself.                                                  *)

Scores(sections, prompt) == [i \in 1 .. Len(sections) |-> Score(sections[i], prompt)]
Candidates(sections, prompt) == {i \in 1 .. Len(sections) : IsCandidate(sections[i], prompt)}

LEMMA ScoreIsNat ==
    ASSUME NEW Tag, NEW sections \in Seq([tags : Seq(Tag)]), NEW prompt,
           NEW i \in 1 .. Len(sections)
    PROVE  Score(sections[i], prompt) \in Nat
<1> DEFINE tags == sections[i].tags
<1> DEFINE H == {p \in DOMAIN tags : tags[p] \in prompt}
<1>1. tags \in Seq(Tag)
  <2>1. \A x \in [tags : Seq(Tag)] : x.tags \in Seq(Tag)
    OBVIOUS
  <2>2. sections[i] \in [tags : Seq(Tag)]
    <3> DEFINE S == [tags : Seq(Tag)]
    <3>1. sections \in Seq(S)
      OBVIOUS
    <3> HIDE DEF S
    <3>2. sections[i] \in S
      BY <3>1
    <3> QED BY <3>2 DEF S
  <2> QED BY <2>1, <2>2, Zenon
<1> HIDE DEF tags
<1>2. DOMAIN tags = 1 .. Len(tags) /\ Len(tags) \in Nat
  BY <1>1
<1>3. IsFiniteSet(DOMAIN tags)
  BY <1>2, FS_Interval
<1>4. H \in SUBSET DOMAIN tags
  OBVIOUS
<1> HIDE DEF H
<1>5. Cardinality(H) \in Nat
  BY <1>3, <1>4, FS_Subset, FS_CardinalityType
<1> QED BY <1>5 DEF Score, H, tags

LEMMA ScoresAre ==
    ASSUME NEW Tag, NEW sections \in Seq([tags : Seq(Tag)]), NEW prompt
    PROVE  Scores(sections, prompt) \in [1 .. Len(sections) -> Nat]
BY ScoreIsNat DEF Scores

\* Wherever the sort puts a section, a sequence of places results.
LEMMA InsertIsSeq ==
    ASSUME NEW sections, NEW prompt, NEW s \in Seq(Nat), NEW n \in Nat
    PROVE  Insert(sections, prompt, s, n) \in Seq(Nat)
<1> DEFINE A == {p \in DOMAIN s : Score(sections[s[p]], prompt) >= Score(sections[n], prompt)}
<1>1. DOMAIN s = 1 .. Len(s) /\ Len(s) \in Nat
  OBVIOUS
<1>2. IsFiniteSet(DOMAIN s) /\ Cardinality(DOMAIN s) = Len(s)
  <2>1. 1 \in Int /\ Len(s) \in Int /\ (1 > Len(s) <=> Len(s) = 0) /\ Len(s) - 1 + 1 = Len(s)
    BY <1>1
  <2>2. /\ IsFiniteSet(1 .. Len(s))
        /\ Cardinality(1 .. Len(s)) = IF 1 > Len(s) THEN 0 ELSE Len(s) - 1 + 1
    BY <2>1, FS_Interval
  <2> QED BY <1>1, <2>1, <2>2
<1>3. A \in SUBSET DOMAIN s
  OBVIOUS
<1> HIDE DEF A
<1>4. Cardinality(A) \in Nat /\ Cardinality(A) <= Len(s)
  BY <1>2, <1>3, FS_Subset, FS_CardinalityType
<1>5. Cardinality(A) \in 0 .. Len(s)
  BY <1>1, <1>4
<1>6. InsertAt(s, Cardinality(A) + 1, n) \in Seq(Nat)
  BY <1>5, InsertAtIs
<1> QED BY <1>6 DEF Insert, A

\* The recursive function of the sort obeys its equation.
LEMMA SortingIs ==
    ASSUME NEW sections, Len(sections) \in Nat, NEW prompt
    PROVE  /\ Sorting(sections, prompt)[0] = <<>>
           /\ \A n \in 1 .. Len(sections) :
                 Sorting(sections, prompt)[n] =
                    IF IsCandidate(sections[n], prompt)
                    THEN Insert(sections, prompt, Sorting(sections, prompt)[n - 1], n)
                    ELSE Sorting(sections, prompt)[n - 1]
<1> DEFINE N == Len(sections)
<1> DEFINE G(g) == [n \in 0 .. Len(sections) |->
                      IF n = 0 THEN <<>>
                      ELSE IF IsCandidate(sections[n], prompt)
                           THEN Insert(sections, prompt, g[n - 1], n)
                           ELSE g[n - 1]]
<1> DEFINE next == [x \in (1 .. N) \X Seq(Nat) |->
                      IF IsCandidate(sections[x[1]], prompt)
                      THEN Insert(sections, prompt, x[2], x[1])
                      ELSE x[2]]
<1>1. next \in [(1 .. N) \X Seq(Nat) -> Seq(Nat)]
  <2> SUFFICES ASSUME NEW n \in 1 .. N, NEW s \in Seq(Nat)
               PROVE  Insert(sections, prompt, s, n) \in Seq(Nat)
    OBVIOUS
  <2>1. n \in Nat
    OBVIOUS
  <2> QED BY <2>1, InsertIsSeq
<1>2. PICK f \in [0 .. N -> Seq(Nat)] :
          f[0] = <<>> /\ \A n \in 1 .. N : f[n] = next[<<n, f[n - 1]>>]
  <2>1. N \in Nat /\ next \in [(1 .. N) \X Selections -> Selections]
    BY <1>1 DEF Selections
  <2> HIDE DEF next, N
  <2>2. \E f \in [0 .. N -> Selections] : Rounds(N, next, f)
    BY <2>1, Recursion
  <2> QED BY <2>2 DEF Selections, Rounds
<1>3. \A n \in 1 .. N : n - 1 \in 0 .. N /\ n # 0
  OBVIOUS
<1>4. \A n \in 1 .. N : f[n] = IF IsCandidate(sections[n], prompt)
                                THEN Insert(sections, prompt, f[n - 1], n)
                                ELSE f[n - 1]
  <2> SUFFICES ASSUME NEW n \in 1 .. N
               PROVE  f[n] = IF IsCandidate(sections[n], prompt)
                             THEN Insert(sections, prompt, f[n - 1], n)
                             ELSE f[n - 1]
    OBVIOUS
  <2>1. <<n, f[n - 1]>> \in (1 .. N) \X Seq(Nat) /\ f[n] = next[<<n, f[n - 1]>>]
    BY <1>2, <1>3
  <2> QED BY <2>1
<1>5. f = G(f)
  <2>1. \A n \in 0 .. N : n = 0 \/ n \in 1 .. N
    OBVIOUS
  <2>2. \A n \in 0 .. N : f[n] = G(f)[n]
    BY <1>2, <1>3, <1>4, <2>1
  <2> QED BY <2>2
<1>6. Sorting(sections, prompt) = CHOOSE g : g = G(g)
  BY Zenon DEF Sorting
<1> HIDE DEF G
<1>7. (CHOOSE g : g = G(g)) = G(CHOOSE g : g = G(g))
  BY <1>5
<1>8. Sorting(sections, prompt) = G(Sorting(sections, prompt))
  BY <1>6, <1>7
<1>9. 0 \in 0 .. N /\ \A n \in 1 .. N : n \in 0 .. N
  OBVIOUS
<1> QED BY <1>3, <1>8, <1>9 DEF G

\* A round of the sort, in the words of the lemmas above.
LEMMA InsertSorts ==
    ASSUME NEW Tag, NEW sections \in Seq([tags : Seq(Tag)]), NEW prompt,
           NEW n \in 1 .. Len(sections), IsCandidate(sections[n], prompt),
           NEW s, Sorted(Scores(sections, prompt), Candidates(sections, prompt), n - 1, s)
    PROVE  Sorted(Scores(sections, prompt), Candidates(sections, prompt), n,
                  Insert(sections, prompt, s, n))
<1> DEFINE N == Len(sections)
<1> DEFINE score == Scores(sections, prompt)
<1> DEFINE cand == Candidates(sections, prompt)
<1>1. N \in Nat /\ score \in [1 .. N -> Nat] /\ n \in cand
  <2>1. score \in [1 .. N -> Nat]
    BY ScoresAre, Zenon
  <2> QED BY <2>1 DEF Candidates
<1>2. /\ DOMAIN s = 1 .. Len(s)
      /\ \A p \in 1 .. Len(s) : s[p] \in 1 .. N
      /\ \A i \in 1 .. N : score[i] = Score(sections[i], prompt)
  <2>1. s \in Seq(1 .. n - 1)
    BY DEF Sorted
  <2>2. \A i \in 1 .. n - 1 : i \in 1 .. N
    OBVIOUS
  <2>3. \A p \in 1 .. Len(s) : s[p] \in 1 .. n - 1
    BY <2>1
  <2> QED BY <2>1, <2>2, <2>3 DEF Scores
<1>3. {p \in DOMAIN s : Score(sections[s[p]], prompt) >= Score(sections[n], prompt)}
          = StandAhead(score, s, n)
  BY <1>2 DEF StandAhead
<1> HIDE DEF N, score, cand
<1>4. Sorted(score, cand, n - 1, s) /\ n \in 1 .. N
  BY DEF N, score, cand
<1>6. Insert(sections, prompt, s, n)
          = InsertAt(s, Cardinality(StandAhead(score, s, n)) + 1, n)
  BY <1>3, Zenon DEF Insert
<1>7. Sorted(score, cand, n, InsertAt(s, Cardinality(StandAhead(score, s, n)) + 1, n))
  BY <1>1, <1>4, RoundIsSort
<1> QED BY <1>6, <1>7 DEF score, cand

\* After each round the candidates among the sections so far are sorted.
LEMMA SortingSorts ==
    ASSUME NEW Tag, NEW sections \in Seq([tags : Seq(Tag)]), NEW prompt,
           NEW n \in 0 .. Len(sections)
    PROVE  Sorted(Scores(sections, prompt), Candidates(sections, prompt), n,
                  Sorting(sections, prompt)[n])
<1> DEFINE N == Len(sections)
<1> DEFINE score == Scores(sections, prompt)
<1> DEFINE cand == Candidates(sections, prompt)
<1> DEFINE sorted == Sorting(sections, prompt)
<1> DEFINE T == {m \in Nat : m <= N => Sorted(score, cand, m, sorted[m])}
<1>0. N \in Nat
  OBVIOUS
<1> HIDE DEF N, score, cand, sorted
<1>1. 0 \in T
  <2>1. sorted[0] = <<>>
    BY <1>0, SortingIs DEF N, sorted
  <2>2. Sorted(score, cand, 0, <<>>)
    BY DEF Sorted
  <2> QED BY <2>1, <2>2
<1>2. ASSUME NEW m \in Nat, m \in T PROVE m + 1 \in T
  <2> SUFFICES ASSUME m + 1 <= N PROVE Sorted(score, cand, m + 1, sorted[m + 1])
    OBVIOUS
  <2>1. Sorted(score, cand, (m + 1) - 1, sorted[m]) /\ (m + 1) - 1 = m /\ m + 1 \in 1 .. N
    <3>1. m <= N /\ (m + 1) - 1 = m /\ m + 1 \in 1 .. N
      BY <1>0
    <3> QED BY <1>2, <3>1
  <2>2. CASE IsCandidate(sections[m + 1], prompt)
    <3>1. sorted[m + 1] = Insert(sections, prompt, sorted[m], m + 1)
      <4>1. sorted[m + 1] = IF IsCandidate(sections[m + 1], prompt)
                            THEN Insert(sections, prompt, sorted[(m + 1) - 1], m + 1)
                            ELSE sorted[(m + 1) - 1]
        BY <1>0, <2>1, SortingIs, Zenon DEF N, sorted
      <4> QED BY <2>1, <2>2, <4>1
    <3>2. Sorted(score, cand, m + 1, Insert(sections, prompt, sorted[m], m + 1))
      BY <2>1, <2>2, InsertSorts DEF N, score, cand
    <3> QED BY <3>1, <3>2
  <2>3. CASE ~IsCandidate(sections[m + 1], prompt)
    <3>1. sorted[m + 1] = sorted[m]
      <4>1. sorted[m + 1] = IF IsCandidate(sections[m + 1], prompt)
                            THEN Insert(sections, prompt, sorted[(m + 1) - 1], m + 1)
                            ELSE sorted[(m + 1) - 1]
        BY <1>0, <2>1, SortingIs, Zenon DEF N, sorted
      <4> QED BY <2>1, <2>3, <4>1
    <3>2. m + 1 \notin cand
      BY <2>3 DEF cand, Candidates
    <3>3. Sorted(score, cand, m + 1, sorted[m])
      BY <1>0, <2>1, <3>2, RoundSkips
    <3> QED BY <3>1, <3>3
  <2> QED BY <2>2, <2>3
<1> HIDE DEF T
<1>3. Nat \subseteq T
  BY <1>1, <1>2, Induction
<1>4. n \in Nat /\ n <= N
  BY <1>0 DEF N
<1> QED BY <1>3, <1>4, Zenon DEF T, score, cand, sorted

\* The sections that are always injected, in the order of the file: all score
\* the same.
Level(sections) == [i \in 1 .. Len(sections) |-> 0]
Permanent(sections) == {i \in 1 .. Len(sections) : Always(sections[i])}

LEMMA FixedIs ==
    ASSUME NEW sections, Len(sections) \in Nat
    PROVE  /\ Fixed(sections)[0] = <<>>
           /\ \A n \in 1 .. Len(sections) :
                 Fixed(sections)[n] = IF Always(sections[n])
                                      THEN Append(Fixed(sections)[n - 1], n)
                                      ELSE Fixed(sections)[n - 1]
<1> DEFINE N == Len(sections)
<1> DEFINE G(g) == [n \in 0 .. Len(sections) |->
                      IF n = 0 THEN <<>>
                      ELSE IF Always(sections[n]) THEN Append(g[n - 1], n) ELSE g[n - 1]]
<1> DEFINE next == [x \in (1 .. N) \X Seq(Nat) |->
                      IF Always(sections[x[1]]) THEN Append(x[2], x[1]) ELSE x[2]]
<1>1. next \in [(1 .. N) \X Seq(Nat) -> Seq(Nat)]
  OBVIOUS
<1>2. PICK f \in [0 .. N -> Seq(Nat)] :
          f[0] = <<>> /\ \A n \in 1 .. N : f[n] = next[<<n, f[n - 1]>>]
  <2>1. N \in Nat /\ next \in [(1 .. N) \X Selections -> Selections]
    BY <1>1 DEF Selections
  <2> HIDE DEF next, N
  <2>2. \E f \in [0 .. N -> Selections] : Rounds(N, next, f)
    BY <2>1, Recursion
  <2> QED BY <2>2 DEF Selections, Rounds
<1>3. \A n \in 1 .. N : n - 1 \in 0 .. N /\ n # 0
  OBVIOUS
<1>4. \A n \in 1 .. N : f[n] = IF Always(sections[n]) THEN Append(f[n - 1], n) ELSE f[n - 1]
  <2> SUFFICES ASSUME NEW n \in 1 .. N
               PROVE  f[n] = IF Always(sections[n]) THEN Append(f[n - 1], n) ELSE f[n - 1]
    OBVIOUS
  <2>1. <<n, f[n - 1]>> \in (1 .. N) \X Seq(Nat) /\ f[n] = next[<<n, f[n - 1]>>]
    BY <1>2, <1>3
  <2> QED BY <2>1
<1>5. f = G(f)
  <2>1. \A n \in 0 .. N : n = 0 \/ n \in 1 .. N
    OBVIOUS
  <2>2. \A n \in 0 .. N : f[n] = G(f)[n]
    BY <1>2, <1>3, <1>4, <2>1
  <2> QED BY <2>2
<1>6. Fixed(sections) = CHOOSE g : g = G(g)
  BY Zenon DEF Fixed
<1> HIDE DEF G
<1>7. (CHOOSE g : g = G(g)) = G(CHOOSE g : g = G(g))
  BY <1>5
<1>8. Fixed(sections) = G(Fixed(sections))
  BY <1>6, <1>7
<1>9. 0 \in 0 .. N /\ \A n \in 1 .. N : n \in 0 .. N
  OBVIOUS
<1> QED BY <1>3, <1>8, <1>9 DEF G

\* With equal scores a round puts the section at the end.
LEMMA AppendSorts ==
    ASSUME NEW N \in Nat, NEW score, \A i \in 1 .. N : score[i] = 0, NEW cand,
           NEW n \in 1 .. N, n \in cand, NEW s, Sorted(score, cand, n - 1, s)
    PROVE  Sorted(score, cand, n, Append(s, n))
<1> DEFINE t == Append(s, n)
<1>1. /\ s \in Seq(1 .. n - 1) /\ Len(s) \in Nat
      /\ \A p \in 1 .. Len(s) : s[p] \in 1 .. n - 1
      /\ \A i \in 1 .. n - 1 : i \in 1 .. n /\ i \in 1 .. N /\ i < n
      /\ \A i \in 1 .. n : i \in 1 .. n - 1 \/ i = n
  BY DEF Sorted
<1>2. s \in Seq(1 .. n) /\ n \in 1 .. n
  BY <1>1
<1>3. /\ t \in Seq(1 .. n) /\ Len(t) = Len(s) + 1 /\ t[Len(s) + 1] = n
      /\ \A p \in 1 .. Len(s) : t[p] = s[p]
  BY <1>2
<1> HIDE DEF t
<1>4. /\ \A q \in 1 .. Len(t) : q \in 1 .. Len(s) \/ q = Len(s) + 1
      /\ \A p \in 1 .. Len(s) : p \in 1 .. Len(t)
      /\ Len(s) + 1 \in 1 .. Len(t)
  BY <1>1, <1>3
<1>5. \A i \in 1 .. n : i \in cand <=> \E p \in 1 .. Len(t) : t[p] = i
  <2> SUFFICES ASSUME NEW i \in 1 .. n
               PROVE  i \in cand <=> \E p \in 1 .. Len(t) : t[p] = i
    OBVIOUS
  <2>1. CASE i = n
    BY <1>3, <1>4, <2>1
  <2>2. CASE i # n
    <3>1. i \in cand <=> \E p \in 1 .. Len(s) : s[p] = i
      BY <1>1, <2>2 DEF Sorted
    <3> QED BY <1>3, <1>4, <2>2, <3>1
  <2> QED BY <2>1, <2>2
<1>6. \A p, q \in 1 .. Len(t) : p < q => Before(score, t[p], t[q])
  <2> SUFFICES ASSUME NEW p \in 1 .. Len(t), NEW q \in 1 .. Len(t), p < q
               PROVE  Before(score, t[p], t[q])
    OBVIOUS
  <2>1. p \in 1 .. Len(s) /\ t[p] = s[p]
    BY <1>1, <1>3
  <2>2. CASE q \in 1 .. Len(s)
    <3>1. Before(score, s[p], s[q])
      BY <2>1, <2>2 DEF Sorted
    <3> QED BY <1>3, <2>1, <2>2, <3>1
  <2>3. CASE q = Len(s) + 1
    <3>1. t[q] = n /\ s[p] < n /\ score[s[p]] = 0 /\ score[n] = 0
      BY <1>1, <1>3, <2>1, <2>3
    <3> QED BY <2>1, <3>1 DEF Before
  <2> QED BY <1>4, <2>2, <2>3
<1> QED BY <1>3, <1>5, <1>6 DEF Sorted, t

LEMMA FixedSorts ==
    ASSUME NEW sections, Len(sections) \in Nat, NEW n \in 0 .. Len(sections)
    PROVE  Sorted(Level(sections), Permanent(sections), n, Fixed(sections)[n])
<1> DEFINE N == Len(sections)
<1> DEFINE score == Level(sections)
<1> DEFINE cand == Permanent(sections)
<1> DEFINE fixed == Fixed(sections)
<1> DEFINE T == {m \in Nat : m <= N => Sorted(score, cand, m, fixed[m])}
<1>0. N \in Nat /\ \A i \in 1 .. N : score[i] = 0
  BY DEF Level
<1> HIDE DEF N, score, cand, fixed
<1>1. 0 \in T
  <2>1. fixed[0] = <<>>
    BY <1>0, FixedIs DEF N, fixed
  <2>2. Sorted(score, cand, 0, <<>>)
    BY DEF Sorted
  <2> QED BY <2>1, <2>2
<1>2. ASSUME NEW m \in Nat, m \in T PROVE m + 1 \in T
  <2> SUFFICES ASSUME m + 1 <= N PROVE Sorted(score, cand, m + 1, fixed[m + 1])
    OBVIOUS
  <2>1. Sorted(score, cand, (m + 1) - 1, fixed[m]) /\ (m + 1) - 1 = m /\ m + 1 \in 1 .. N
    <3>1. m <= N /\ (m + 1) - 1 = m /\ m + 1 \in 1 .. N
      BY <1>0
    <3> QED BY <1>2, <3>1
  <2>2. fixed[m + 1] = IF Always(sections[m + 1])
                       THEN Append(fixed[(m + 1) - 1], m + 1) ELSE fixed[(m + 1) - 1]
    BY <1>0, <2>1, FixedIs, Zenon DEF N, fixed
  <2>3. m + 1 \in cand <=> Always(sections[m + 1])
    BY <2>1 DEF cand, Permanent, N
  <2>4. CASE Always(sections[m + 1])
    <3>1. Sorted(score, cand, m + 1, Append(fixed[m], m + 1))
      BY <1>0, <2>1, <2>3, <2>4, AppendSorts
    <3> QED BY <2>1, <2>2, <2>4, <3>1
  <2>5. CASE ~Always(sections[m + 1])
    <3>1. Sorted(score, cand, m + 1, fixed[m])
      BY <1>0, <2>1, <2>3, <2>5, RoundSkips
    <3> QED BY <2>1, <2>2, <2>5, <3>1
  <2> QED BY <2>4, <2>5
<1> HIDE DEF T
<1>3. Nat \subseteq T
  BY <1>1, <1>2, Induction
<1>4. n \in Nat /\ n <= N
  BY <1>0 DEF N
<1> QED BY <1>3, <1>4, Zenon DEF T, score, cand, fixed

\* Only candidates beat a candidate, those that stand before it once sorted.
LEMMA BeatsIsBefore ==
    ASSUME NEW Tag, NEW sections \in Seq([tags : Seq(Tag)]), NEW prompt,
           NEW i \in Candidates(sections, prompt)
    PROVE  {j \in DOMAIN sections : Beats(sections, prompt, j, i)}
             = {j \in 1 .. Len(sections) :
                   j \in Candidates(sections, prompt) /\ Before(Scores(sections, prompt), j, i)}
<1> DEFINE N == Len(sections)
<1> DEFINE score == Scores(sections, prompt)
<1>1. DOMAIN sections = 1 .. N /\ i \in 1 .. N /\ Score(sections[i], prompt) > 0
  BY DEF Candidates, IsCandidate
<1>2. \A j \in 1 .. N : Score(sections[j], prompt) \in Nat
  BY ScoreIsNat
<1>3. \A j \in 1 .. N : score[j] = Score(sections[j], prompt)
  BY DEF Scores
<1>4. \A j \in 1 .. N : Beats(sections, prompt, j, i)
                           <=> ~Always(sections[j]) /\ Before(score, j, i)
  BY <1>1, <1>3 DEF Beats, Before
<1>5. \A j \in 1 .. N : Before(score, j, i) => Score(sections[j], prompt) > 0
  <2> SUFFICES ASSUME NEW j \in 1 .. N, Before(score, j, i)
               PROVE  Score(sections[j], prompt) > 0
    OBVIOUS
  <2>1. score[j] > score[i] \/ score[j] = score[i]
    BY DEF Before
  <2>2. /\ score[j] = Score(sections[j], prompt) /\ score[i] = Score(sections[i], prompt)
        /\ Score(sections[j], prompt) \in Nat /\ Score(sections[i], prompt) \in Nat
    BY <1>1, <1>2, <1>3
  <2> QED BY <1>1, <2>1, <2>2
<1>6. \A j \in 1 .. N : j \in Candidates(sections, prompt)
                           <=> ~Always(sections[j]) /\ Score(sections[j], prompt) > 0
  BY DEF Candidates, IsCandidate
<1> HIDE DEF N, score
<1> QED BY <1>1, <1>4, <1>5, <1>6, Zenon DEF N, score

\* The extras are the first three of the sorted candidates.
LEMMA ExtrasAre ==
    ASSUME NEW sections, NEW prompt, NEW N \in Nat, NEW s \in Seq(1 .. N),
           s = Sorting(sections, prompt)[Len(sections)]
    PROVE  /\ Extras(sections, prompt) \in Seq(1 .. N)
           /\ \A p \in 1 .. Len(Extras(sections, prompt)) :
                 p <= 3 /\ p \in 1 .. Len(s) /\ Extras(sections, prompt)[p] = s[p]
           /\ \A p \in 1 .. Len(s) : p <= 3 => p \in 1 .. Len(Extras(sections, prompt))
<1> DEFINE m == IF Len(s) < 3 THEN Len(s) ELSE 3
<1>1. Extras(sections, prompt) = SubSeq(s, 1, m)
  BY DEF Extras, MaxExtraSections
<1>2. Len(s) \in Nat /\ m \in 0 .. Len(s) /\ m <= 3 /\ (m = Len(s) \/ m = 3)
  OBVIOUS
<1> HIDE DEF m
<1>3. /\ SubSeq(s, 1, m) \in Seq(1 .. N) /\ Len(SubSeq(s, 1, m)) = m
      /\ \A p \in 1 .. m : SubSeq(s, 1, m)[p] = s[p]
  BY <1>2
<1>4. (\A p \in 1 .. m : p <= 3 /\ p \in 1 .. Len(s)) /\ \A p \in 1 .. Len(s) : p <= 3 => p \in 1 .. m
  BY <1>2
<1> QED BY <1>1, <1>3, <1>4

\* The extras are what the reference counts in among the sections that are not
\* always injected, in the order of their hits.
LEMMA ExtrasAreRelevant ==
    ASSUME NEW Tag, NEW sections \in Seq([tags : Seq(Tag)]), NEW prompt
    PROVE  /\ Extras(sections, prompt) \in Seq(1 .. Len(sections))
           /\ \A p \in 1 .. Len(Extras(sections, prompt)) :
                 Extras(sections, prompt)[p] \in Candidates(sections, prompt)
           /\ \A p, q \in 1 .. Len(Extras(sections, prompt)) :
                 p < q => Before(Scores(sections, prompt), Extras(sections, prompt)[p],
                                 Extras(sections, prompt)[q])
           /\ \A i \in 1 .. Len(sections) :
                 ~Always(sections[i]) =>
                    (Relevant(sections, prompt, i)
                        <=> \E p \in 1 .. Len(Extras(sections, prompt)) :
                               Extras(sections, prompt)[p] = i)
<1> DEFINE N == Len(sections)
<1> DEFINE score == Scores(sections, prompt)
<1> DEFINE cand == Candidates(sections, prompt)
<1> DEFINE s == Sorting(sections, prompt)[N]
<1> DEFINE e == Extras(sections, prompt)
<1>1. N \in Nat
  OBVIOUS
<1>2. Sorted(score, cand, N, s)
  <2>1. N \in 0 .. Len(sections)
    BY <1>1
  <2> QED BY <2>1, SortingSorts
<1>3. score \in [1 .. N -> Nat]
  BY ScoresAre, Zenon
<1>4. \A p \in 1 .. Len(s) : s[p] \in cand
                          /\ Cardinality({j \in DOMAIN sections : Beats(sections, prompt, j, s[p])}) = p - 1
  <2> SUFFICES ASSUME NEW p \in 1 .. Len(s)
               PROVE  s[p] \in cand /\ Cardinality({j \in DOMAIN sections : Beats(sections, prompt, j, s[p])}) = p - 1
    OBVIOUS
  <2> HIDE DEF score, cand, s, N
  <2>1. s[p] \in cand
    <3>1. s[p] \in 1 .. N
      <4>1. s \in Seq(1 .. N)
        BY <1>2 DEF Sorted
      <4> QED BY <4>1, PlacesOf
    <3> QED BY <1>2, <3>1 DEF Sorted
  <2>2. {j \in DOMAIN sections : Beats(sections, prompt, j, s[p])}
            = {j \in 1 .. N : j \in cand /\ Before(score, j, s[p])}
    BY <2>1, BeatsIsBefore DEF cand, score, N
  <2>3. Cardinality({j \in 1 .. N : j \in cand /\ Before(score, j, s[p])}) = p - 1
    BY <1>1, <1>2, <1>3, CountBefore
  <2> QED BY <2>1, <2>2, <2>3
<1>5. /\ \A i \in 1 .. N : i \in cand <=> \E p \in 1 .. Len(s) : s[p] = i
      /\ \A p, q \in 1 .. Len(s) : p < q => Before(score, s[p], s[q])
      /\ s \in Seq(1 .. N)
  <2> HIDE DEF score, cand, s, N
  <2> QED BY <1>2 DEF Sorted
<1>6. /\ e \in Seq(1 .. N)
      /\ \A p \in 1 .. Len(e) : p <= 3 /\ p \in 1 .. Len(s) /\ e[p] = s[p]
      /\ \A p \in 1 .. Len(s) : p <= 3 => p \in 1 .. Len(e)
  BY <1>1, <1>5, ExtrasAre
<1>7. \A i \in 1 .. N : ~Always(sections[i]) => (i \in cand <=> Score(sections[i], prompt) > 0)
  BY DEF Candidates, IsCandidate
<1>8. \A i \in cand : i \in 1 .. N /\ ~Always(sections[i])
  BY DEF Candidates, IsCandidate
<1>9. Len(s) \in Nat
  BY <1>5
<1> HIDE DEF score, cand, s, N, e
<1>10. ASSUME NEW i \in 1 .. N, ~Always(sections[i])
       PROVE  Relevant(sections, prompt, i) <=> \E p \in 1 .. Len(e) : e[p] = i
  <2>1. Relevant(sections, prompt, i)
           <=> i \in cand /\ Cardinality({j \in DOMAIN sections : Beats(sections, prompt, j, i)}) < 3
    BY <1>7, <1>10, Zenon DEF Relevant, MaxExtraSections
  <2>2. ASSUME i \in cand, Cardinality({j \in DOMAIN sections : Beats(sections, prompt, j, i)}) < 3
        PROVE  \E p \in 1 .. Len(e) : e[p] = i
    <3>1. PICK p \in 1 .. Len(s) : s[p] = i
      BY <1>5, <2>2
    <3>2. p - 1 < 3
      BY <1>4, <2>2, <3>1, Zenon
    <3>3. p <= 3
      BY <1>9, <3>2
    <3> QED BY <1>6, <3>1, <3>3, Zenon
  <2>3. ASSUME NEW p \in 1 .. Len(e), e[p] = i
        PROVE  i \in cand /\ Cardinality({j \in DOMAIN sections : Beats(sections, prompt, j, i)}) < 3
    <3>1. p <= 3 /\ p \in 1 .. Len(s) /\ s[p] = i
      BY <1>6, <2>3
    <3>2. p - 1 < 3
      BY <1>9, <3>1
    <3>3. s[p] \in cand /\ Cardinality({j \in DOMAIN sections : Beats(sections, prompt, j, s[p])}) = p - 1
      BY <1>4, <3>1, Zenon
    <3> QED BY <3>1, <3>2, <3>3
  <2> QED BY <2>1, <2>2, <2>3, Zenon
<1>11. \A p \in 1 .. Len(e) : e[p] \in cand
  BY <1>4, <1>6
<1>12. \A p, q \in 1 .. Len(e) : p < q => Before(score, e[p], e[q])
  BY <1>5, <1>6
<1> QED BY <1>6, <1>10, <1>11, <1>12, Zenon DEF score, cand, N, e

\* SelectRelevant picks exactly the sections of the reference: those that are
\* always injected and, of the others, those with a hit that fewer than three
\* others outdo; none is injected twice, the former go first, in the order of
\* the file, the latter by their hits.
THEOREM SelectionIsRelevance ==
    ASSUME NEW Tag, NEW sections \in Seq([tags : Seq(Tag)]), NEW prompt
    PROVE  /\ SelectRelevant(sections, prompt) \in Seq(DOMAIN sections)
           /\ Range(SelectRelevant(sections, prompt))
                = {i \in DOMAIN sections : Relevant(sections, prompt, i)}
           /\ IsInjective(SelectRelevant(sections, prompt))
           /\ \A p, q \in DOMAIN SelectRelevant(sections, prompt) :
                 p < q => Precedes(sections, prompt, SelectRelevant(sections, prompt)[p],
                                   SelectRelevant(sections, prompt)[q])
<1> DEFINE N == Len(sections)
<1> DEFINE score == Scores(sections, prompt)
<1> DEFINE f == Fixed(sections)[N]
<1> DEFINE e == Extras(sections, prompt)
<1> DEFINE t == f \o e
<1>1. N \in Nat /\ DOMAIN sections = 1 .. N /\ SelectRelevant(sections, prompt) = t
  BY DEF SelectRelevant
<1>2. /\ f \in Seq(1 .. N)
      /\ \A i \in 1 .. N : Always(sections[i]) <=> \E p \in 1 .. Len(f) : f[p] = i
      /\ \A p, q \in 1 .. Len(f) : p < q => f[p] < f[q]
  <2>1. Sorted(Level(sections), Permanent(sections), N, f)
    <3>1. N \in 0 .. Len(sections)
      BY <1>1
    <3> QED BY <1>1, <3>1, FixedSorts
  <2> HIDE DEF f, N
  <2>2. f \in Seq(1 .. N)
    BY <2>1 DEF Sorted
  <2>3. \A p \in 1 .. Len(f) : f[p] \in 1 .. N
    BY <2>2, PlacesOf
  <2>4. \A i \in 1 .. N : Level(sections)[i] = 0
    BY DEF Level, N
  <2>5. \A i \in 1 .. N : i \in Permanent(sections) <=> Always(sections[i])
    BY DEF Permanent, N
  <2>6. \A p, q \in 1 .. Len(f) : p < q => f[p] < f[q]
    <3> SUFFICES ASSUME NEW p \in 1 .. Len(f), NEW q \in 1 .. Len(f), p < q
                 PROVE  f[p] < f[q]
      OBVIOUS
    <3>1. Before(Level(sections), f[p], f[q])
      BY <2>1 DEF Sorted
    <3>2. Level(sections)[f[p]] = 0 /\ Level(sections)[f[q]] = 0
      BY <2>3, <2>4
    <3> QED BY <3>1, <3>2 DEF Before
  <2>7. \A i \in 1 .. N : i \in Permanent(sections) <=> \E p \in 1 .. Len(f) : f[p] = i
    BY <2>1 DEF Sorted
  <2> QED BY <2>2, <2>5, <2>6, <2>7, Zenon
<1>3. /\ e \in Seq(1 .. N)
      /\ \A i \in 1 .. N : ~Always(sections[i]) =>
            (Relevant(sections, prompt, i) <=> \E p \in 1 .. Len(e) : e[p] = i)
  <2>1. e \in Seq(1 .. N)
    BY ExtrasAreRelevant, Zenon
  <2>2. \A i \in 1 .. N : ~Always(sections[i]) =>
            (Relevant(sections, prompt, i) <=> \E p \in 1 .. Len(e) : e[p] = i)
    BY ExtrasAreRelevant
  <2> QED BY <2>1, <2>2
<1>4. /\ \A p \in 1 .. Len(e) : e[p] \in 1 .. N /\ ~Always(sections[e[p]])
      /\ \A p, q \in 1 .. Len(e) : p < q => e[p] # e[q]
      /\ \A p, q \in 1 .. Len(e) : p < q => Precedes(sections, prompt, e[p], e[q])
  <2>1. \A p \in 1 .. Len(e) : e[p] \in Candidates(sections, prompt)
    BY ExtrasAreRelevant, Zenon
  <2>2. \A p, q \in 1 .. Len(e) : p < q => Before(score, e[p], e[q])
    BY ExtrasAreRelevant, Zenon
  <2>3. \A i \in Candidates(sections, prompt) : i \in 1 .. N /\ ~Always(sections[i])
    BY DEF Candidates, IsCandidate
  <2>4. \A i \in 1 .. N : ~Before(score, i, i)
    <3>1. score \in [1 .. N -> Nat]
      BY ScoresAre, Zenon
    <3> HIDE DEF score, N
    <3> QED BY <1>1, <3>1 DEF Before
  <2>5. \A i \in 1 .. N : score[i] = Score(sections[i], prompt)
    BY DEF Scores
  <2> HIDE DEF score, N, e
  <2>6. \A i, j \in 1 .. N : ~Always(sections[i]) /\ ~Always(sections[j]) /\ Before(score, i, j)
                                => Precedes(sections, prompt, i, j)
    BY <2>5 DEF Precedes, Beats, Before
  <2>7. \A p, q \in 1 .. Len(e) : p < q => e[p] # e[q]
    BY <2>1, <2>2, <2>3, <2>4, Zenon
  <2>8. \A p, q \in 1 .. Len(e) : p < q => Precedes(sections, prompt, e[p], e[q])
    BY <2>1, <2>2, <2>3, <2>6, Zenon
  <2> QED BY <2>1, <2>3, <2>7, <2>8, Zenon
<1>5. \A p \in 1 .. Len(f) : f[p] \in 1 .. N /\ Always(sections[f[p]])
  <2> HIDE DEF f, N
  <2>1. \A p \in 1 .. Len(f) : f[p] \in 1 .. N
    BY <1>2, PlacesOf
  <2> QED BY <1>2, <2>1, Zenon
<1>6. Len(f) \in Nat /\ Len(e) \in Nat
  <2> HIDE DEF f, e, N
  <2> QED BY <1>2, <1>3
<1> HIDE DEF N, f, e, score
<1>7. /\ t \in Seq(1 .. N) /\ Len(t) = Len(f) + Len(e) /\ DOMAIN t = 1 .. Len(f) + Len(e)
      /\ \A p \in 1 .. Len(f) + Len(e) : t[p] = IF p <= Len(f) THEN f[p] ELSE e[p - Len(f)]
  BY <1>2, <1>3, ConcatProperties
<1> HIDE DEF t
<1>8. \A p \in DOMAIN t : \/ p \in 1 .. Len(f) /\ t[p] = f[p]
                          \/ p - Len(f) \in 1 .. Len(e) /\ t[p] = e[p - Len(f)] /\ ~(p <= Len(f))
  BY <1>6, <1>7
<1>9. /\ \A p \in 1 .. Len(f) : p \in DOMAIN t /\ t[p] = f[p]
      /\ \A p \in 1 .. Len(e) : Len(f) + p \in DOMAIN t /\ t[Len(f) + p] = e[p]
  <2>1. \A p \in 1 .. Len(f) : p \in DOMAIN t /\ t[p] = f[p]
    BY <1>6, <1>7
  <2>2. ASSUME NEW p \in 1 .. Len(e) PROVE Len(f) + p \in DOMAIN t /\ t[Len(f) + p] = e[p]
    <3>1. Len(f) + p \in 1 .. Len(f) + Len(e) /\ ~(Len(f) + p <= Len(f)) /\ (Len(f) + p) - Len(f) = p
      BY <1>6
    <3>2. t[Len(f) + p] = e[(Len(f) + p) - Len(f)]
      BY <1>7, <3>1
    <3> QED BY <1>7, <3>1, <3>2
  <2> QED BY <2>1, <2>2
<1>10. \A i \in 1 .. N : Relevant(sections, prompt, i) <=> \E p \in DOMAIN t : t[p] = i
  <2> SUFFICES ASSUME NEW i \in 1 .. N
               PROVE  Relevant(sections, prompt, i) <=> \E p \in DOMAIN t : t[p] = i
    OBVIOUS
  <2>1. CASE Always(sections[i])
    <3>1. Relevant(sections, prompt, i)
      BY <2>1 DEF Relevant
    <3>2. \E p \in DOMAIN t : t[p] = i
      BY <1>2, <1>9, <2>1, Zenon
    <3> QED BY <3>1, <3>2
  <2>2. CASE ~Always(sections[i])
    <3>1. ASSUME Relevant(sections, prompt, i) PROVE \E p \in DOMAIN t : t[p] = i
      BY <1>3, <1>9, <2>2, <3>1, Zenon
    <3>2. ASSUME NEW p \in DOMAIN t, t[p] = i PROVE Relevant(sections, prompt, i)
      <4>1. \E q \in 1 .. Len(e) : e[q] = i
        BY <1>5, <1>8, <2>2, <3>2, Zenon
      <4> QED BY <1>3, <2>2, <4>1, Zenon
    <3> QED BY <3>1, <3>2
  <2> QED BY <2>1, <2>2
<1>11. Range(t) = {i \in DOMAIN sections : Relevant(sections, prompt, i)}
  <2>1. \A p \in DOMAIN t : t[p] \in 1 .. N
    BY <1>7, PlacesOf
  <2> QED BY <1>1, <1>10, <2>1, Zenon DEF Range
<1>12. \A p, q \in DOMAIN t : p < q => t[p] # t[q] /\ Precedes(sections, prompt, t[p], t[q])
  <2> SUFFICES ASSUME NEW p \in DOMAIN t, NEW q \in DOMAIN t, p < q
               PROVE  t[p] # t[q] /\ Precedes(sections, prompt, t[p], t[q])
    OBVIOUS
  <2>0. p \in Nat /\ q \in Nat
    BY <1>6, <1>7
  <2>1. CASE p \in 1 .. Len(f) /\ q \in 1 .. Len(f)
    <3>1. f[p] < f[q] /\ f[p] \in Nat /\ f[q] \in Nat
      BY <1>2, <1>5, <2>1
    <3>2. f[p] # f[q]
      BY <3>1
    <3>3. t[p] = f[p] /\ t[q] = f[q] /\ Always(sections[f[p]])
      BY <1>5, <1>9, <2>1, Zenon
    <3> QED BY <3>1, <3>2, <3>3, Zenon DEF Precedes
  <2>2. CASE p \in 1 .. Len(f) /\ q \notin 1 .. Len(f)
    <3>1. t[p] = f[p] /\ Always(sections[f[p]])
      BY <1>5, <1>9, <2>2, Zenon
    <3>2. q - Len(f) \in 1 .. Len(e) /\ t[q] = e[q - Len(f)]
      BY <1>8, <2>2, Zenon
    <3>3. ~Always(sections[e[q - Len(f)]])
      BY <1>4, <3>2, Zenon
    <3> QED BY <3>1, <3>2, <3>3, Zenon DEF Precedes
  <2>3. CASE p \notin 1 .. Len(f)
    <3>1. q \notin 1 .. Len(f) /\ p - Len(f) < q - Len(f)
      BY <1>6, <1>7, <2>0, <2>3
    <3>2. /\ p - Len(f) \in 1 .. Len(e) /\ t[p] = e[p - Len(f)]
          /\ q - Len(f) \in 1 .. Len(e) /\ t[q] = e[q - Len(f)]
      BY <1>8, <2>3, <3>1, Zenon
    <3> QED BY <1>4, <3>1, <3>2, Zenon
  <2> QED BY <2>1, <2>2, <2>3
<1>13. IsInjective(t)
  <2> SUFFICES ASSUME NEW p \in DOMAIN t, NEW q \in DOMAIN t, t[p] = t[q] PROVE p = q
    BY DEF IsInjective
  <2>1. p \in Nat /\ q \in Nat
    BY <1>6, <1>7
  <2>2. ~(p < q) /\ ~(q < p)
    BY <1>12
  <2> QED BY <2>1, <2>2
<1> QED BY <1>1, <1>7, <1>11, <1>12, <1>13

-----------------------------------------------------------------------------
(* The quiet windows of the heartbeat for every minute of the day.         *)

LEMMA AheadIs ==
    ASSUME NEW a \in Minutes, NEW b \in Minutes
    PROVE  Ahead(a, b) = IF a <= b THEN b - a ELSE b - a + Day
BY DEF Ahead, Minutes, Day

LEMMA ParsedIsMinute ==
    ASSUME NEW text
    PROVE  ParseTimeOfDay(text) \in Minutes
BY DEF ParseTimeOfDay, TimeOfDay, Clock, Minutes, Day

\* inWindow (heartbeat.go 164-172) is the arc from start to end on the circle of
\* the day, whether or not it crosses midnight.
THEOREM WindowIsAnArc ==
    ASSUME NEW current \in Minutes, NEW start \in Minutes, NEW end \in Minutes
    PROVE  InWindow(current, start, end) <=> OnArc(current, start, end)
<1>1. /\ current \in Int /\ start \in Int /\ end \in Int
      /\ 0 <= current /\ current < Day /\ 0 <= start /\ start < Day /\ 0 <= end /\ end < Day
    BY DEF Minutes, Day
<1>2. /\ Ahead(start, current) = IF start <= current THEN current - start
                                                      ELSE current - start + Day
      /\ Ahead(start, end) = IF start <= end THEN end - start ELSE end - start + Day
    BY AheadIs
<1>3. Day \in Int
    BY DEF Day
<1> QED BY <1>1, <1>2, <1>3 DEF InWindow, OnArc

\* Of two different ends each order gives a window, and the two are opposites:
\* whoever swaps them gets exactly the hours that were meant to be quiet.  Equal
\* ends, two unreadable texts or "00:00" and "24:00" among them, give no quiet
\* minute at all.
THEOREM SwappedWindowIsOpposite ==
    ASSUME NEW current \in Minutes, NEW start \in Minutes, NEW end \in Minutes
    PROVE  IF start = end THEN ~InWindow(current, start, end)
           ELSE InWindow(current, start, end) <=> ~InWindow(current, end, start)
BY DEF InWindow, Minutes, Day

\* isQuietTime (heartbeat.go 134-146): with every window empty no tick is skipped.
THEOREM EmptyWindowsAreNeverQuiet ==
    ASSUME NEW t \in Clock, NEW windows,
           \A w \in windows : ParseTimeOfDay(w.start) = ParseTimeOfDay(w.end)
    PROVE  ~IsQuietTime(t, windows)
<1>1. TimeOfDay(t) \in Minutes
    BY DEF TimeOfDay, Clock, Minutes, Day
<1> QED BY <1>1, ParsedIsMinute, SwappedWindowIsOpposite DEF IsQuietTime

=============================================================================
