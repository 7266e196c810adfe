---------------------------- MODULE RecursionLemmas ----------------------------
(***************************************************************************)
(* Induction over the naturals and over sequences, and the existence of    *)
(* recursive functions, for the proofs about what the specifications       *)
(* compute from a sequence: the datagrams of a call in a queue, the frames *)
(* in a signaling packet.                                                  *)
(*                                                                         *)
(* Everything is stated about sets and functions, never about an operator, *)
(* so that the first-order provers can use it: a property P of numbers is  *)
(* the set {n \in Nat : P(n)}, and the step of a recursion is a function.  *)
(***************************************************************************)
EXTENDS Naturals, Sequences, FiniteSetTheorems, WellFoundedInduction,
        SequenceTheorems, TLAPS

\* A set of numbers that is not empty has a least element: the intervals that
\* start at 0 are finite sets, which strict inclusion orders well.
LEMMA LeastNumber ==
  ASSUME NEW A \in SUBSET Nat, A # {}
  PROVE  \E m \in A : \A k \in A : m <= k
<1> DEFINE T == {0..k : k \in A}
<1>1. T \subseteq FiniteSubsetsOf(Nat) /\ T # {}
  <2>1. ASSUME NEW k \in A
        PROVE  0..k \in FiniteSubsetsOf(Nat)
    <3>1. k \in Int /\ 0 \in Int /\ 0..k \in SUBSET Nat
      OBVIOUS
    <3>2. IsFiniteSet(0..k)
      BY <3>1, FS_Interval
    <3> QED BY <3>1, <3>2 DEF FiniteSubsetsOf
  <2> QED BY <2>1
<1>2. PICK x \in T : \A y \in T : <<y, x>> \notin StrictSubsetOrdering(Nat)
  <2> HIDE DEF T
  <2> QED BY <1>1, FS_StrictSubsetOrderingWellFounded, WFMin
<1>3. PICK m \in A : x = 0..m
  OBVIOUS
<1>4. ASSUME NEW k \in A, k < m
      PROVE  FALSE
  <2>1. 0..k \in SUBSET Nat /\ 0..m \in SUBSET Nat /\ 0..k \subseteq 0..m
    BY <1>4
  <2>2. m \in 0..m /\ m \notin 0..k
    BY <1>4
  <2>3. <<0..k, 0..m>> \in StrictSubsetOrdering(Nat)
    BY <2>1, <2>2 DEF StrictSubsetOrdering
  <2> QED BY <1>2, <1>3, <2>3
<1> QED BY <1>4

\* Induction over the naturals.
LEMMA Induction ==
  ASSUME NEW T, 0 \in T, \A n \in Nat : n \in T => n + 1 \in T
  PROVE  Nat \subseteq T
<1> DEFINE A == Nat \ T
<1>1. SUFFICES ASSUME A # {} PROVE FALSE
  OBVIOUS
<1>2. PICK m \in A : \A k \in A : m <= k
  BY <1>1, LeastNumber
<1>3. m # 0 /\ m - 1 \in Nat /\ m - 1 \notin A
  BY <1>2
<1> QED BY <1>3

\* Induction up to a number.
LEMMA BoundedInduction ==
  ASSUME NEW n \in Nat, NEW T, 0 \in T, \A k \in 0 .. n - 1 : k \in T => k + 1 \in T
  PROVE  0 .. n \subseteq T
<1> DEFINE U == {k \in Nat : k <= n => k \in T}
<1>1. 0 \in U /\ \A k \in Nat : k \in U => k + 1 \in U
  OBVIOUS
<1>2. Nat \subseteq U
  <2> HIDE DEF U
  <2> QED BY <1>1, Induction
<1> QED BY <1>2

-------------------------------------------------------------------------------
(* Recursive functions.                                                     *)

\* f starts with e and goes on by step, up to n.
Recursion(f, n, V, e, step) ==
  /\ f \in [0..n -> V] /\ f[0] = e
  /\ \A i \in 1..n : f[i] = step[<<i, f[i - 1]>>]

\* There is such a function: one that does so up to k extends to k + 1.
LEMMA RecursionExists ==
  ASSUME NEW n \in Nat, NEW V, NEW e \in V, NEW step \in [(1..n) \X V -> V]
  PROVE  \E f : Recursion(f, n, V, e, step)
<1> DEFINE T == {k \in 0..n : \E f : Recursion(f, k, V, e, step)}
<1>1. 0 \in T
  <2>1. Recursion([i \in 0..0 |-> e], 0, V, e, step)
    BY DEF Recursion
  <2> QED BY <2>1
<1>2. ASSUME NEW k \in 0..n - 1, k \in T
      PROVE  k + 1 \in T
  <2>1. PICK f : Recursion(f, k, V, e, step)
    BY <1>2
  <2> DEFINE g == [i \in 0..k + 1 |-> IF i = k + 1 THEN step[<<k + 1, f[k]>>] ELSE f[i]]
  <2>2. f[k] \in V /\ <<k + 1, f[k]>> \in (1..n) \X V
    BY <2>1, <1>2 DEF Recursion
  <2>3. step[<<k + 1, f[k]>>] \in V
    BY <2>2
  <2>4. g \in [0..k + 1 -> V] /\ g[0] = e
    BY <2>1, <2>3 DEF Recursion
  <2>5. ASSUME NEW i \in 1..k + 1
        PROVE  g[i] = step[<<i, g[i - 1]>>]
    <3>1. CASE i = k + 1
      <4>1. i - 1 = k /\ g[i - 1] = f[k] /\ g[i] = step[<<k + 1, f[k]>>]
        BY <3>1
      <4> HIDE DEF g
      <4> QED BY <3>1, <4>1
    <3>2. CASE i # k + 1
      <4>1. i \in 1..k /\ g[i] = f[i] /\ g[i - 1] = f[i - 1]
        BY <3>2
      <4> QED BY <4>1, <2>1 DEF Recursion
    <3> QED BY <3>1, <3>2
  <2> HIDE DEF g
  <2>6. Recursion(g, k + 1, V, e, step)
    BY <2>4, <2>5 DEF Recursion
  <2> QED BY <2>6, <1>2
<1>3. n \in T
  <2> HIDE DEF T
  <2> QED BY <1>1, <1>2, BoundedInduction
<1> QED BY <1>3

\* f and g start alike, and go on alike up to n as long as they are alike.
Parallel(f, g, n) ==
  f[0] = g[0] /\ \A i \in 1..n : f[i - 1] = g[i - 1] => f[i] = g[i]

\* They are alike.
LEMMA RecursionUnique ==
  ASSUME NEW n \in Nat, NEW f, NEW g, Parallel(f, g, n)
  PROVE  \A i \in 0..n : f[i] = g[i]
<1> DEFINE T == {i \in Nat : f[i] = g[i]}
<1>1. 0 \in T
  BY DEF Parallel
<1>2. ASSUME NEW k \in 0..n - 1, k \in T
      PROVE  k + 1 \in T
  <2>1. k + 1 \in 1..n /\ (k + 1) - 1 = k
    OBVIOUS
  <2> QED BY <2>1, <1>2 DEF Parallel
<1>3. 0..n \subseteq T
  <2> HIDE DEF T
  <2> QED BY <1>1, <1>2, BoundedInduction
<1> QED BY <1>3

\* f starts in V, and stays there up to n if it is there.
StaysIn(f, V, n) ==
  f[0] \in V /\ \A i \in 1..n : f[i - 1] \in V => f[i] \in V

\* It is in V.
LEMMA RecursionTyped ==
  ASSUME NEW n \in Nat, NEW V, NEW f, StaysIn(f, V, n)
  PROVE  \A i \in 0..n : f[i] \in V
<1> DEFINE T == {i \in Nat : f[i] \in V}
<1>1. 0 \in T
  BY DEF StaysIn
<1>2. ASSUME NEW k \in 0..n - 1, k \in T
      PROVE  k + 1 \in T
  <2>1. k + 1 \in 1..n /\ (k + 1) - 1 = k
    OBVIOUS
  <2> QED BY <2>1, <1>2 DEF StaysIn
<1>3. 0..n \subseteq T
  <2> HIDE DEF T
  <2> QED BY <1>1, <1>2, BoundedInduction
<1> QED BY <1>3

-------------------------------------------------------------------------------
(* Sequences.                                                               *)

\* Induction over sequences: what holds of the empty one, and of every one
\* that is a step longer than one it holds of, holds of all.
LEMMA SequenceInduction ==
  ASSUME NEW S, NEW T, << >> \in T,
         \A q \in Seq(S), d \in S : q \in T => Append(q, d) \in T
  PROVE  Seq(S) \subseteq T
<1> DEFINE U == {n \in Nat : \A q \in Seq(S) : Len(q) = n => q \in T}
<1>1. 0 \in U
  <2>1. \A q \in Seq(S) : Len(q) = 0 => q = << >>
    BY EmptySeq
  <2> QED BY <2>1
<1>2. ASSUME NEW n \in Nat, n \in U
      PROVE  n + 1 \in U
  <2> SUFFICES ASSUME NEW q \in Seq(S), Len(q) = n + 1
               PROVE  q \in T
    OBVIOUS
  <2> DEFINE r == SubSeq(q, 1, n)
  <2>1. r \in Seq(S) /\ Len(r) = n /\ q[n + 1] \in S
    OBVIOUS
  <2>2. q = Append(r, q[n + 1])
    OBVIOUS
  <2>3. r \in T
    BY <2>1, <1>2
  <2> HIDE DEF r
  <2> QED BY <2>1, <2>2, <2>3
<1>3. Nat \subseteq U
  <2> HIDE DEF U
  <2> QED BY <1>1, <1>2, Induction
<1>4. ASSUME NEW q \in Seq(S)
      PROVE  q \in T
  <2>1. Len(q) \in U
    BY <1>3
  <2> QED BY <2>1
<1> QED BY <1>4

\* What is appended to the second of two sequences ends their concatenation.
LEMMA ConcatAppend ==
  ASSUME NEW S, NEW p \in Seq(S), NEW q \in Seq(S), NEW d \in S
  PROVE  p \o Append(q, d) = Append(p \o q, d)
OBVIOUS

\* A sequence, cut at one of its elements.
LEMMA CutAt ==
  ASSUME NEW S, NEW q \in Seq(S), NEW m \in 1..Len(q)
  PROVE  q = Append(SubSeq(q, 1, m - 1), q[m]) \o SubSeq(q, m + 1, Len(q))
<1> DEFINE a == SubSeq(q, 1, m - 1)
           b == SubSeq(q, m + 1, Len(q))
           c == Append(a, q[m])
<1>1. /\ a \in Seq(S) /\ Len(a) = m - 1 /\ \A i \in 1..m - 1 : a[i] = q[i]
      /\ b \in Seq(S) /\ Len(b) = Len(q) - m /\ \A i \in 1..Len(q) - m : b[i] = q[m + i]
      /\ q[m] \in S /\ Len(q) \in Nat /\ m \in Nat
  OBVIOUS
<1> HIDE DEF a, b
<1>2. /\ c \in Seq(S) /\ Len(c) = m /\ c[m] = q[m]
      /\ \A i \in 1..m - 1 : c[i] = q[i]
  BY <1>1
<1> HIDE DEF c
<1>3. c \o b \in Seq(S) /\ Len(c \o b) = Len(q)
  <2>1. c \o b \in Seq(S) /\ Len(c \o b) = Len(c) + Len(b)
    BY <1>1, <1>2, ConcatProperties
  <2>2. m + (Len(q) - m) = Len(q)
    BY <1>1
  <2> QED BY <1>1, <1>2, <2>1, <2>2
<1>4. \A i \in 1..Len(q) : (c \o b)[i] = IF i <= m THEN c[i] ELSE b[i - m]
  BY <1>1, <1>2, ConcatProperties
<1>5. ASSUME NEW i \in 1..Len(q)
      PROVE  (c \o b)[i] = q[i]
  <2>1. CASE i \in 1..m - 1
    BY <1>1, <1>2, <1>4, <2>1
  <2>2. CASE i = m
    BY <1>1, <1>2, <1>4, <2>2
  <2>3. CASE i > m
    <3>1. i - m \in 1..Len(q) - m /\ m + (i - m) = i /\ ~(i <= m)
      BY <1>1, <2>3
    <3> QED BY <1>1, <1>4, <3>1
  <2>4. i \in 1..m - 1 \/ i = m \/ i > m
    BY <1>1
  <2> QED BY <2>1, <2>2, <2>3, <2>4
<1>6. c \o b = q
  BY <1>3, <1>5, SeqEqual
<1> QED BY <1>6 DEF a, b, c
=============================================================================
