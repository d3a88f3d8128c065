----------------------------- MODULE Induction -----------------------------
(***************************************************************************)
(* Induction over the naturals without an operator for the statement: the  *)
(* least element of a set, and a set that is closed under successor.  The  *)
(* lemmas about loops (where a head ends, where a frame starts, what has   *)
(* been written) are proved with these.                                    *)
(***************************************************************************)
EXTENDS Integers, Sequences, WellFoundedInduction, TLAPS

LEMMA LessIsWellFounded ==
  IsWellFoundedOn({p \in Nat \X Nat : p[1] < p[2]}, Nat)
BY NatLessThanWellFounded DEF OpToRel

\* A set of naturals that is not empty has a least element.
LEMMA Least ==
  ASSUME NEW T, T \subseteq Nat, T # {}
  PROVE  \E x \in T : \A y \in T : x <= y
<1> DEFINE R == {p \in Nat \X Nat : p[1] < p[2]}
<1>1. PICK x \in T : \A y \in T : ~(<<y, x>> \in R)
  <2>1. IsWellFoundedOn(R, Nat)
    BY LessIsWellFounded
  <2> HIDE DEF R
  <2> QED
    BY <2>1, WFMin
<1>2. ASSUME NEW y \in T
      PROVE  x <= y
  <2>1. <<y, x>> \notin R /\ x \in Nat /\ y \in Nat
    BY <1>1
  <2>2. ~(y < x)
    BY <2>1
  <2> HIDE DEF R
  <2> QED
    BY <2>1, <2>2
<1> QED
  BY <1>2

\* A set with 0 and the successors of its naturals has every natural.
LEMMA Successors ==
  ASSUME NEW S, 0 \in S, \A n \in Nat : n \in S => n + 1 \in S
  PROVE  Nat \subseteq S
<1> SUFFICES ASSUME NEW n \in Nat, n \notin S
             PROVE  FALSE
  OBVIOUS
<1> DEFINE T == {m \in Nat : m \notin S}
<1>1. PICK x \in T : \A y \in T : x <= y
  <2>1. T # {} /\ T \subseteq Nat
    OBVIOUS
  <2> HIDE DEF T
  <2> QED
    BY <2>1, Least
<1>2. x # 0 /\ x \in Nat /\ x \notin S
  OBVIOUS
<1>3. x - 1 \in Nat /\ x - 1 \in S
  BY <1>1, <1>2
<1>4. (x - 1) + 1 \in S
  BY <1>3
<1> QED
  BY <1>2, <1>4

\* Step k of a recursion is the function r[k].
Steps(r, n, X) == r \in [1..n -> [X -> X]]

\* The recursive function over 0..n that starts at a and takes these steps.
RunOf(f, r, n, X, a) ==
  /\ f \in [0..n -> X] /\ f[0] = a
  /\ \A k \in 1..n : f[k] = r[k][f[k - 1]]

\* A recursive function over 0..n exists.
LEMMA Runs ==
  ASSUME NEW n \in Nat, NEW X, NEW a \in X, NEW r, Steps(r, n, X)
  PROVE  \E f : RunOf(f, r, n, X, a)
<1> USE DEF Steps
<1> DEFINE IsRun(f, m) == /\ f \in [0..m -> X] /\ f[0] = a
                          /\ \A k \in 1..m : f[k] = r[k][f[k - 1]]
           S == {m \in Nat : m <= n => \E f : IsRun(f, m)}
<1>1. 0 \in S
  <2>1. IsRun([i \in 0..0 |-> a], 0)
    OBVIOUS
  <2> HIDE DEF IsRun
  <2> QED
    BY <2>1
<1>2. ASSUME NEW m \in Nat, m \in S
      PROVE  m + 1 \in S
  <2> HIDE DEF IsRun
  <2> SUFFICES ASSUME m + 1 <= n
               PROVE  \E f : IsRun(f, m + 1)
    OBVIOUS
  <2>1. PICK f : IsRun(f, m)
    <3>1. m <= n
      OBVIOUS
    <3> QED
      BY <1>2, <3>1
  <2> USE DEF IsRun
  <2> DEFINE y == r[m + 1][f[m]]
             g == [i \in 0..(m + 1) |-> IF i = m + 1 THEN y ELSE f[i]]
  <2>2. y \in X
    <3>1. f[m] \in X /\ r[m + 1] \in [X -> X]
      BY <2>1
    <3> QED
      BY <3>1
  <2>3. y = r[m + 1][f[m]]
    OBVIOUS
  <2> HIDE DEF y
  <2>4. g \in [0..(m + 1) -> X]
    BY <2>1, <2>2
  <2>5. g[0] = a /\ g[m + 1] = y /\ \A k \in 0..m : g[k] = f[k]
    BY <2>1
  <2> HIDE DEF g
  <2>6. \A k \in 1..(m + 1) : g[k] = r[k][g[k - 1]]
    <3> SUFFICES ASSUME NEW k \in 1..(m + 1)
                 PROVE  g[k] = r[k][g[k - 1]]
      OBVIOUS
    <3>1. CASE k = m + 1
      <4>1. g[k] = y /\ g[k - 1] = f[m]
        BY <2>5, <3>1
      <4> QED
        BY <2>3, <3>1, <4>1
    <3>2. CASE k # m + 1
      <4>1. k \in 1..m /\ k - 1 \in 0..m
        BY <3>2
      <4>2. g[k] = f[k] /\ g[k - 1] = f[k - 1] /\ f[k] = r[k][f[k - 1]]
        BY <2>1, <2>5, <4>1
      <4> QED
        BY <4>2
    <3> QED
      BY <3>1, <3>2
  <2>7. IsRun(g, m + 1)
    BY <2>4, <2>5, <2>6
  <2> QED
    BY <2>7
<1> HIDE DEF S
<1>3. n \in S
  BY <1>1, <1>2, Successors
<1>4. PICK f : IsRun(f, n)
  <2> HIDE DEF IsRun
  <2>1. n <= n
    OBVIOUS
  <2> QED
    BY <1>3, <2>1 DEF S
<1> QED
  BY <1>4 DEF RunOf

\* Weights have sums.
LEMMA Sums ==
  ASSUME NEW n \in Nat, NEW w \in [1..n -> Nat]
  PROVE  \E f \in [0..n -> Nat] :
           f[0] = 0 /\ \A k \in 1..n : f[k] = f[k - 1] + w[k]
<1>1. PICK r \in [1..n -> [Nat -> Nat]] : \A k \in 1..n, x \in Nat : r[k][x] = x + w[k]
  <2> DEFINE q == [k \in 1..n |-> [x \in Nat |-> x + w[k]]]
  <2>1. q \in [1..n -> [Nat -> Nat]]
    OBVIOUS
  <2>2. \A k \in 1..n, x \in Nat : q[k][x] = x + w[k]
    OBVIOUS
  <2> HIDE DEF q
  <2> QED
    BY <2>1, <2>2
<1> DEFINE X == Nat
           a == 0
<1>2. a \in X
  OBVIOUS
<1>3. Steps(r, n, X)
  BY DEF Steps
<1> HIDE DEF X, a
<1>4. PICK f : RunOf(f, r, n, X, a)
  BY <1>2, <1>3, Runs
<1> USE DEF RunOf, X, a
<1>5. ASSUME NEW k \in 1..n
      PROVE  f[k] = f[k - 1] + w[k]
  <2>1. f[k] = r[k][f[k - 1]]
    BY <1>4, Zenon
  <2>2. k - 1 \in 0..n
    OBVIOUS
  <2>3. f[k - 1] \in Nat
    BY <1>4, <2>2
  <2> QED
    BY <1>1, <2>1, <2>3
<1> QED
  BY <1>4, <1>5

\* Sequences can be put one after the other.
LEMMA Concats ==
  ASSUME NEW n \in Nat, NEW B, NEW w \in [1..n -> Seq(B)]
  PROVE  \E f \in [0..n -> Seq(B)] :
           f[0] = <<>> /\ \A k \in 1..n : f[k] = f[k - 1] \o w[k]
<1>1. PICK r \in [1..n -> [Seq(B) -> Seq(B)]] : \A k \in 1..n, x \in Seq(B) : r[k][x] = x \o w[k]
  <2> DEFINE q == [k \in 1..n |-> [x \in Seq(B) |-> x \o w[k]]]
  <2>1. q \in [1..n -> [Seq(B) -> Seq(B)]]
    OBVIOUS
  <2>2. \A k \in 1..n, x \in Seq(B) : q[k][x] = x \o w[k]
    OBVIOUS
  <2> HIDE DEF q
  <2> QED
    BY <2>1, <2>2
<1> DEFINE X == Seq(B)
           a == <<>>
<1>2. a \in X
  OBVIOUS
<1>3. Steps(r, n, X)
  BY DEF Steps
<1> HIDE DEF X, a
<1>4. PICK f : RunOf(f, r, n, X, a)
  BY <1>2, <1>3, Runs
<1> USE DEF RunOf, X, a
<1>5. ASSUME NEW k \in 1..n
      PROVE  f[k] = f[k - 1] \o w[k]
  <2>1. f[k] = r[k][f[k - 1]]
    BY <1>4, Zenon
  <2>2. k - 1 \in 0..n
    OBVIOUS
  <2>3. f[k - 1] \in Seq(B)
    BY <1>4, <2>2
  <2> QED
    BY <1>1, <2>1, <2>3
<1> QED
  BY <1>4, <1>5
=============================================================================
