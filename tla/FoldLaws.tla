------------------------------ MODULE FoldLaws ------------------------------
(***************************************************************************)
(* What a fold over a sequence is: the last of the values that begin with  *)
(* the base and go on, element by element, with Op.  The header rules, the *)
(* items of a rule and the normalization of paths are folds; their proofs  *)
(* instantiate this module with the step of the fold, and with a relation  *)
(* that every step keeps.                                                  *)
(*                                                                         *)
(* The provers cannot apply an induction theorem to a formula.  Induction  *)
(* is done here on sets of numbers, by their least elements.               *)
(***************************************************************************)
EXTENDS Integers, Sequences, SequencesExt, WellFoundedInduction, TLAPS

CONSTANTS
  Op(_, _, _),   \* a step: from a value, an element and a parameter of the fold
  Rel(_, _, _)   \* a relation of two values, with a parameter of its own

Fold(base, s, p) == FoldLeft(LAMBDA h, x : Op(h, x, p), base, s)

(* A set of natural numbers has a least element, unless it is empty.       *)
LEMMA Least ==
  ASSUME NEW T \in SUBSET Nat, T # {}
  PROVE  \E n \in T : \A m \in T : n <= m
<1>. DEFINE R == OpToRel(<, Nat)
<1>1. \E x \in T : \A y \in T : ~ (<<y, x>> \in R)
  <2>1. IsWellFoundedOn(R, Nat)
    BY NatLessThanWellFounded
  <2>2. T \subseteq Nat
    OBVIOUS
  <2>. HIDE DEF R
  <2>. QED
    BY <2>1, <2>2, WFMin
<1>2. \A x, y \in Nat : <<y, x>> \in R <=> y < x
  BY DEF OpToRel
<1>. HIDE DEF R
<1>3. PICK x \in T : \A y \in T : ~ (<<y, x>> \in R)
  BY <1>1
<1>4. \A y \in T : ~ (y < x)
  <2>. TAKE y \in T
  <2>1. x \in Nat /\ y \in Nat
    OBVIOUS
  <2>. QED
    BY <1>2, <1>3, <2>1
<1>5. \A y \in T : x <= y
  BY <1>4
<1>. QED
  BY <1>5

(* Induction: a set of naturals that has 0, and every successor of its     *)
(* members, has them all.                                                  *)
LEMMA NatByMembers ==
  ASSUME NEW T, 0 \in T, \A m \in Nat : m \in T => m + 1 \in T
  PROVE  Nat \subseteq T
<1>. DEFINE U == {m \in Nat : m \notin T}
<1>1. SUFFICES ASSUME U # {} PROVE FALSE
  OBVIOUS
<1>2. PICK m \in U : \A k \in U : m <= k
  BY <1>1, Least
<1>3. m \in Nat /\ m \notin T
  OBVIOUS
<1>. HIDE DEF U
<1>4. m # 0
  BY <1>3
<1>5. m - 1 \in Nat /\ m = (m - 1) + 1 /\ m - 1 < m
  BY <1>3, <1>4
<1>6. m - 1 \notin U
  BY <1>2, <1>3, <1>5
<1>7. m - 1 \in T
  BY <1>5, <1>6 DEF U
<1>8. (m - 1) + 1 \in T
  BY <1>5, <1>7
<1>. QED
  BY <1>3, <1>5, <1>8

(* The same for the numbers up to a bound.                                 *)
LEMMA UpToByMembers ==
  ASSUME NEW n \in Nat, NEW T, 0 \in T, \A m \in 0..n - 1 : m \in T => m + 1 \in T
  PROVE  0..n \subseteq T
<1>. DEFINE U == {m \in Nat : m \in 0..n => m \in T}
<1>1. 0 \in U
  OBVIOUS
<1>2. ASSUME NEW m \in Nat, m \in U PROVE m + 1 \in U
  <2>1. SUFFICES ASSUME m + 1 \in 0..n PROVE m + 1 \in T
    BY <1>2
  <2>2. m \in 0..n - 1 /\ m \in 0..n
    BY <2>1
  <2>. QED
    BY <1>2, <2>2
<1>. HIDE DEF U
<1>3. Nat \subseteq U
  BY <1>1, <1>2, NatByMembers
<1>. QED
  BY <1>3 DEF U
-----------------------------------------------------------------------------
(* The equation of the fold, over the sets of places of the sequence.      *)
It(base, s, p, g, S) == IF S = {} THEN base ELSE Op(g[S \ {Max(S)}], s[Max(S)], p)

Solves(base, s, p, g, D) == g = [S \in SUBSET D |-> It(base, s, p, g, S)]

(* A solution for n places can be continued to n + 1 places.               *)
LEMMA Grows ==
  ASSUME NEW base, NEW s, NEW p, NEW n \in Nat, NEW g, Solves(base, s, p, g, 1..n)
  PROVE  \E h : Solves(base, s, p, h, 1..n + 1)
<1>. DEFINE h == [S \in SUBSET (1..n + 1) |->
                    IF n + 1 \in S THEN Op(g[S \ {n + 1}], s[n + 1], p) ELSE g[S]]
<1>1. ASSUME NEW S \in SUBSET (1..n + 1) PROVE h[S] = It(base, s, p, h, S)
  <2>1. CASE n + 1 \in S
    <3>1. Max(S) = n + 1
      <4>1. \A y \in S : n + 1 >= y
        OBVIOUS
      <4>2. \A x \in S : (\A y \in S : x >= y) => x = n + 1
        BY <2>1
      <4>. QED
        BY <2>1, <4>1, <4>2, Zenon DEF Max
    <3>2. S \ {n + 1} \in SUBSET (1..n + 1) /\ n + 1 \notin S \ {n + 1}
      OBVIOUS
    <3>3. h[S \ {n + 1}] = g[S \ {n + 1}]
      BY <3>2
    <3>4. S # {}
      BY <2>1
    <3>5. h[S] = Op(g[S \ {n + 1}], s[n + 1], p)
      BY <2>1
    <3>. HIDE DEF h
    <3>. QED
      BY <3>1, <3>3, <3>4, <3>5, Zenon DEF It
  <2>2. CASE n + 1 \notin S
    <3>1. S \in SUBSET (1..n)
      BY <2>2
    <3>2. h[S] = g[S]
      BY <2>2
    <3>3. S \ {Max(S)} \in SUBSET (1..n + 1) /\ n + 1 \notin S \ {Max(S)}
      BY <2>2
    <3>4. h[S \ {Max(S)}] = g[S \ {Max(S)}]
      BY <3>3
    <3>5. g[S] = It(base, s, p, g, S)
      BY <3>1, Zenon DEF Solves
    <3>. HIDE DEF h
    <3>. QED
      BY <3>2, <3>4, <3>5, Zenon DEF It
  <2>. QED
    BY <2>1, <2>2
<1>2. h = [S \in SUBSET (1..n + 1) |-> h[S]]
  OBVIOUS
<1>. HIDE DEF h
<1>3. Solves(base, s, p, h, 1..n + 1)
  BY <1>1, <1>2, Zenon DEF Solves
<1>. QED
  BY <1>3

LEMMA Solvable ==
  ASSUME NEW base, NEW s, NEW p, NEW n \in Nat
  PROVE  \E g : Solves(base, s, p, g, 1..n)
<1>. DEFINE T == {m \in Nat : \E g : Solves(base, s, p, g, 1..m)}
<1>1. 0 \in T
  <2>. DEFINE g == [S \in SUBSET (1..0) |-> base]
  <2>1. 1..0 = {}
    OBVIOUS
  <2>2. \A S \in SUBSET (1..0) : S = {}
    BY <2>1
  <2>3. Solves(base, s, p, g, 1..0)
    BY <2>2, Zenon DEF Solves, It
  <2>. QED
    BY <2>3
<1>2. ASSUME NEW m \in Nat, m \in T PROVE m + 1 \in T
  BY <1>2, Grows
<1>. HIDE DEF T
<1>3. n \in T
  BY <1>1, <1>2, NatByMembers
<1>. QED
  BY <1>3 DEF T
-----------------------------------------------------------------------------
(* The values of the fold, from the base to the result.                    *)
Trace(base, s, p, n, v) == v[0] = base /\ \A k \in 1..n : v[k] = Op(v[k - 1], s[k], p)

LEMMA FoldTrace ==
  ASSUME NEW base, NEW s, NEW p, NEW n \in Nat, DOMAIN s = 1..n
  PROVE  \E v : /\ Trace(base, s, p, n, v)
                /\ v[n] = Fold(base, s, p)
<1>. DEFINE Eq(g) == g = [S \in SUBSET (1..n) |->
                            IF S = {} THEN base ELSE Op(g[S \ {Max(S)}], s[Max(S)], p)]
            iter == CHOOSE g : Eq(g)
<1>1. Fold(base, s, p) = iter[1..n]
  BY DEF Fold, FoldLeft, MapThenFoldSet
<1>2. Solves(base, s, p, iter, 1..n)
  <2>1. \A g : Eq(g) <=> Solves(base, s, p, g, 1..n)
    BY Zenon DEF Solves, It
  <2>. HIDE DEF Eq
  <2>2. \E g : Eq(g)
    BY <2>1, Solvable
  <2>3. Eq(iter)
    BY <2>2, Zenon
  <2>. QED
    BY <2>1, <2>3
<1>. HIDE DEF iter, Eq
<1>. DEFINE v == [k \in 0..n |-> iter[1..k]]
<1>3. v[n] = iter[1..n]
  OBVIOUS
<1>4. v[0] = base
  <2>1. 1..0 = {} /\ 0 \in 0..n
    OBVIOUS
  <2>2. v[0] = iter[{}]
    BY <2>1
  <2>3. {} \in SUBSET (1..n)
    OBVIOUS
  <2>. HIDE DEF v
  <2>. QED
    BY <1>2, <2>2, <2>3, Zenon DEF Solves, It
<1>5. ASSUME NEW k \in 1..n PROVE v[k] = Op(v[k - 1], s[k], p)
  <2>1. 1..k \in SUBSET (1..n) /\ 1..k # {} /\ k \in 0..n /\ k - 1 \in 0..n
    <3>1. k \in 1..k
      OBVIOUS
    <3>2. \A i \in 1..k : i \in 1..n
      OBVIOUS
    <3>. QED
      BY <3>1, <3>2
  <2>2. Max(1..k) = k
    <3>1. /\ k \in 1..k /\ \A y \in 1..k : k >= y
          /\ \A x \in 1..k : (\A y \in 1..k : x >= y) => x = k
      OBVIOUS
    <3>. QED
      BY <3>1, Zenon DEF Max
  <2>3. (1..k) \ {k} = 1..(k - 1)
    OBVIOUS
  <2>4. v[k] = iter[1..k] /\ v[k - 1] = iter[1..(k - 1)]
    BY <2>1
  <2>. HIDE DEF v
  <2>5. iter[1..k] = It(base, s, p, iter, 1..k)
    BY <1>2, <2>1, Zenon DEF Solves
  <2>. QED
    BY <2>1, <2>2, <2>3, <2>4, <2>5, Zenon DEF It
<1>. HIDE DEF v
<1>6. Trace(base, s, p, n, v)
  BY <1>4, <1>5, Zenon DEF Trace
<1>. QED
  BY <1>1, <1>3, <1>6

(* A set that every step up to a place keeps has the values so far.        *)
LEMMA TraceIn ==
  ASSUME NEW base, NEW s, NEW p, NEW n \in Nat, NEW v, Trace(base, s, p, n, v),
         NEW m \in 0..n, NEW S, base \in S,
         \A i \in 1..m : \A h \in S : Op(h, s[i], p) \in S
  PROVE  \A k \in 0..m : v[k] \in S
<1>. DEFINE T == {k \in 0..m : v[k] \in S}
<1>1. 0 \in T
  BY DEF Trace
<1>2. ASSUME NEW k \in 0..m - 1, k \in T PROVE k + 1 \in T
  <2>1. k + 1 \in 1..m /\ k + 1 \in 0..m /\ k + 1 \in 1..n /\ (k + 1) - 1 = k
    OBVIOUS
  <2>2. v[k + 1] = Op(v[k], s[k + 1], p)
    BY <2>1 DEF Trace
  <2>3. v[k] \in S
    BY <1>2
  <2>4. v[k + 1] \in S
    BY <2>1, <2>2, <2>3
  <2>. QED
    BY <2>1, <2>4
<1>. HIDE DEF T
<1>3. \A k \in 0..m - 1 : k \in T => k + 1 \in T
  BY <1>2
<1>4. m \in Nat
  OBVIOUS
<1>5. 0..m \subseteq T
  BY <1>1, <1>3, <1>4, UpToByMembers, Zenon
<1>. QED
  BY <1>5 DEF T

LEMMA FoldIn ==
  ASSUME NEW base, NEW s, NEW p, NEW n \in Nat, DOMAIN s = 1..n,
         NEW S, base \in S,
         \A i \in 1..n : \A h \in S : Op(h, s[i], p) \in S
  PROVE  Fold(base, s, p) \in S
<1>1. PICK v : Trace(base, s, p, n, v) /\ v[n] = Fold(base, s, p)
  BY FoldTrace
<1>2. n \in 0..n
  OBVIOUS
<1>3. \A k \in 0..n : v[k] \in S
  BY <1>1, <1>2, TraceIn
<1>. QED
  BY <1>1, <1>2, <1>3

(* The last element is the last step.                                      *)
LEMMA FoldAppend ==
  ASSUME NEW base, NEW p, NEW T, NEW s \in Seq(T), NEW x \in T
  PROVE  /\ Fold(base, <<>>, p) = base
         /\ Fold(base, Append(s, x), p) = Op(Fold(base, s, p), x, p)
<1>1. Fold(base, <<>>, p) = base
  <2>1. PICK v : Trace(base, <<>>, p, 0, v) /\ v[0] = Fold(base, <<>>, p)
    <3>1. 0 \in Nat /\ DOMAIN <<>> = 1..0
      OBVIOUS
    <3>. QED
      BY <3>1, FoldTrace
  <2>. QED
    BY <2>1, Zenon DEF Trace
<1>. DEFINE n == Len(s)
            t == Append(s, x)
<1>2. /\ n \in Nat /\ n + 1 \in Nat /\ DOMAIN s = 1..n /\ DOMAIN t = 1..n + 1
      /\ t[n + 1] = x /\ \A i \in 1..n : t[i] = s[i]
  OBVIOUS
<1>. HIDE DEF n, t
<1>3. PICK v : Trace(base, s, p, n, v) /\ v[n] = Fold(base, s, p)
  BY <1>2, FoldTrace
<1>4. PICK w : Trace(base, t, p, n + 1, w) /\ w[n + 1] = Fold(base, t, p)
  BY <1>2, FoldTrace
<1>. DEFINE S == {k \in 0..n : v[k] = w[k]}
<1>5. 0 \in S
  <2>1. v[0] = base /\ w[0] = base
    BY <1>3, <1>4, Zenon DEF Trace
  <2>. QED
    BY <1>2, <2>1
<1>6. ASSUME NEW k \in 0..n - 1, k \in S PROVE k + 1 \in S
  <2>1. k + 1 \in 1..n /\ k + 1 \in 1..n + 1 /\ k + 1 \in 0..n /\ (k + 1) - 1 = k
    BY <1>2
  <2>2. v[k + 1] = Op(v[k], s[k + 1], p)
    BY <1>3, <2>1 DEF Trace
  <2>3. w[k + 1] = Op(w[k], t[k + 1], p)
    BY <1>4, <2>1 DEF Trace
  <2>4. v[k] = w[k] /\ t[k + 1] = s[k + 1]
    BY <1>2, <1>6, <2>1
  <2>. QED
    BY <2>1, <2>2, <2>3, <2>4
<1>. HIDE DEF S
<1>7. \A k \in 0..n - 1 : k \in S => k + 1 \in S
  BY <1>6
<1>8. 0..n \subseteq S
  BY <1>2, <1>5, <1>7, UpToByMembers, Zenon
<1>9. v[n] = w[n]
  BY <1>2, <1>8 DEF S
<1>10. w[n + 1] = Op(w[n], t[n + 1], p)
  <2>1. n + 1 \in 1..n + 1 /\ (n + 1) - 1 = n
    BY <1>2
  <2>. QED
    BY <1>4, <2>1 DEF Trace
<1>11. Fold(base, t, p) = Op(Fold(base, s, p), x, p)
  BY <1>2, <1>3, <1>4, <1>9, <1>10
<1>. QED
  BY <1>1, <1>11 DEF t

(* A relation that every step keeps holds between two folds of the same    *)
(* sequence if it holds between their bases.                               *)
LEMMA FoldsRelated ==
  ASSUME NEW base, NEW other, NEW s, NEW p, NEW q, NEW n \in Nat, DOMAIN s = 1..n,
         Rel(base, other, q),
         \A i \in 1..n : \A h, g :
           Rel(h, g, q) => Rel(Op(h, s[i], p), Op(g, s[i], p), q)
  PROVE  Rel(Fold(base, s, p), Fold(other, s, p), q)
<1>1. PICK v : Trace(base, s, p, n, v) /\ v[n] = Fold(base, s, p)
  BY FoldTrace
<1>2. PICK w : Trace(other, s, p, n, w) /\ w[n] = Fold(other, s, p)
  BY FoldTrace
<1>. DEFINE T == {m \in 0..n : Rel(v[m], w[m], q)}
<1>3. 0 \in T
  <2>1. v[0] = base /\ w[0] = other
    BY <1>1, <1>2, Zenon DEF Trace
  <2>2. Rel(v[0], w[0], q)
    BY <2>1
  <2>3. 0 \in 0..n
    OBVIOUS
  <2>. QED
    BY <2>2, <2>3
<1>4. ASSUME NEW m \in 0..n - 1, m \in T PROVE m + 1 \in T
  <2>1. m + 1 \in 1..n /\ (m + 1) - 1 = m
    OBVIOUS
  <2>2. v[m + 1] = Op(v[m], s[m + 1], p) /\ w[m + 1] = Op(w[m], s[m + 1], p)
    BY <1>1, <1>2, <2>1 DEF Trace
  <2>3. Rel(v[m], w[m], q)
    BY <1>4
  <2>4. Rel(v[m + 1], w[m + 1], q)
    BY <2>1, <2>2, <2>3
  <2>. QED
    BY <2>1, <2>4
<1>. HIDE DEF T
<1>5. n \in T
  <2>1. \A m \in 0..n - 1 : m \in T => m + 1 \in T
    BY <1>4
  <2>2. 0..n \subseteq T
    BY <1>3, <2>1, UpToByMembers, Zenon
  <2>3. n \in 0..n
    OBVIOUS
  <2>. QED
    BY <2>2, <2>3
<1>6. Rel(v[n], w[n], q)
  BY <1>5 DEF T
<1>. QED
  BY <1>1, <1>2, <1>6
-----------------------------------------------------------------------------
(* A recursion over places from the last to the first has a solution.      *)
Backward(base, p, n, g) ==
  g = [i \in 1..n + 1 |-> IF i > n THEN base ELSE Op(g[i + 1], i, p)]

LEMMA BackwardSolvable ==
  ASSUME NEW base, NEW p, NEW n \in Nat
  PROVE  \E g : Backward(base, p, n, g)
<1>. DEFINE Up(k, g) == g = [i \in n + 1 - k..n + 1 |-> IF i > n THEN base ELSE Op(g[i + 1], i, p)]
            T == {k \in 0..n : \E g : Up(k, g)}
<1>1. 0 \in T
  <2>. DEFINE g == [i \in n + 1..n + 1 |-> base]
  <2>1. n + 1 - 0 = n + 1 /\ \A i \in n + 1..n + 1 : i > n
    OBVIOUS
  <2>2. Up(0, g)
    BY <2>1
  <2>3. 0 \in 0..n
    OBVIOUS
  <2>. QED
    BY <2>2, <2>3
<1>2. ASSUME NEW k \in 0..n - 1, k \in T PROVE k + 1 \in T
  <2>1. PICK g : Up(k, g)
    BY <1>2
  <2>. DEFINE f == n - k
              h == [i \in f..n + 1 |-> IF i = f THEN Op(g[f + 1], f, p) ELSE g[i]]
  <2>2. /\ f \in 1..n /\ n + 1 - k = f + 1 /\ n + 1 - (k + 1) = f /\ k + 1 \in 0..n
        /\ \A i \in f..n + 1 : i = f \/ i \in f + 1..n + 1
        /\ \A i \in f..n + 1 : i <= n => i + 1 \in f + 1..n + 1
        /\ \A i \in f + 1..n + 1 : i # f /\ i \in f..n + 1
    OBVIOUS
  <2>. HIDE DEF f
  <2>3. \A i \in f + 1..n + 1 : h[i] = g[i]
    BY <2>2
  <2>4. \A i \in f + 1..n + 1 : g[i] = IF i > n THEN base ELSE Op(g[i + 1], i, p)
    BY <2>1, <2>2
  <2>5. h[f] = Op(g[f + 1], f, p) /\ ~(f > n) /\ f + 1 \in f + 1..n + 1
    BY <2>2
  <2>6. h = [i \in f..n + 1 |-> h[i]]
    OBVIOUS
  <2>. HIDE DEF h
  <2>7. ASSUME NEW i \in f..n + 1 PROVE h[i] = IF i > n THEN base ELSE Op(h[i + 1], i, p)
    <3>1. CASE i = f
      BY <2>3, <2>5, <3>1
    <3>2. CASE i \in f + 1..n + 1 /\ i > n
      BY <2>3, <2>4, <3>2
    <3>3. CASE i \in f + 1..n + 1 /\ ~(i > n)
      <4>1. i + 1 \in f + 1..n + 1
        BY <2>2, <3>3
      <4>2. h[i + 1] = g[i + 1] /\ h[i] = g[i]
        BY <2>3, <3>3, <4>1
      <4>. QED
        BY <2>4, <3>3, <4>2
    <3>. QED
      BY <2>2, <3>1, <3>2, <3>3
  <2>8. Up(k + 1, h)
    BY <2>2, <2>6, <2>7
  <2>. HIDE DEF Up
  <2>. QED
    BY <2>2, <2>8
<1>. HIDE DEF T, Up
<1>3. n \in T
  <2>1. \A k \in 0..n - 1 : k \in T => k + 1 \in T
    BY <1>2
  <2>2. 0..n \subseteq T
    BY <1>1, <2>1, UpToByMembers, Zenon
  <2>3. n \in 0..n
    OBVIOUS
  <2>. QED
    BY <2>2, <2>3
<1>4. PICK g : Up(n, g)
  BY <1>3 DEF T
<1>5. n + 1 - n = 1
  OBVIOUS
<1>6. Backward(base, p, n, g)
  BY <1>4, <1>5 DEF Up, Backward
<1>. QED
  BY <1>6
=============================================================================
