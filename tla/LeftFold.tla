------------------------------- MODULE LeftFold -------------------------------
(***************************************************************************)
(* What a fold over a sequence computes, for any operator: the folds of    *)
(* policy.rs, validate.rs and portal.rs are instances.  And the induction  *)
(* their proofs go by, over a number or over the length of a sequence.     *)
(*                                                                         *)
(* FoldLeft is a function on the sets of indices, defined by recursion, so *)
(* that there is such a function is the first thing to prove.  The operator *)
(* has a parameter of its own: what the fold is about and does not change. *)
(***************************************************************************)
EXTENDS Integers, SequenceTheorems, WellFoundedInduction, TLAPS

CONSTANT Op(_, _, _)

\* There is no set of numbers without a least one.
LEMMA LeastNumber ==
  ASSUME NEW S, S \subseteq Nat, S # {} PROVE \E n \in S : \A m \in S : ~(m < n)
  <1>1. PICK n \in S : \A m \in S : ~(<<m, n>> \in OpToRel(<, Nat))
    BY NatLessThanWellFounded, WFMin
  <1> QED
    BY <1>1 DEF OpToRel

\* Induction over the numbers, as a set that has them all.
THEOREM Counting ==
  ASSUME NEW S, 0 \in S, \A n \in Nat : n \in S => n + 1 \in S
  PROVE  Nat \subseteq S
  <1> DEFINE Out == Nat \ S
  <1>1. SUFFICES ASSUME Out # {} PROVE FALSE
    OBVIOUS
  <1>2. PICK n \in Out : \A m \in Out : ~(m < n)
    BY <1>1, LeastNumber
  <1>3. n # 0
    BY <1>2
  <1>4. n - 1 \in Nat /\ n - 1 < n /\ (n - 1) + 1 = n
    BY <1>2, <1>3
  <1>5. n - 1 \in S
    BY <1>2, <1>4
  <1> QED
    BY <1>2, <1>4, <1>5

\* A sequence that is not empty is a shorter one with an element appended.
LEMMA LastOff ==
  ASSUME NEW X, NEW s \in Seq(X), NEW n \in Nat, Len(s) = n + 1
  PROVE  \E t \in Seq(X), c \in X : s = Append(t, c) /\ Len(t) = n
  <1>1. s # << >>
    BY EmptySeq
  <1>2. PICK t \in Seq(X), c \in X : s = Append(t, c)
    BY <1>1, SequenceEmptyOrAppend
  <1>3. Len(t) \in Nat /\ Len(Append(t, c)) = Len(t) + 1
    BY AppendProperties
  <1> QED
    BY <1>2, <1>3

\* Induction over the sequences, by appending.
THEOREM Appending ==
  ASSUME NEW X, NEW T, << >> \in T, \A s \in Seq(X), c \in X : s \in T => Append(s, c) \in T
  PROVE  Seq(X) \subseteq T
  <1> DEFINE S == {n \in Nat : \A s \in Seq(X) : Len(s) = n => s \in T}
  <1>1. 0 \in S
    BY EmptySeq
  <1>2. ASSUME NEW n \in Nat, n \in S PROVE n + 1 \in S
    <2> SUFFICES ASSUME NEW s \in Seq(X), Len(s) = n + 1 PROVE s \in T
      OBVIOUS
    <2>1. PICK t \in Seq(X), c \in X : s = Append(t, c) /\ Len(t) = n
      BY LastOff
    <2>2. t \in T
      BY <1>2, <2>1
    <2> QED
      BY <2>1, <2>2
  <1> HIDE DEF S
  <1>3. Nat \subseteq S
    BY <1>1, <1>2, Counting
  <1> QED
    BY <1>3 DEF S

-----------------------------------------------------------------------------
(* The fold.                                                               *)

Top(t) == CHOOSE m \in t : \A y \in t : m >= y
Step(x, base, s, g, t) == IF t = {} THEN base ELSE Op(x, g[t \ {Top(t)}], s[Top(t)])
Iter(x, base, s) == CHOOSE g : g = [t \in SUBSET (DOMAIN s) |-> Step(x, base, s, g, t)]

\* FoldLeft(LAMBDA acc, c : Op(x, acc, c), base, s), written out.
Fold(x, base, s) == Iter(x, base, s)[DOMAIN s]

LEMMA TopIs ==
  ASSUME NEW n \in Nat, NEW t \in SUBSET (1..(n + 1)), n + 1 \in t PROVE Top(t) = n + 1
  <1>1. \A y \in t : n + 1 >= y
    OBVIOUS
  <1>2. ASSUME NEW m \in t, \A y \in t : m >= y PROVE m = n + 1
    BY <1>2
  <1> QED
    BY <1>1, <1>2 DEF Top

LEMMA IterExists ==
  ASSUME NEW x, NEW base, NEW s, NEW n \in Nat, DOMAIN s = 1..n
  PROVE  \A t \in SUBSET (1..n) : Iter(x, base, s)[t] = Step(x, base, s, Iter(x, base, s), t)
  <1> DEFINE Good(g, m) == g = [t \in SUBSET (1..m) |-> Step(x, base, s, g, t)]
             S == {m \in Nat : \E g : Good(g, m)}
  <1>1. 0 \in S
    <2> DEFINE g == [t \in SUBSET (1..0) |-> base]
    <2>1. \A t \in SUBSET (1..0) : t = {}
      OBVIOUS
    <2>2. Good(g, 0)
      BY <2>1 DEF Step
    <2> QED
      BY <2>2
  <1>2. ASSUME NEW m \in Nat, m \in S PROVE m + 1 \in S
    <2>1. PICK g : Good(g, m)
      BY <1>2
    <2> DEFINE h == [t \in SUBSET (1..(m + 1)) |->
                       IF m + 1 \in t THEN Op(x, g[t \ {m + 1}], s[m + 1]) ELSE g[t]]
    <2>2. ASSUME NEW t \in SUBSET (1..(m + 1)) PROVE h[t] = Step(x, base, s, h, t)
      <3>1. CASE m + 1 \in t
        <4>1. Top(t) = m + 1 /\ t # {}
          BY <3>1, TopIs
        <4>2. t \ {m + 1} \in SUBSET (1..(m + 1)) /\ m + 1 \notin t \ {m + 1}
          OBVIOUS
        <4>3. h[t \ {m + 1}] = g[t \ {m + 1}]
          BY <4>2
        <4>4. h[t] = Op(x, g[t \ {m + 1}], s[m + 1])
          BY <3>1
        <4> HIDE DEF h
        <4> QED
          BY <4>1, <4>3, <4>4 DEF Step
      <3>2. CASE m + 1 \notin t
        <4>1. t \in SUBSET (1..m)
          BY <3>2
        <4>2. h[t] = g[t]
          BY <3>2
        <4>3. g[t] = Step(x, base, s, g, t)
          BY <2>1, <4>1
        <4>4. t \ {Top(t)} \in SUBSET (1..(m + 1)) /\ m + 1 \notin t \ {Top(t)}
          BY <3>2
        <4>5. h[t \ {Top(t)}] = g[t \ {Top(t)}]
          BY <4>4
        <4> HIDE DEF h, Good
        <4> QED
          BY <4>2, <4>3, <4>5 DEF Step
      <3> QED
        BY <3>1, <3>2
    <2>3. h = [t \in SUBSET (1..(m + 1)) |-> h[t]]
      OBVIOUS
    <2> HIDE DEF h
    <2>4. Good(h, m + 1)
      BY <2>2, <2>3
    <2> QED
      BY <2>4
  <1> HIDE DEF S
  <1>3. Nat \subseteq S
    BY <1>1, <1>2, Counting
  <1>4. n \in S
    BY <1>3
  <1>5. \E g : Good(g, n)
    BY <1>4 DEF S
  <1>6. Iter(x, base, s) = CHOOSE g : Good(g, n)
    BY DEF Iter
  <1> DEFINE f == Iter(x, base, s)
  <1> HIDE DEF Good
  <1>7. Good(f, n)
    BY <1>5, <1>6
  <1> HIDE DEF f
  <1>8. f = [t \in SUBSET (1..n) |-> Step(x, base, s, f, t)]
    BY <1>7 DEF Good
  <1>9. \A t \in SUBSET (1..n) : f[t] = Step(x, base, s, f, t)
    BY <1>8
  <1> QED
    BY <1>9 DEF f

\* What is appended does not change what was there before it.
LEMMA IterPrefix ==
  ASSUME NEW x, NEW base, NEW X, NEW s \in Seq(X), NEW c \in X
  PROVE  Iter(x, base, s)[1..Len(s)] = Iter(x, base, Append(s, c))[1..Len(s)]
  <1> DEFINE n == Len(s)
             q == Append(s, c)
             f == Iter(x, base, s)
             g == Iter(x, base, q)
             S == {m \in Nat : m <= n => f[1..m] = g[1..m]}
  <1>1. n \in Nat /\ DOMAIN s = 1..n /\ DOMAIN q = 1..(n + 1) /\ \A i \in 1..n : s[i] = q[i]
    OBVIOUS
  <1> HIDE DEF n, q
  <1>2. /\ \A t \in SUBSET (1..n) : f[t] = Step(x, base, s, f, t)
        /\ \A t \in SUBSET (1..(n + 1)) : g[t] = Step(x, base, q, g, t)
    BY <1>1, IterExists
  <1> HIDE DEF f, g
  <1>3. 0 \in S
    <2>1. 1..0 = {}
      OBVIOUS
    <2>2. f[{}] = base /\ g[{}] = base
      BY <1>2 DEF Step
    <2> QED
      BY <2>1, <2>2
  <1>4. ASSUME NEW m \in Nat, m \in S PROVE m + 1 \in S
    <2> SUFFICES ASSUME m + 1 <= n PROVE f[1..(m + 1)] = g[1..(m + 1)]
      OBVIOUS
    <2>1. Top(1..(m + 1)) = m + 1 /\ 1..(m + 1) # {} /\ (1..(m + 1)) \ {m + 1} = 1..m
      <3>1. m + 1 \in 1..(m + 1) /\ (1..(m + 1)) \ {m + 1} = 1..m
        OBVIOUS
      <3> QED
        BY <3>1, TopIs
    <2>2. 1..(m + 1) \in SUBSET (1..n) /\ 1..(m + 1) \in SUBSET (1..(n + 1)) /\ m <= n /\ m + 1 \in 1..n
      BY <1>1
    <2>3. f[1..(m + 1)] = Op(x, f[1..m], s[m + 1])
      BY <1>2, <2>1, <2>2 DEF Step
    <2>4. g[1..(m + 1)] = Op(x, g[1..m], q[m + 1])
      BY <1>2, <2>1, <2>2 DEF Step
    <2>5. f[1..m] = g[1..m]
      BY <1>4, <2>2
    <2> QED
      BY <1>1, <2>2, <2>3, <2>4, <2>5
  <1> HIDE DEF S
  <1>5. n \in S
    BY <1>1, <1>3, <1>4, Counting
  <1> QED
    BY <1>1, <1>5 DEF S, f, g, n, q

\* A fold over nothing is where it started, for any operator.
THEOREM FoldEmpty ==
  ASSUME NEW x, NEW base PROVE Fold(x, base, << >>) = base
  <1>1. DOMAIN << >> = 1..0 /\ 1..0 = {}
    OBVIOUS
  <1>2. \A t \in SUBSET (1..0) : Iter(x, base, << >>)[t] = Step(x, base, << >>, Iter(x, base, << >>), t)
    BY <1>1, IterExists
  <1>3. Iter(x, base, << >>)[{}] = base
    BY <1>1, <1>2 DEF Step
  <1> QED
    BY <1>1, <1>3 DEF Fold

\* And one element more is one step more.
THEOREM FoldAppend ==
  ASSUME NEW x, NEW base, NEW X, NEW s \in Seq(X), NEW c \in X
  PROVE  Fold(x, base, Append(s, c)) = Op(x, Fold(x, base, s), c)
  <1> DEFINE n == Len(s)
             q == Append(s, c)
             g == Iter(x, base, q)
  <1>1. n \in Nat /\ DOMAIN s = 1..n /\ DOMAIN q = 1..(n + 1) /\ q[n + 1] = c
    OBVIOUS
  <1> HIDE DEF n, q
  <1>2. \A t \in SUBSET (1..(n + 1)) : g[t] = Step(x, base, q, g, t)
    BY <1>1, IterExists
  <1>3. Top(1..(n + 1)) = n + 1 /\ 1..(n + 1) # {} /\ (1..(n + 1)) \ {n + 1} = 1..n
    <2>1. n + 1 \in 1..(n + 1) /\ (1..(n + 1)) \ {n + 1} = 1..n
      BY <1>1
    <2> QED
      BY <1>1, <2>1, TopIs
  <1>4. Iter(x, base, s)[1..n] = g[1..n]
    BY IterPrefix DEF n, q
  <1> HIDE DEF g
  <1>5. g[1..(n + 1)] = Op(x, g[1..n], q[n + 1])
    BY <1>1, <1>2, <1>3 DEF Step
  <1>6. Fold(x, base, q) = g[1..(n + 1)] /\ Fold(x, base, s) = Iter(x, base, s)[1..n]
    BY <1>1 DEF Fold, g
  <1> QED
    BY <1>1, <1>4, <1>5, <1>6 DEF q
===============================================================================
