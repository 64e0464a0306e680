------------------------------- MODULE Induction -------------------------------
(* Induction over the turns of a loop, from the well-foundedness of < on the *)
(* natural numbers: about sets of numbers, since a predicate cannot be a     *)
(* parameter of a lemma here.                                                *)
EXTENDS Integers, WellFoundedInduction, TLAPS

\* A set of natural numbers that is not empty has a least element.
LEMMA LeastElement ==
  ASSUME NEW T \in SUBSET Nat, T # {}
  PROVE  \E m \in T : \A n \in T : m <= n
<1> DEFINE R == {ss \in Nat \X Nat : ss[1] < ss[2]}
<1>1. IsWellFoundedOn(R, Nat)
  BY NatLessThanWellFounded DEF OpToRel
<1>2. ASSUME NEW m \in Nat, NEW n \in Nat, n < m PROVE <<n, m>> \in R
  BY <1>2
<1> HIDE DEF R
<1>3. PICK m \in T : \A n \in T : ~(<<n, m>> \in R)
  BY <1>1, WFMin
<1>4. ASSUME NEW n \in T PROVE m <= n
  <2>1. m \in Nat /\ n \in Nat
    OBVIOUS
  <2>2. ~(n < m)
    BY <2>1, <1>2, <1>3
  <2> QED BY <2>1, <2>2
<1> QED BY <1>4

\* What holds before the first turn of a loop of len turns, and after a turn
\* if it holds before it, holds after every turn.
LEMMA LoopInduction ==
  ASSUME NEW len \in Nat, NEW S, 0 \in S,
         \A n \in 1..len : n - 1 \in S => n \in S
  PROVE  \A n \in 0..len : n \in S
<1> SUFFICES ASSUME (0..len) \ S # {} PROVE FALSE
  OBVIOUS
<1>1. (0..len) \ S \in SUBSET Nat
  OBVIOUS
<1>2. PICK m \in (0..len) \ S : \A n \in (0..len) \ S : m <= n
  BY <1>1, LeastElement
<1>3. m \in 1..len /\ m - 1 \in 0..len /\ ~(m <= m - 1)
  BY <1>2
<1>4. m - 1 \in S
  BY <1>2, <1>3
<1> QED BY <1>2, <1>3, <1>4

\* q has the values of a loop that starts with start, and whose turn n takes v
\* to turn[n][v].
LoopValues(q, len, V, start, turn) ==
  /\ q \in [0..len -> V] /\ q[0] = start
  /\ \A n \in 1..len : q[n] = turn[n][q[n - 1]]

\* There are such values: what the recursive functions of the modules stand for.
LEMMA LoopDefined ==
  ASSUME NEW len \in Nat, NEW V, NEW start \in V, NEW turn \in [1..len -> [V -> V]]
  PROVE  \E q : LoopValues(q, len, V, start, turn)
<1> DEFINE S == {m \in 0..len : \E q : LoopValues(q, m, V, start, turn)}
<1>1. 0 \in S
  <2>1. LoopValues([n \in 0..0 |-> start], 0, V, start, turn)
    BY DEF LoopValues
  <2>2. 0 \in 0..len
    OBVIOUS
  <2> QED BY <2>1, <2>2
<1>2. ASSUME NEW m \in 1..len, m - 1 \in S PROVE m \in S
  <2>1. PICK q : LoopValues(q, m - 1, V, start, turn)
    BY <1>2
  <2> DEFINE p == [n \in 0..m |-> IF n = m THEN turn[m][q[m - 1]] ELSE q[n]]
  <2>2. q \in [0..(m - 1) -> V] /\ q[m - 1] \in V /\ turn[m][q[m - 1]] \in V
    BY <2>1 DEF LoopValues
  <2>3. p \in [0..m -> V]
    BY <2>2
  <2>4. ASSUME NEW n \in 1..m PROVE p[n] = turn[n][p[n - 1]]
    <3>1. p[n - 1] = q[n - 1]
      OBVIOUS
    <3>2. CASE n = m
      BY <3>1, <3>2
    <3>3. CASE n # m
      <4>1. n \in 1..(m - 1) /\ p[n] = q[n]
        BY <3>3
      <4>2. q[n] = turn[n][q[n - 1]]
        BY <2>1, <4>1 DEF LoopValues
      <4> QED BY <3>1, <4>1, <4>2
    <3> QED BY <3>2, <3>3
  <2>5. p[0] = start
    BY <2>1 DEF LoopValues
  <2>6. LoopValues(p, m, V, start, turn)
    BY <2>3, <2>4, <2>5 DEF LoopValues
  <2>7. m \in 0..len
    OBVIOUS
  <2> HIDE DEF p
  <2> QED BY <2>6, <2>7
<1>3. \A m \in 0..len : m \in S
  <2> HIDE DEF S
  <2> QED BY <1>1, <1>2, LoopInduction
<1> QED BY <1>3

\* q and u start with the same, and a turn takes the same to the same.
SameTurns(q, u, len) ==
  q[0] = u[0] /\ \A n \in 1..len : q[n - 1] = u[n - 1] => q[n] = u[n]

\* Then they are the same.
LEMMA SameLoop ==
  ASSUME NEW len \in Nat, NEW q, NEW u, SameTurns(q, u, len)
  PROVE  \A n \in 0..len : q[n] = u[n]
<1> DEFINE S == {n \in 0..len : q[n] = u[n]}
<1>1. 0 \in S /\ \A n \in 1..len : n - 1 \in S => n \in S
  BY DEF SameTurns
<1>2. \A n \in 0..len : n \in S
  <2> HIDE DEF S
  <2> QED BY <1>1, LoopInduction
<1> QED BY <1>2
===============================================================================
