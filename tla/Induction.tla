----------------------------- MODULE Induction -----------------------------
(***************************************************************************)
(* Induction over natural numbers, for loops written as recursive          *)
(* functions.  The theorems of NaturalsInduction take a predicate as a     *)
(* parameter; here it is a set of numbers, and the step of a loop is a     *)
(* function.                                                               *)
(***************************************************************************)
EXTENDS Integers, WellFoundedInduction, TLAPS

\* Every set of natural numbers has a least element.
LEMMA LeastNumber ==
  ASSUME NEW T, T \subseteq Nat, T # {}
  PROVE  \E m \in T : \A k \in T : ~ (k < m)
<1>1. IsWellFoundedOn(OpToRel(<, Nat), Nat)
  BY NatLessThanWellFounded
<1>2. \E m \in T : \A k \in T : <<k, m>> \notin OpToRel(<, Nat)
  BY <1>1, WFMin
<1> QED BY <1>2 DEF OpToRel

LEMMA SetInduction ==
  ASSUME NEW S, 0 \in S, \A n \in Nat : n \in S => n + 1 \in S
  PROVE  Nat \subseteq S
<1> SUFFICES ASSUME Nat \ S # {} PROVE FALSE
  OBVIOUS
<1>1. PICK m \in Nat \ S : \A k \in Nat \ S : ~ (k < m)
  BY LeastNumber
<1> QED BY <1>1

\* Induction up to the last turn of a loop.
LEMMA TurnInduction ==
  ASSUME NEW n \in Nat, NEW S, 0 \in S, \A k \in 1 .. n : k - 1 \in S => k \in S
  PROVE  0 .. n \subseteq S
<1> DEFINE T == {k \in Nat : k <= n => k \in S}
<1>1. 0 \in T
  OBVIOUS
<1>2. ASSUME NEW k \in Nat, k \in T PROVE k + 1 \in T
  <2>1. CASE k + 1 <= n
    <3>1. k + 1 \in 1 .. n /\ (k + 1) - 1 = k
      BY <2>1
    <3> QED BY <1>2, <2>1, <3>1
  <2> QED BY <2>1
<1> HIDE DEF T
<1>3. Nat \subseteq T
  BY <1>1, <1>2, SetInduction
<1> QED BY <1>3 DEF T

\* What the turns of a loop do.
Turns(n, V) == [1 .. n -> [V -> V]]

\* The states f of a loop of n turns, turn k of which takes its state from v to
\* step[k][v].
RunsLoop(f, n, V, start, step) ==
  /\ f \in [0 .. n -> V] /\ f[0] = start
  /\ \A k \in 1 .. n : f[k] = step[k][f[k - 1]]

\* A loop has a state after every turn.
LEMMA LoopStates ==
  ASSUME NEW n \in Nat, NEW V, NEW start \in V, NEW step \in Turns(n, V)
  PROVE  \E g : RunsLoop(g, n, V, start, step)
<1> DEFINE Ok(m, g) == g[0] = start /\ \A k \in 1 .. m : g[k] = step[k][g[k - 1]]
           Reaches(m) == \E g \in [0 .. m -> V] : Ok(m, g)
           S == {m \in 0 .. n : Reaches(m)}
<1>1. 0 \in S
  <2>1. [k \in 0 .. 0 |-> start] \in [0 .. 0 -> V] /\ Ok(0, [k \in 0 .. 0 |-> start])
    OBVIOUS
  <2> HIDE DEF Ok
  <2>2. Reaches(0)
    BY <2>1
  <2> HIDE DEF Reaches
  <2> QED BY <2>2
<1>2. ASSUME NEW m \in 1 .. n, m - 1 \in S PROVE m \in S
  <2>1. PICK g \in [0 .. m - 1 -> V] : Ok(m - 1, g)
    BY <1>2
  <2> DEFINE h == [k \in 0 .. m |-> IF k = m THEN step[m][g[m - 1]] ELSE g[k]]
  <2>2. h \in [0 .. m -> V]
    <3>1. g[m - 1] \in V /\ step[m] \in [V -> V]
      BY DEF Turns
    <3>2. \A k \in 0 .. m : k # m => k \in 0 .. m - 1
      OBVIOUS
    <3> QED BY <3>1, <3>2
  <2>3. h[0] = start
    BY <2>1
  <2>4. ASSUME NEW k \in 1 .. m PROVE h[k] = step[k][h[k - 1]]
    <3>1. h[k - 1] = g[k - 1]
      OBVIOUS
    <3>2. CASE k = m
      BY <3>1, <3>2
    <3>3. CASE k # m
      <4>1. k \in 1 .. m - 1
        BY <3>3
      <4> QED BY <3>1, <3>3, <4>1, <2>1
    <3> QED BY <3>2, <3>3
  <2> HIDE DEF h
  <2>5. Ok(m, h)
    BY <2>3, <2>4
  <2> HIDE DEF Ok
  <2>6. Reaches(m)
    BY <2>2, <2>5
  <2> HIDE DEF Reaches
  <2> QED BY <2>6
<1> HIDE DEF S
<1>3. 0 .. n \subseteq S
  BY <1>1, <1>2, TurnInduction
<1>4. \E g \in [0 .. n -> V] : Ok(n, g)
  BY <1>3 DEF S
<1> QED BY <1>4 DEF RunsLoop

=============================================================================
