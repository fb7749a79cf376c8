----------------------------- MODULE Induction -----------------------------
(* Induction without an operator as a parameter: the least number at which *)
(* a statement fails. The proofs about loops use it.                       *)
EXTENDS Integers, WellFoundedInduction, TLAPS

(* A set of natural numbers that is not empty has a least element: where a *)
(* loop of the code first goes wrong.                                      *)
THEOREM LeastElement ==
  ASSUME NEW T \in SUBSET Nat, T # {}
  PROVE  \E m \in T : \A k \in T : m <= k
<1>1. IsWellFoundedOn(OpToRel(<, Nat), Nat)
  BY NatLessThanWellFounded
<1>2. PICK m \in T : \A k \in T : ~ (<<k, m>> \in OpToRel(<, Nat))
  BY <1>1, WFMin
<1>3. \A k \in T : ~ (k < m)
  BY <1>2 DEF OpToRel
<1> QED
  BY <1>3

(* A set that holds 0 and every successor of a member holds every number   *)
(* up to a bound: the numbers of the turns of a loop.                      *)
THEOREM Turns ==
  ASSUME NEW n \in Nat, NEW S, 0 \in S,
         \A k \in 0..(n - 1) : k \in S => k + 1 \in S
  PROVE  \A k \in 0..n : k \in S
<1> DEFINE T == {k \in 0..n : k \notin S}
<1> SUFFICES ASSUME T # {} PROVE FALSE
  OBVIOUS
<1>1. PICK m \in T : \A k \in T : m <= k
  <2>1. T \in SUBSET Nat
    OBVIOUS
  <2> QED
    BY <2>1, LeastElement
<1>2. m \in 1..n
  BY <1>1
<1>3. m - 1 \in 0..(n - 1) /\ m - 1 \notin T
  BY <1>1, <1>2
<1>4. m - 1 \in S
  BY <1>3
<1>5. (m - 1) + 1 \in S
  BY <1>3, <1>4
<1> QED
  BY <1>2, <1>5, <1>1

(* A loop over v that starts with a and takes step in each turn, with      *)
(* values in S, and the function f of its values after each turn.          *)
TypedLoop(n, S, T, a, v, step) ==
  /\ n \in Nat /\ a \in S
  /\ \A j \in 1..n : v[j] \in T
  /\ \A s \in S, x \in T : step[s][x] \in S

LoopValues(f, n, S, a, v, step) ==
  /\ f[0] = a
  /\ \A j \in 0..n : f[j] \in S
  /\ \A j \in 1..n : f[j] = step[f[j - 1]][v[j]]

(* The function of a loop's values exists: the recursive definitions that  *)
(* stand for the loops of the C code can be unrolled turn by turn.         *)
THEOREM Iterated ==
  ASSUME NEW n, NEW S, NEW T, NEW a, NEW v, NEW step,
         TypedLoop(n, S, T, a, v, step)
  PROVE  \E f : LoopValues(f, n, S, a, v, step)
<1> USE DEF TypedLoop
<1> DEFINE Loop(f, k) ==
             /\ f \in [0..k -> S]
             /\ f[0] = a
             /\ \A j \in 1..k : f[j] = step[f[j - 1]][v[j]]
           Upto == {k \in 0..n : \E f : Loop(f, k)}
<1>1. 0 \in Upto
  <2>1. Loop([j \in 0..0 |-> a], 0)
    OBVIOUS
  <2>2. \E f : Loop(f, 0)
    <3> HIDE DEF Loop
    <3> QED
      BY <2>1, Zenon
  <2>3. 0 \in 0..n
    OBVIOUS
  <2> QED
    BY <2>2, <2>3
<1>2. ASSUME NEW k \in 0..(n - 1), k \in Upto
      PROVE  k + 1 \in Upto
  <2>1. PICK f : Loop(f, k)
    BY <1>2
  <2> DEFINE last == step[f[k]][v[k + 1]]
             g == [j \in 0..(k + 1) |-> IF j = k + 1 THEN last ELSE f[j]]
  <2>2. last \in S
    <3>1. f[k] \in S /\ v[k + 1] \in T
      BY <2>1
    <3> QED
      BY <3>1
  <2>3. Loop(g, k + 1)
    <3>1. g \in [0..(k + 1) -> S]
      <4> HIDE DEF last
      <4>1. \A j \in 0..(k + 1) : j # k + 1 => j \in 0..k
        OBVIOUS
      <4> QED
        BY <2>1, <2>2, <4>1
    <3>2. g[0] = a
      BY <2>1
    <3>3. ASSUME NEW j \in 1..(k + 1)
          PROVE  g[j] = step[g[j - 1]][v[j]]
      <4>1. j - 1 \in 0..k /\ j - 1 # k + 1 /\ g[j - 1] = f[j - 1]
        OBVIOUS
      <4>2. CASE j = k + 1
        <5>1. (k + 1) - 1 = k
          OBVIOUS
        <5> QED
          BY <4>1, <4>2, <5>1
      <4>3. CASE j # k + 1
        <5>1. j \in 1..k /\ g[j] = f[j]
          BY <4>3
        <5> QED
          BY <2>1, <4>1, <5>1
      <4> QED
        BY <4>2, <4>3
    <3> QED
      BY <3>1, <3>2, <3>3
  <2>4. \E h : Loop(h, k + 1)
    <3> HIDE DEF Loop, g
    <3> QED
      BY <2>3, Zenon
  <2>5. k + 1 \in 0..n
    OBVIOUS
  <2> QED
    BY <2>4, <2>5
<1> HIDE DEF Upto, Loop
<1>3. \A k \in 0..n : k \in Upto
  BY <1>1, <1>2, Turns
<1>4. PICK f : Loop(f, n)
  <2>1. n \in Upto
    BY <1>3
  <2> QED
    BY <2>1 DEF Upto
<1> QED
  BY <1>4 DEF Loop, LoopValues
=============================================================================
