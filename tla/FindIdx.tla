------------------------------ MODULE FindIdx ------------------------------
(***************************************************************************)
(* The Find Index block: an extreme of a vector, how many elements have it *)
(* and the index of the first or last of them. It is written twice, for    *)
(* the simulation in C (rtw/blocks/findidx.c) and for the program as       *)
(* generated code (rtw/blocks/findidx.tlc).                                *)
(***************************************************************************)
EXTENDS Integers, Sequences, FiniteSets

CONSTANTS
  Elements,   \* bound: values of the elements
  MaxWidth    \* bound: elements of the vector

VARIABLES
  FindType,   \* the block's option
  u,          \* the input vector of this cycle
  program,    \* the outputs of the generated code
  simulation  \* the outputs of the S-function

vars == <<FindType, u, program, simulation>>

FirstMin == 1
LastMin == 2
FirstMax == 3
LastMax == 4
FindTypes == {FirstMin, LastMin, FirstMax, LastMax}

Cmp(a, b) ==
  CASE FindType = FirstMin -> a < b [] FindType = LastMin -> a <= b
    [] FindType = FirstMax -> a > b [] FindType = LastMax -> a >= b

Start(v) == [i |-> 0, count |-> 0, index |-> 0, value |-> v[1]]

\* The body of the loop for element x: what is counted when x is equal to the
\* value found so far, then what x changes as the new one.
Equal(s, x) == IF x = s.value THEN [s EXCEPT !.count = @ + 1] ELSE s
Found(s, x, restart) ==
  [s EXCEPT !.count = IF restart THEN 1 ELSE @, !.index = s.i, !.value = x]

\* The generated code leaves the test for a new value out where the comparison
\* implies it. And wrong: it is always left out.
RestartsAlways(s, x) == TRUE
Restarts(s, x) == FindType \in {LastMin, LastMax} => x # s.value

Body(s, x, restart) ==
  LET e == Equal(s, x)
      f == IF Cmp(x, e.value) THEN Found(e, x, restart) ELSE e
  IN  [f EXCEPT !.i = @ + 1]

\* Behind the loop: when all elements are the extreme, none is counted.
Result(s, v) ==
  [count |-> IF s.count = Len(v) THEN 0 ELSE s.count,
   index |-> s.index, value |-> s.value]

ProgramBody(s, x) == Body(s, x, Restarts(s, x))
ProgramOutputs(v) ==
  LET turn[i \in 0..Len(v)] ==
        IF i = 0 THEN Start(v) ELSE ProgramBody(turn[i - 1], v[i])
  IN  Result(turn[Len(v)], v)

SimulationBody(s, x) == Body(s, x, x # s.value)
mdlOutputs(v) ==
  LET turn[i \in 0..Len(v)] ==
        IF i = 0 THEN Start(v) ELSE SimulationBody(turn[i - 1], v[i])
  IN  Result(turn[Len(v)], v)

Vectors == UNION {[1..n -> Elements] : n \in 1..MaxWidth}

Shown(v) ==
  /\ program = ProgramOutputs(v)
  /\ simulation = mdlOutputs(v)

Init == FindType \in FindTypes /\ u \in [{1} -> Elements] /\ Shown(u)

Next ==
  /\ UNCHANGED FindType
  /\ u' \in Vectors
  /\ program' = ProgramOutputs(u')
  /\ simulation' = mdlOutputs(u')

\* The places of the extreme, from 0.
Places ==
  LET Best(v) == IF FindType \in {FirstMin, LastMin}
                 THEN \A i \in DOMAIN u : v <= u[i]
                 ELSE \A i \in DOMAIN u : v >= u[i]
  IN  {i - 1 : i \in {j \in DOMAIN u : Best(u[j])}}

(* Program and simulation show the same: the extreme, its first or last    *)
(* place and the number of its places, or 0 if it has all of them.         *)
FindsExtreme ==
  /\ program = simulation
  /\ program.index \in Places
  /\ \A i \in Places : IF FindType \in {FirstMin, FirstMax}
                       THEN program.index <= i ELSE program.index >= i
  /\ program.value = u[program.index + 1]
  /\ program.count = IF Cardinality(Places) = Len(u) THEN 0
                     ELSE Cardinality(Places)
=============================================================================
