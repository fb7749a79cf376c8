---------------------------- MODULE Blocks_proofs ----------------------------
(* What the event, RtIPC, message and state blocks promise, for counters   *)
(* that wrap anywhere, any confirmation time and any levels of the reset   *)
(* input, and vectors of any width.                                        *)
EXTENDS Blocks, Induction, FiniteSetTheorems, SequenceTheorems

-----------------------------------------------------------------------------
(* The event block.                                                        *)

EventTypes ==
  /\ SingleShot \in BOOLEAN /\ shown \in BOOLEAN /\ gap \in BOOLEAN
  /\ Trigger \in 0..(Wrap - 1) /\ counter \in 0..(Wrap - 1)
  /\ owed \in 0..(Wrap - 1)
  /\ at \in {"begin", "copy"}
  /\ ~SingleShot => at = "begin"

\* How far the host's counter is ahead of the block's.
Ahead == IF Trigger >= counter THEN Trigger - counter
                               ELSE Trigger - counter + Wrap

(* A chain owes as many pulses as the host is ahead. A single shot owes at *)
(* least that many, and if it owes any and would not see them the last     *)
(* count came between its two reads.                                       *)
EventIInv ==
  /\ EventTypes
  /\ ~SingleShot => owed = Ahead
  /\ SingleShot /\ at = "begin" => Ahead <= owed
  /\ SingleShot /\ at = "begin" /\ owed > 0 => Trigger # counter \/ gap
  /\ SingleShot /\ at = "copy" /\ owed > 0 => gap

LEMMA WrapOnce ==
  ASSUME NEW n \in 0..(2 * Wrap - 1)
  PROVE  n % Wrap = IF n < Wrap THEN n ELSE n - Wrap
<1>1. Wrap \in Nat /\ Wrap > 0
  BY BlocksAssumption
<1>2. CASE n < Wrap
  BY <1>1, <1>2
<1>3. CASE ~(n < Wrap)
  BY <1>1, <1>3
<1> QED
  BY <1>2, <1>3

LEMMA WrapSum ==
  \A a, b \in 0..(Wrap - 1) :
    (a + b) % Wrap = IF a + b < Wrap THEN a + b ELSE (a + b) - Wrap
<1> TAKE a, b \in 0..(Wrap - 1)
<1>1. Wrap \in Nat /\ Wrap > 0
  BY BlocksAssumption
<1>2. PICK n \in Int : n = a + b
  BY <1>1
<1>3. n % Wrap = IF n < Wrap THEN n ELSE n - Wrap
  BY <1>1, <1>2, WrapOnce
<1> QED
  BY <1>2, <1>3, Zenon

LEMMA NextWraps ==
  ASSUME NEW n \in 0..(Wrap - 1)
  PROVE  /\ E!Next1(n) = IF n + 1 = Wrap THEN 0 ELSE n + 1
         /\ E!Next1(n) \in 0..(Wrap - 1)
<1>1. Wrap \in Nat /\ Wrap > 0 /\ n + 1 \in 0..(2 * Wrap - 1)
  BY BlocksAssumption
<1>2. E!Next1(n) = IF n + 1 < Wrap THEN n + 1 ELSE (n + 1) - Wrap
  BY <1>1, WrapOnce DEF E!Next1
<1> QED
  BY <1>1, <1>2

LEMMA EventInit == E!Init => EventIInv
<1>1. Wrap \in Nat /\ Wrap > 0
  BY BlocksAssumption
<1>2. 0 \in 0..(Wrap - 1)
  BY <1>1
<1>3. E!Init => EventTypes
  BY <1>2 DEF E!Init, EventTypes
<1> QED
  BY <1>1, <1>3 DEF E!Init, EventIInv, Ahead

LEMMA EventStep ==
  ASSUME EventIInv, E!Next
  PROVE  EventIInv'
<1> USE DEF EventIInv, EventTypes, Ahead
<1>1. Wrap \in Nat /\ Wrap > 0
  BY BlocksAssumption
<1>2. /\ \A n \in 0..(Wrap - 1) :
           E!Next1(n) = IF n + 1 = Wrap THEN 0 ELSE n + 1
      /\ \A n \in 0..(Wrap - 1) : E!Next1(n) \in 0..(Wrap - 1)
  BY NextWraps
<1>3. CASE E!Chain
  <2>1. CASE shown
    BY <1>3, <2>1 DEF E!Chain, E!Pause
  <2>2. CASE ~shown /\ Trigger # counter
    <3>1. /\ shown' = TRUE /\ counter' = E!Next1(counter) /\ owed' = owed - 1
          /\ UNCHANGED <<SingleShot, Trigger, at, gap>>
      BY <1>3, <2>2 DEF E!Chain, E!Pause, E!NextCount
    <3>2. counter' = IF counter + 1 = Wrap THEN 0 ELSE counter + 1
      BY <1>2, <3>1
    <3> QED
      BY <1>1, <1>3, <2>2, <3>1, <3>2 DEF E!Chain
  <2>3. CASE ~shown /\ Trigger = counter
    BY <1>3, <2>3 DEF E!Chain, E!Pause
  <2> QED
    BY <2>1, <2>2, <2>3
<1>4. CASE E!ShotCompare
  <2>1. /\ SingleShot /\ at = "begin" /\ at' = "copy"
        /\ shown' = (Trigger # counter)
        /\ owed' = IF Trigger # counter THEN 0 ELSE owed
        /\ UNCHANGED <<SingleShot, Trigger, counter, gap>>
    BY <1>4 DEF E!ShotCompare
  <2>2. shown' \in BOOLEAN
    BY <2>1
  <2> QED
    BY <1>1, <2>1, <2>2
<1>5. CASE E!ShotCopy
  <2>1. /\ SingleShot /\ at = "copy" /\ at' = "begin" /\ counter' = Trigger
        /\ UNCHANGED <<SingleShot, Trigger, shown, owed, gap>>
    BY <1>5 DEF E!ShotCopy
  <2> QED
    BY <1>1, <2>1
<1>6. CASE E!Download
  <2>1. /\ owed < Wrap - 1 /\ Trigger' = E!Next1(Trigger) /\ owed' = owed + 1
        /\ UNCHANGED <<SingleShot, counter, shown, at>>
    BY <1>6 DEF E!Download
  <2>2. gap' \in BOOLEAN /\ (at = "copy" => gap')
    BY <1>6 DEF E!Download
  <2>3. Trigger' = IF Trigger + 1 = Wrap THEN 0 ELSE Trigger + 1
    BY <1>2, <2>1
  <2> QED
    BY <1>1, <2>1, <2>2, <2>3
<1> QED
  BY <1>3, <1>4, <1>5, <1>6 DEF E!Next

LEMMA EventSafe == EventIInv => EventsShown
<1> SUFFICES ASSUME EventIInv PROVE EventsShown
  OBVIOUS
<1> USE DEF EventIInv, EventTypes, Ahead
<1>1. Wrap \in Nat /\ Wrap > 0
  BY BlocksAssumption
<1>2. CASE SingleShot
  BY <1>2 DEF EventsShown, E!EventsShown
<1>3. CASE ~SingleShot
  <2>1. counter \in 0..(Wrap - 1) /\ owed \in 0..(Wrap - 1)
    OBVIOUS
  <2>2. (counter + owed) % Wrap =
          IF counter + owed < Wrap THEN counter + owed ELSE (counter + owed) - Wrap
    BY <2>1, WrapSum
  <2>3. (counter + owed) % Wrap = Trigger
    BY <1>1, <1>3, <2>2
  <2> QED
    BY <1>3, <2>3 DEF EventsShown, E!EventsShown
<1> QED
  BY <1>2, <1>3

-----------------------------------------------------------------------------
(* The forcing of variables in the RtIPC blocks.                           *)

ForceIInv ==
  /\ Rx \in BOOLEAN /\ ForceOutput \in BOOLEAN /\ ForceWork \in BOOLEAN
  /\ forced \in BOOLEAN /\ written \in BOOLEAN
  /\ place \in {"begin", "copy", "address"}
  /\ place = "address" /\ ~written => ForceWork = ForceOutput
  /\ place = "begin" /\ (Rx => ~written) => forced = ForceWork

LEMMA ForceInit == F!Init => ForceIInv
  BY DEF F!Init, ForceIInv

LEMMA ForceStep ==
  ASSUME ForceIInv, F!Next
  PROVE  ForceIInv'
<1> USE DEF ForceIInv, F!At
<1>1. CASE F!Compare
  BY <1>1 DEF F!Compare
<1>2. CASE F!Copy
  BY <1>2 DEF F!Copy
<1>3. CASE F!SetAddr
  BY <1>3 DEF F!SetAddr, F!RxTest, F!TxTest
<1>4. CASE F!Download
  <2>1. /\ ForceOutput' = ~ForceOutput /\ UNCHANGED <<Rx, ForceWork, forced, place>>
    BY <1>4 DEF F!Download
  <2>2. written' = (written \/ place = "address")
    BY <1>4 DEF F!Download
  <2>3. written' \in BOOLEAN /\ (place = "address" => written')
        /\ (place # "address" => written' = written)
    BY <2>2
  <2> QED
    BY <2>1, <2>3
<1> QED
  BY <1>1, <1>2, <1>3, <1>4 DEF F!Next

LEMMA ForceSafe == ForceIInv => ForceFollows
  BY DEF ForceIInv, ForceFollows, F!ForceFollows

-----------------------------------------------------------------------------
(* The message block: without a message its delay is the time that the     *)
(* condition has lasted, which is Confirm at most.                         *)

MessageIInv ==
  /\ Invert \in BOOLEAN /\ ExtReset \in BOOLEAN /\ y \in BOOLEAN
  /\ told = y
  /\ delay \in Nat /\ on \in 0..(Confirm + 1)
  /\ ~y => delay = on /\ on <= Confirm
  /\ y /\ ~ExtReset => on > Confirm

LEMMA MessageInit == M!Init => MessageIInv
<1>1. Confirm \in Nat
  BY BlocksAssumption
<1>2. 0 \in 0..(Confirm + 1)
  BY <1>1
<1>3. M!Init => told = y /\ told \in BOOLEAN /\ y \in BOOLEAN
  BY Zenon DEF M!Init
<1> QED
  BY <1>1, <1>2, <1>3 DEF M!Init, MessageIInv

\* What a cycle does to the message.
MessageAction ==
  /\ on' > Confirm => y'
  /\ y' /\ ~ExtReset => on' > Confirm
  /\ told' = y'
  /\ ~told /\ told' => on <= Confirm /\ on' = Confirm + 1

LEMMA MessageStep ==
  ASSUME MessageIInv, M!Next
  PROVE  MessageIInv' /\ MessageAction
<1> USE DEF MessageIInv, MessageAction
<1>1. Confirm \in Nat
  BY BlocksAssumption
<1>2. PICK in1, enable, reset \in BOOLEAN : M!Outputs(in1, enable, reset)
  BY DEF M!Next
<1>3. UNCHANGED <<Invert, ExtReset>>
  BY <1>2 DEF M!Outputs
<1>4. CASE in1 # Invert /\ enable
  <2>1. M!Raise /\ on' = IF on > Confirm THEN on ELSE on + 1
    BY <1>2, <1>4 DEF M!Outputs
  <2>2. CASE y
    BY <1>1, <1>3, <2>1, <2>2 DEF M!Raise
  <2>3. CASE ~y
    <3>1. /\ delay' = delay + 1
          /\ IF delay + 1 > Confirm THEN told' = TRUE /\ y' = TRUE
                                    ELSE UNCHANGED <<y, told>>
      BY <2>1, <2>3 DEF M!Raise, M!EventSet
    <3>2. on \in 0..Confirm /\ delay = on /\ on' = on + 1
      BY <1>1, <2>1, <2>3
    <3>3. CASE on = Confirm
      <4>1. told' = TRUE /\ y' = TRUE /\ delay' = Confirm + 1 /\ on' = Confirm + 1
        BY <1>1, <3>1, <3>2, <3>3
      <4>2. told' = y' /\ y' /\ y' \in BOOLEAN
        BY <4>1, Zenon
      <4> QED
        BY <1>1, <1>3, <3>2, <3>3, <4>1, <4>2
    <3>4. CASE on < Confirm
      BY <1>1, <1>3, <2>3, <3>1, <3>2, <3>4
    <3> QED
      BY <1>1, <3>2, <3>3, <3>4
  <2> QED
    BY <2>2, <2>3
<1>5. CASE ~(in1 # Invert /\ enable)
  <2>1. /\ on' = 0 /\ delay' = 0
        /\ IF y /\ (ExtReset => reset) THEN told' = FALSE /\ y' = FALSE
                                       ELSE UNCHANGED <<y, told>>
    BY <1>2, <1>5 DEF M!Outputs, M!Clear, M!DelayReset, M!EventSet
  <2>2. on' \in 0..(Confirm + 1) /\ on' = delay' /\ ~(on' > Confirm)
    BY <1>1, <2>1
  <2>3. CASE y /\ (ExtReset => reset)
    <3>1. told' = y' /\ ~y' /\ y' \in BOOLEAN
      BY <2>1, <2>3, Zenon
    <3> QED
      BY <1>1, <1>3, <2>1, <2>2, <3>1
  <2>4. CASE ~(y /\ (ExtReset => reset))
    BY <1>1, <1>3, <2>1, <2>2, <2>4
  <2> QED
    BY <2>3, <2>4
<1> QED
  BY <1>4, <1>5

-----------------------------------------------------------------------------
(* The reset input of a Master State block: ResetState is the whole part   *)
(* of the level of the last cycle.                                         *)

StateIInv ==
  /\ hasReset \in BOOLEAN
  /\ in \in Int /\ State \in Int /\ resets \in {0, 1}
  /\ hasReset => State = in \div 2
  /\ ~hasReset => in = 0

LEMMA StateInit == S!Init => StateIInv
  BY DEF S!Init, StateIInv

\* What a cycle does to the master.
StateAction == in % 2 = 0 => (resets' # resets <=> in # 0 /\ in' # in)

LEMMA StateStep ==
  ASSUME StateIInv, S!Next
  PROVE  StateIInv' /\ StateAction
<1> USE DEF StateIInv, StateAction
<1>1. UNCHANGED hasReset /\ S!MasterReset
  BY DEF S!Next, S!Outputs
<1>2. CASE ~hasReset
  BY <1>1, <1>2 DEF S!MasterReset
<1>3. CASE hasReset
  <2>1. in' \in Int
    <3>1. Levels \subseteq Nat
      BY BlocksAssumption
    <3>2. in' \in Levels
      BY <1>1, <1>3, Zenon DEF S!MasterReset
    <3> QED
      BY <3>1, <3>2
  <2>2. /\ resets' = IF in' # 2 * State /\ State # 0 THEN 1 - resets ELSE resets
        /\ State' = in' \div 2
    BY <1>1, <1>3 DEF S!MasterReset, S!Resets
  <2>3. StateIInv'
    BY <1>1, <1>3, <2>1, <2>2
  <2>4. resets' # resets <=> in' # 2 * State /\ State # 0
    BY <2>2
  <2>5. in % 2 = 0 => 2 * State = in /\ (State = 0 <=> in = 0)
    BY <1>3
  <2> QED
    BY <2>3, <2>4, <2>5
<1> QED
  BY <1>2, <1>3

-----------------------------------------------------------------------------
(* The Find Index block.                                                   *)

\* What the loop keeps from turn to turn.
LoopState == [i : Int, count : Int, index : Int, value : Elements]

LEMMA EqualParts ==
  ASSUME NEW s \in LoopState, NEW x \in Elements
  PROVE  LET e == X!Equal(s, x)
         IN  /\ e \in LoopState
             /\ e.i = s.i /\ e.index = s.index /\ e.value = s.value
             /\ e.count = IF x = s.value THEN s.count + 1 ELSE s.count
<1>1. s.count \in Int /\ s.count + 1 \in Int
  BY DEF LoopState
<1>2. [s EXCEPT !.count = @ + 1] \in LoopState
  BY <1>1 DEF LoopState
<1> QED
  BY <1>2 DEF X!Equal, LoopState

LEMMA FoundParts ==
  ASSUME NEW s \in LoopState, NEW x \in Elements, NEW r
  PROVE  LET f == X!Found(s, x, r)
         IN  /\ f \in LoopState
             /\ f.i = s.i /\ f.index = s.i /\ f.value = x
             /\ f.count = IF r THEN 1 ELSE s.count
<1> DEFINE n == IF r THEN 1 ELSE s.count
<1>1. n \in Int /\ s.i \in Int
  BY DEF LoopState
<1>2. X!Found(s, x, r) = [s EXCEPT !.count = n, !.index = s.i, !.value = x]
  BY DEF X!Found
<1>3. X!Found(s, x, r) \in LoopState
  <2> HIDE DEF n
  <2>1. [s EXCEPT !.count = n, !.index = s.i, !.value = x] \in LoopState
    BY <1>1 DEF LoopState
  <2> QED
    BY <1>2, <2>1
<1> QED
  BY <1>3 DEF X!Found, LoopState

LEMMA TurnParts ==
  ASSUME NEW s \in LoopState, NEW x \in Elements, NEW r
  PROVE  LET b == X!Body(s, x, r)
         IN  /\ b \in LoopState
             /\ b.i = s.i + 1
             /\ b.value = IF X!Cmp(x, s.value) THEN x ELSE s.value
             /\ b.index = IF X!Cmp(x, s.value) THEN s.i ELSE s.index
             /\ b.count = IF X!Cmp(x, s.value) /\ r THEN 1
                          ELSE IF x = s.value THEN s.count + 1 ELSE s.count
<1> DEFINE e == X!Equal(s, x)
           f == IF X!Cmp(x, e.value) THEN X!Found(e, x, r) ELSE e
<1>1. /\ e \in LoopState
      /\ e.i = s.i /\ e.index = s.index /\ e.value = s.value
      /\ e.count = IF x = s.value THEN s.count + 1 ELSE s.count
  BY EqualParts
<1> HIDE DEF e
<1>2. /\ f \in LoopState
      /\ f.i = s.i
      /\ f.value = IF X!Cmp(x, s.value) THEN x ELSE s.value
      /\ f.index = IF X!Cmp(x, s.value) THEN s.i ELSE s.index
      /\ f.count = IF X!Cmp(x, s.value) /\ r THEN 1 ELSE e.count
  <2>1. CASE X!Cmp(x, s.value)
    <3>1. f = X!Found(e, x, r)
      BY <1>1, <2>1
    <3> HIDE DEF f
    <3> QED
      BY <1>1, <2>1, <3>1, FoundParts
  <2>2. CASE ~X!Cmp(x, s.value)
    <3>1. f = e
      BY <1>1, <2>2
    <3> HIDE DEF f
    <3> QED
      BY <1>1, <2>2, <3>1
  <2> QED
    BY <2>1, <2>2
<1>3. X!Body(s, x, r) = [f EXCEPT !.i = @ + 1]
  BY DEF X!Body, e
<1> HIDE DEF f
<1>4. f.i \in Int /\ f.i + 1 \in Int
  BY <1>2 DEF LoopState
<1>5. X!Body(s, x, r) \in LoopState
  BY <1>2, <1>3, <1>4 DEF LoopState
<1>6. LET b == X!Body(s, x, r)
      IN  /\ b.i = f.i + 1 /\ b.value = f.value
          /\ b.index = f.index /\ b.count = f.count
  BY <1>2, <1>3 DEF LoopState
<1> QED
  BY <1>1, <1>2, <1>5, <1>6

(* The loops of program and simulation take the same turns: the test for a *)
(* new value is left out only where the comparison is strict.              *)
LEMMA SameTurn ==
  ASSUME FindType \in X!FindTypes, NEW s \in LoopState, NEW x \in Elements
  PROVE  X!ProgramBody(s, x) = X!SimulationBody(s, x)
<1> DEFINE e == X!Equal(s, x)
<1>1. s.value \in Int /\ x \in Int /\ e.value = s.value
  BY EqualParts, BlocksAssumption DEF LoopState
<1>2. X!Cmp(x, s.value) => (X!Restarts(s, x) <=> x # s.value)
  <2> USE DEF X!FirstMin, X!LastMin, X!FirstMax, X!LastMax
  <2>1. CASE FindType \in {X!LastMin, X!LastMax}
    BY <2>1 DEF X!Restarts
  <2>2. CASE FindType = X!FirstMin
    <3>1. X!Cmp(x, s.value) => x < s.value
      BY <2>2 DEF X!Cmp
    <3>2. X!Restarts(s, x)
      BY <2>2 DEF X!Restarts
    <3> QED
      BY <1>1, <3>1, <3>2
  <2>3. CASE FindType = X!FirstMax
    <3>1. X!Cmp(x, s.value) => x > s.value
      BY <2>3 DEF X!Cmp
    <3>2. X!Restarts(s, x)
      BY <2>3 DEF X!Restarts
    <3> QED
      BY <1>1, <3>1, <3>2
  <2> QED
    BY <2>1, <2>2, <2>3 DEF X!FindTypes
<1>3. CASE X!Cmp(x, s.value)
  <2>1. X!Found(e, x, X!Restarts(s, x)) = X!Found(e, x, x # s.value)
    BY <1>2, <1>3 DEF X!Found
  <2> QED
    BY <2>1 DEF X!ProgramBody, X!SimulationBody, X!Body
<1>4. CASE ~X!Cmp(x, s.value)
  BY <1>1, <1>4 DEF X!ProgramBody, X!SimulationBody, X!Body
<1> QED
  BY <1>3, <1>4

\* The values of the loops after each turn.
ProgramTurns(v) ==
  LET turn[i \in 0..Len(v)] ==
        IF i = 0 THEN X!Start(v) ELSE X!ProgramBody(turn[i - 1], v[i])
  IN  turn

SimulationTurns(v) ==
  LET turn[i \in 0..Len(v)] ==
        IF i = 0 THEN X!Start(v) ELSE X!SimulationBody(turn[i - 1], v[i])
  IN  turn

Vector(v) == v \in Seq(Elements) /\ Len(v) \in Nat \ {0}

LEMMA StartState ==
  ASSUME NEW v, Vector(v)
  PROVE  X!Start(v) \in LoopState
<1>1. v[1] \in Elements
  BY ElementOfSeq DEF Vector
<1> QED
  BY <1>1 DEF X!Start, LoopState

LEMMA SimulationUnrolled ==
  ASSUME NEW v, Vector(v)
  PROVE  /\ SimulationTurns(v)[0] = X!Start(v)
         /\ \A j \in 1..Len(v) :
              SimulationTurns(v)[j] =
                X!SimulationBody(SimulationTurns(v)[j - 1], v[j])
         /\ \A j \in 0..Len(v) : SimulationTurns(v)[j] \in LoopState
<1> DEFINE n == Len(v)
           step == [s \in LoopState |->
                      [x \in Elements |-> X!SimulationBody(s, x)]]
           Takes(f) == f = [j \in 0..n |-> IF j = 0 THEN X!Start(v)
                              ELSE X!SimulationBody(f[j - 1], v[j])]
<1>1. n \in Nat /\ \A j \in 1..n : v[j] \in Elements
  BY ElementOfSeq DEF Vector
<1>2. \A s \in LoopState, x \in Elements : X!SimulationBody(s, x) \in LoopState
  BY TurnParts DEF X!SimulationBody
<1>3. step \in [LoopState -> [Elements -> LoopState]]
  BY <1>2
<1>4. X!Start(v) \in LoopState
  BY StartState
<1>5. PICK f : /\ f[0] = X!Start(v)
               /\ \A j \in 0..n : f[j] \in LoopState
               /\ \A j \in 1..n : f[j] = step[f[j - 1]][v[j]]
  <2>1. \A s \in LoopState, x \in Elements : step[s][x] \in LoopState
    BY <1>3
  <2> HIDE DEF step, n
  <2>2. TypedLoop(n, LoopState, Elements, X!Start(v), v, step)
    BY <1>1, <1>4, <2>1 DEF TypedLoop
  <2>3. \E f : LoopValues(f, n, LoopState, X!Start(v), v, step)
    BY <2>2, Iterated
  <2> QED
    BY <2>3 DEF LoopValues
<1> DEFINE g == [j \in 0..n |-> f[j]]
<1>6. Takes(g)
  <2>1. ASSUME NEW j \in 0..n
        PROVE  g[j] = IF j = 0 THEN X!Start(v)
                      ELSE X!SimulationBody(g[j - 1], v[j])
    <3>1. CASE j = 0
      BY <1>5, <3>1
    <3>2. CASE j # 0
      <4>1. j - 1 \in 0..n /\ j \in 1..n
        BY <1>1, <3>2
      <4>2. f[j - 1] \in LoopState /\ v[j] \in Elements
        BY <1>1, <1>5, <4>1
      <4>3. f[j] = step[f[j - 1]][v[j]]
        <5> HIDE DEF step
        <5> QED
          BY <1>5, <4>1
      <4> QED
        BY <3>2, <4>1, <4>2, <4>3
    <3> QED
      BY <3>1, <3>2
  <2> QED
    BY <2>1
<1>7. Takes(SimulationTurns(v))
  <2>1. \E h : Takes(h)
    <3> HIDE DEF Takes, g
    <3> QED
      BY <1>6, Zenon
  <2> QED
    BY <2>1, Zenon DEF SimulationTurns
<1>8. SimulationTurns(v)[0] = X!Start(v)
  BY <1>1, <1>7
<1>9. \A j \in 1..n : SimulationTurns(v)[j] =
                        X!SimulationBody(SimulationTurns(v)[j - 1], v[j])
  BY <1>1, <1>7
<1> DEFINE Typed == {j \in 0..n : SimulationTurns(v)[j] \in LoopState}
<1>10. 0 \in Typed
  BY <1>1, <1>4, <1>8
<1>11. ASSUME NEW k \in 0..(n - 1), k \in Typed PROVE k + 1 \in Typed
  <2>1. k + 1 \in 1..n /\ (k + 1) - 1 = k
    BY <1>1
  <2>2. SimulationTurns(v)[k + 1] = X!SimulationBody(SimulationTurns(v)[k], v[k + 1])
    BY <1>9, <2>1
  <2> QED
    BY <1>1, <1>2, <1>11, <2>1, <2>2
<1> HIDE DEF Typed
<1>12. \A j \in 0..n : j \in Typed
  BY <1>1, <1>10, <1>11, Turns
<1> QED
  BY <1>8, <1>9, <1>12 DEF Typed

LEMMA ProgramUnrolled ==
  ASSUME FindType \in X!FindTypes, NEW v, Vector(v)
  PROVE  \A j \in 0..Len(v) : ProgramTurns(v)[j] = SimulationTurns(v)[j]
<1> DEFINE n == Len(v)
           f == SimulationTurns(v)
           Takes(g) == g = [j \in 0..n |-> IF j = 0 THEN X!Start(v)
                              ELSE X!ProgramBody(g[j - 1], v[j])]
<1>1. n \in Nat /\ \A j \in 1..n : v[j] \in Elements
  BY ElementOfSeq DEF Vector
<1>2. /\ f[0] = X!Start(v)
      /\ \A j \in 1..n : f[j] = X!SimulationBody(f[j - 1], v[j])
      /\ \A j \in 0..n : f[j] \in LoopState
  BY SimulationUnrolled
<1> HIDE DEF f
<1>3. Takes([j \in 0..n |-> f[j]])
  <2> DEFINE g == [j \in 0..n |-> f[j]]
  <2>1. ASSUME NEW j \in 0..n
        PROVE  g[j] = IF j = 0 THEN X!Start(v)
                      ELSE X!ProgramBody(g[j - 1], v[j])
    <3>1. CASE j = 0
      BY <1>2, <3>1
    <3>2. CASE j # 0
      <4>1. j - 1 \in 0..n /\ j \in 1..n
        BY <1>1, <3>2
      <4>2. f[j] = X!SimulationBody(f[j - 1], v[j])
        BY <1>2, <4>1
      <4>3. X!ProgramBody(f[j - 1], v[j]) = X!SimulationBody(f[j - 1], v[j])
        BY <1>1, <1>2, <4>1, SameTurn
      <4> QED
        BY <3>2, <4>1, <4>2, <4>3
    <3> QED
      BY <3>1, <3>2
  <2> QED
    BY <2>1
<1>4. Takes(ProgramTurns(v))
  <2>1. \E g : Takes(g)
    <3> HIDE DEF Takes
    <3> QED
      BY <1>3, Zenon
  <2> QED
    BY <2>1, Zenon DEF ProgramTurns
<1> DEFINE Same == {j \in 0..n : ProgramTurns(v)[j] = f[j]}
<1>5. 0 \in Same
  BY <1>1, <1>2, <1>4
<1>6. ASSUME NEW k \in 0..(n - 1), k \in Same PROVE k + 1 \in Same
  <2>1. k + 1 \in 1..n /\ (k + 1) - 1 = k /\ k \in 0..n /\ k + 1 \in 0..n
    BY <1>1
  <2>2. ProgramTurns(v)[k + 1] = X!ProgramBody(ProgramTurns(v)[k], v[k + 1])
    BY <1>4, <2>1
  <2>3. f[k + 1] = X!SimulationBody(f[k], v[k + 1])
    BY <1>2, <2>1
  <2>4. X!ProgramBody(f[k], v[k + 1]) = X!SimulationBody(f[k], v[k + 1])
    BY <1>1, <1>2, <2>1, SameTurn
  <2> QED
    BY <1>6, <2>1, <2>2, <2>3, <2>4
<1> HIDE DEF Same
<1>7. \A j \in 0..n : j \in Same
  BY <1>1, <1>5, <1>6, Turns
<1> QED
  BY <1>7 DEF Same, f

\* Value a is no worse than b.
AsGood(a, b) ==
  IF FindType \in {X!FirstMin, X!LastMin} THEN a <= b ELSE a >= b

\* The places of value x among the first k elements, from 0.
Hits(v, k, x) == {i \in 0..(k - 1) : v[i + 1] = x}

(* The loop invariant: after k turns the loop has the extreme of the first *)
(* k elements, its first or last place and the number of its places.       *)
Found(v, k, s) ==
  /\ s \in LoopState
  /\ s.i = k
  /\ s.index \in 0..k /\ s.index + 1 \in 1..Len(v)
  /\ s.value = v[s.index + 1]
  /\ \A i \in 1..k : AsGood(s.value, v[i])
  /\ \A i \in Hits(v, k, s.value) :
       IF FindType \in {X!FirstMin, X!FirstMax}
       THEN s.index <= i ELSE s.index >= i
  /\ s.count = Cardinality(Hits(v, k, s.value))

(* The comparison finds an element that is better, or as good if the last  *)
(* place is looked for.                                                    *)
LEMMA Compared ==
  ASSUME FindType \in X!FindTypes, NEW a \in Int, NEW b \in Int
  PROVE  /\ X!Cmp(a, b) => AsGood(a, b)
         /\ ~X!Cmp(a, b) => AsGood(b, a)
         /\ FindType \in {X!FirstMin, X!FirstMax} /\ X!Cmp(a, b) => a # b
         /\ FindType \notin {X!FirstMin, X!FirstMax} /\ a = b => X!Cmp(a, b)
         /\ AsGood(a, b) /\ AsGood(b, a) => a = b
         /\ \A c \in Int : AsGood(a, b) /\ AsGood(b, c) => AsGood(a, c)
<1> USE DEF X!FirstMin, X!LastMin, X!FirstMax, X!LastMax, AsGood
<1>1. CASE FindType = X!FirstMin
  <2>1. X!Cmp(a, b) <=> a < b
    BY <1>1 DEF X!Cmp
  <2> QED
    BY <1>1, <2>1
<1>2. CASE FindType = X!LastMin
  <2>1. X!Cmp(a, b) <=> a <= b
    BY <1>2 DEF X!Cmp
  <2> QED
    BY <1>2, <2>1
<1>3. CASE FindType = X!FirstMax
  <2>1. X!Cmp(a, b) <=> a > b
    BY <1>3 DEF X!Cmp
  <2> QED
    BY <1>3, <2>1
<1>4. CASE FindType = X!LastMax
  <2>1. X!Cmp(a, b) <=> a >= b
    BY <1>4 DEF X!Cmp
  <2> QED
    BY <1>4, <2>1
<1> QED
  BY <1>1, <1>2, <1>3, <1>4 DEF X!FindTypes

LEMMA HitsFinite ==
  ASSUME NEW v, NEW k \in Nat, NEW x
  PROVE  IsFiniteSet(Hits(v, k, x)) /\ Cardinality(Hits(v, k, x)) \in Nat
<1>1. IsFiniteSet(0..(k - 1))
  BY FS_Interval
<1>2. Hits(v, k, x) \in SUBSET (0..(k - 1))
  BY DEF Hits
<1>3. IsFiniteSet(Hits(v, k, x))
  BY <1>1, <1>2, FS_Subset
<1> QED
  BY <1>3, FS_CardinalityType

LEMMA NextHits ==
  ASSUME NEW v, NEW k \in Nat, NEW x
  PROVE  Hits(v, k + 1, x) = IF v[k + 1] = x THEN Hits(v, k, x) \cup {k}
                             ELSE Hits(v, k, x)
<1>1. 0..((k + 1) - 1) = 0..(k - 1) \cup {k}
  OBVIOUS
<1> QED
  BY <1>1 DEF Hits

LEMMA FoundTurn ==
  ASSUME FindType \in X!FindTypes, NEW v, Vector(v),
         NEW k \in 0..(Len(v) - 1), NEW s, Found(v, k, s)
  PROVE  Found(v, k + 1, X!SimulationBody(s, v[k + 1]))
<1> DEFINE x == v[k + 1]
           b == X!SimulationBody(s, x)
           n == Len(v)
           h == Hits(v, k, s.value)
<1>1. /\ k \in Nat /\ n \in Nat /\ k + 1 \in 1..n
      /\ \A j \in 1..n : v[j] \in Elements /\ v[j] \in Int
      /\ s \in LoopState /\ s.value \in Int /\ s.index \in Int
      /\ s.count \in Int /\ s.i = k
  <2>1. k \in Nat /\ n \in Nat /\ k + 1 \in 1..n
    BY DEF Vector
  <2>2. \A j \in 1..n : v[j] \in Elements /\ v[j] \in Int
    BY ElementOfSeq, BlocksAssumption DEF Vector
  <2>3. s \in LoopState /\ s.i = k
    BY DEF Found
  <2>4. s.value \in Int /\ s.index \in Int /\ s.count \in Int
    BY <2>3, BlocksAssumption DEF LoopState
  <2> QED
    BY <2>1, <2>2, <2>3, <2>4
<1>2. /\ b \in LoopState
      /\ b.i = s.i + 1
      /\ b.value = IF X!Cmp(x, s.value) THEN x ELSE s.value
      /\ b.index = IF X!Cmp(x, s.value) THEN s.i ELSE s.index
      /\ b.count = IF X!Cmp(x, s.value) /\ x # s.value THEN 1
                   ELSE IF x = s.value THEN s.count + 1 ELSE s.count
  <2> DEFINE r == x # s.value
  <2>1. b = X!Body(s, x, r)
    BY DEF X!SimulationBody
  <2>2. x \in Elements /\ s \in LoopState
    BY <1>1
  <2> HIDE DEF x, b, r
  <2>3. /\ b \in LoopState
        /\ b.i = s.i + 1
        /\ b.value = IF X!Cmp(x, s.value) THEN x ELSE s.value
        /\ b.index = IF X!Cmp(x, s.value) THEN s.i ELSE s.index
        /\ b.count = IF X!Cmp(x, s.value) /\ r THEN 1
                     ELSE IF x = s.value THEN s.count + 1 ELSE s.count
    <3>1. LET c == X!Body(s, x, r)
          IN  /\ c \in LoopState
              /\ c.i = s.i + 1
              /\ c.value = IF X!Cmp(x, s.value) THEN x ELSE s.value
              /\ c.index = IF X!Cmp(x, s.value) THEN s.i ELSE s.index
              /\ c.count = IF X!Cmp(x, s.value) /\ r THEN 1
                           ELSE IF x = s.value THEN s.count + 1 ELSE s.count
      BY <2>2, TurnParts, Zenon
    <3> QED
      BY <2>1, <3>1
  <2> QED
    BY <2>3 DEF r
<1> HIDE DEF b
<1>3. /\ IsFiniteSet(h) /\ Cardinality(h) \in Nat /\ k \notin h
      /\ h \subseteq 0..(k - 1)
  <2>1. IsFiniteSet(h) /\ Cardinality(h) \in Nat
    BY <1>1, HitsFinite
  <2>2. h \subseteq 0..(k - 1)
    BY DEF Hits
  <2> QED
    BY <1>1, <2>1, <2>2
<1>4. Cardinality(h \cup {k}) = Cardinality(h) + 1
  <2> HIDE DEF h
  <2> QED
    BY <1>3, FS_AddElement
<1>5. /\ X!Cmp(x, s.value) => AsGood(x, s.value)
      /\ ~X!Cmp(x, s.value) => AsGood(s.value, x)
      /\ FindType \in {X!FirstMin, X!FirstMax} /\ X!Cmp(x, s.value)
         => x # s.value
      /\ FindType \notin {X!FirstMin, X!FirstMax} /\ x = s.value
         => X!Cmp(x, s.value)
  BY <1>1, Compared
<1>6. ASSUME NEW i \in 1..(k + 1) PROVE AsGood(b.value, v[i])
  <2>1. v[i] \in Int /\ x \in Int
    BY <1>1
  <2>2. CASE i = k + 1
    <3>1. AsGood(x, x) /\ AsGood(s.value, s.value)
      BY <1>1 DEF AsGood
    <3> QED
      BY <1>2, <1>5, <2>2, <3>1
  <2>3. CASE i # k + 1
    <3>1. i \in 1..k
      BY <2>3
    <3>2. AsGood(s.value, v[i])
      BY <3>1 DEF Found
    <3>3. AsGood(x, s.value) => AsGood(x, v[i])
      BY <1>1, <2>1, <3>2, Compared
    <3> QED
      BY <1>2, <1>5, <3>2, <3>3
  <2> QED
    BY <2>2, <2>3
<1>7. b.i = k + 1
  BY <1>1, <1>2
<1>8. /\ b.index \in 0..(k + 1) /\ b.index + 1 \in 1..n
      /\ b.value = v[b.index + 1]
  <2>1. s.index \in 0..k /\ s.index + 1 \in 1..n /\ s.value = v[s.index + 1]
    BY DEF Found
  <2> QED
    BY <1>1, <1>2, <2>1
<1>9. /\ \A i \in h : IF FindType \in {X!FirstMin, X!FirstMax}
                      THEN s.index <= i ELSE s.index >= i
      /\ s.count = Cardinality(h) /\ s.index \in 0..k
  BY DEF Found
<1> DEFINE next == Hits(v, k + 1, b.value)
<1>10. next = IF x = b.value THEN Hits(v, k, b.value) \cup {k}
              ELSE Hits(v, k, b.value)
  BY <1>1, NextHits
<1>11. /\ b.count = Cardinality(next)
       /\ \A i \in next : IF FindType \in {X!FirstMin, X!FirstMax}
                           THEN b.index <= i ELSE b.index >= i
  <2>1. CASE x = s.value
    <3>1. b.value = s.value /\ b.count = s.count + 1
      BY <1>2, <2>1
    <3>2. next = h \cup {k}
      BY <1>10, <2>1, <3>1
    <3>3. b.index = IF FindType \in {X!FirstMin, X!FirstMax} THEN s.index ELSE k
      BY <1>1, <1>2, <1>5, <2>1
    <3>4. ASSUME NEW i \in h \cup {k}
          PROVE  IF FindType \in {X!FirstMin, X!FirstMax}
                 THEN b.index <= i ELSE b.index >= i
      BY <1>1, <1>3, <1>9, <3>3
    <3> HIDE DEF next, h, x
    <3> QED
      BY <1>4, <1>9, <3>1, <3>2, <3>4
  <2>2. CASE x # s.value /\ X!Cmp(x, s.value)
    <3>1. b.value = x /\ b.count = 1 /\ b.index = k
      BY <1>1, <1>2, <2>2
    <3>2. Hits(v, k, x) = {}
      <4> SUFFICES ASSUME NEW i \in Hits(v, k, x) PROVE FALSE
        OBVIOUS
      <4>1. i + 1 \in 1..k /\ v[i + 1] = x
        BY <1>1 DEF Hits
      <4>2. AsGood(s.value, x)
        BY <4>1 DEF Found
      <4>3. x \in Int
        BY <1>1
      <4> QED
        BY <1>1, <1>5, <2>2, <4>2, <4>3, Compared
    <3>3. next = {k}
      BY <1>10, <3>1, <3>2
    <3>4. Cardinality({k}) = 1
      BY FS_Singleton
    <3> HIDE DEF next, h, x
    <3> QED
      BY <1>1, <3>1, <3>3, <3>4
  <2>3. CASE x # s.value /\ ~X!Cmp(x, s.value)
    <3>1. b.value = s.value /\ b.count = s.count /\ b.index = s.index
      BY <1>2, <2>3
    <3>2. next = h
      BY <1>10, <2>3, <3>1
    <3> HIDE DEF next, h, x
    <3> QED
      BY <1>9, <3>1, <3>2
  <2> QED
    BY <2>1, <2>2, <2>3
<1> QED
  <2>1. Found(v, k + 1, b)
    BY <1>2, <1>6, <1>7, <1>8, <1>11 DEF Found
  <2> QED
    BY <2>1 DEF b

LEMMA FoundAtEnd ==
  ASSUME FindType \in X!FindTypes, NEW v, Vector(v)
  PROVE  Found(v, Len(v), SimulationTurns(v)[Len(v)])
<1> DEFINE n == Len(v)
           f == SimulationTurns(v)
           Right == {k \in 0..n : Found(v, k, f[k])}
<1>1. n \in Nat /\ n # 0 /\ v[1] \in Elements
  BY ElementOfSeq DEF Vector
<1>2. /\ f[0] = X!Start(v)
      /\ \A j \in 1..n : f[j] = X!SimulationBody(f[j - 1], v[j])
      /\ \A j \in 0..n : f[j] \in LoopState
  BY SimulationUnrolled
<1> HIDE DEF f
<1>3. 0 \in Right
  <2>1. Hits(v, 0, v[1]) = {}
    BY DEF Hits
  <2>2. Cardinality({}) = 0
    BY FS_EmptySet
  <2>3. /\ f[0] \in LoopState /\ f[0].i = 0 /\ f[0].index = 0
        /\ f[0].count = 0 /\ f[0].value = v[1]
    BY <1>1, <1>2 DEF X!Start
  <2>4. /\ f[0].index \in 0..0 /\ f[0].index + 1 \in 1..n
        /\ f[0].value = v[f[0].index + 1]
        /\ f[0].count = Cardinality(Hits(v, 0, f[0].value))
        /\ Hits(v, 0, f[0].value) = {}
    <3>1. f[0].value = v[f[0].index + 1]
      BY <2>3
    <3>2. Hits(v, 0, f[0].value) = {}
      BY <2>1, <2>3
    <3>3. f[0].count = Cardinality(Hits(v, 0, f[0].value))
      <4>1. Cardinality(Hits(v, 0, f[0].value)) = Cardinality({})
        BY <3>2, Zenon
      <4> QED
        BY <2>2, <2>3, <4>1
    <3>4. f[0].index \in 0..0 /\ f[0].index + 1 \in 1..n
      BY <1>1, <2>3
    <3> QED
      BY <3>1, <3>2, <3>3, <3>4
  <2>5. Found(v, 0, f[0])
    BY <2>3, <2>4 DEF Found
  <2> QED
    BY <1>1, <2>5
<1>4. ASSUME NEW k \in 0..(n - 1), k \in Right PROVE k + 1 \in Right
  <2>1. k + 1 \in 1..n /\ (k + 1) - 1 = k /\ k + 1 \in 0..n
    BY <1>1
  <2>2. f[k + 1] = X!SimulationBody(f[k], v[k + 1])
    BY <1>2, <2>1
  <2>3. Found(v, k + 1, f[k + 1])
    BY <1>4, <2>2, FoundTurn
  <2> QED
    BY <2>1, <2>3
<1> HIDE DEF Right
<1>5. \A k \in 0..n : k \in Right
  BY <1>1, <1>3, <1>4, Turns
<1>6. n \in Right
  BY <1>1, <1>5
<1> QED
  BY <1>6 DEF Right, f

\* The places of the extreme of v, from 0.
PlacesOf(v) ==
  {i - 1 : i \in {j \in 1..Len(v) : \A k \in 1..Len(v) : AsGood(v[j], v[k])}}

\* The outputs o are right for the vector v.
RightFor(v, o) ==
  /\ o.index \in PlacesOf(v)
  /\ \A i \in PlacesOf(v) : IF FindType \in {X!FirstMin, X!FirstMax}
                            THEN o.index <= i ELSE o.index >= i
  /\ o.value = v[o.index + 1]
  /\ o.count = IF Cardinality(PlacesOf(v)) = Len(v) THEN 0
               ELSE Cardinality(PlacesOf(v))

FindIInv ==
  /\ FindType \in X!FindTypes /\ u \in X!Vectors
  /\ program = simulation /\ RightFor(u, program)

LEMMA VectorsAreVectors ==
  ASSUME NEW v \in X!Vectors
  PROVE  Vector(v) /\ DOMAIN v = 1..Len(v)
<1>1. PICK n \in 1..MaxWidth : v \in [1..n -> Elements]
  BY DEF X!Vectors
<1>2. n \in Nat /\ n # 0
  BY BlocksAssumption
<1>3. v \in Seq(Elements)
  BY <1>1, <1>2, SeqDef
<1>4. Len(v) \in Nat /\ DOMAIN v = 1..Len(v)
  BY <1>3, LenProperties
<1>5. Len(v) # 0
  BY <1>1, <1>2, <1>4
<1> QED
  BY <1>3, <1>4, <1>5 DEF Vector

LEMMA OutputsRight ==
  ASSUME FindType \in X!FindTypes, NEW v \in X!Vectors
  PROVE  /\ X!ProgramOutputs(v) = X!mdlOutputs(v)
         /\ RightFor(v, X!mdlOutputs(v))
<1> DEFINE n == Len(v)
           s == SimulationTurns(v)[n]
           o == X!mdlOutputs(v)
<1>1. Vector(v) /\ n \in Nat /\ n # 0
  BY VectorsAreVectors DEF Vector
<1>2. o = X!Result(s, v)
  BY Zenon DEF X!mdlOutputs, SimulationTurns
<1>3. X!ProgramOutputs(v) = o
  <2>1. X!ProgramOutputs(v) = X!Result(ProgramTurns(v)[n], v)
    BY Zenon DEF X!ProgramOutputs, ProgramTurns
  <2>2. ProgramTurns(v)[n] = s
    BY <1>1, ProgramUnrolled
  <2> QED
    BY <1>2, <2>1, <2>2
<1>4. Found(v, n, s)
  BY <1>1, FoundAtEnd
<1> HIDE DEF s, o
<1>5. /\ o.index = s.index /\ o.value = s.value
      /\ o.count = IF s.count = n THEN 0 ELSE s.count
  BY <1>2 DEF X!Result
<1>6. \A i \in 1..n : v[i] \in Int
  BY <1>1, ElementOfSeq, BlocksAssumption DEF Vector
<1>7. PlacesOf(v) = Hits(v, n, s.value)
  <2>1. \A j \in 1..n : (\A i \in 1..n : AsGood(v[j], v[i])) <=> v[j] = s.value
    <3>1. /\ s.index + 1 \in 1..n /\ s.value = v[s.index + 1]
          /\ \A i \in 1..n : AsGood(s.value, v[i])
      BY <1>4 DEF Found
    <3>2. s.value \in Int
      BY <1>6, <3>1
    <3> TAKE j \in 1..n
    <3>3. ASSUME \A i \in 1..n : AsGood(v[j], v[i]) PROVE v[j] = s.value
      <4>1. AsGood(v[j], s.value) /\ AsGood(s.value, v[j])
        BY <3>1, <3>3
      <4> QED
        BY <1>1, <1>6, <3>2, <4>1, Compared
    <3>4. v[j] = s.value => \A i \in 1..n : AsGood(v[j], v[i])
      BY <3>1
    <3> QED
      BY <3>3, <3>4
  <2>2. PlacesOf(v) = {i - 1 : i \in {j \in 1..n : v[j] = s.value}}
    BY <2>1 DEF PlacesOf
  <2>3. \A i \in 0..(n - 1) : i + 1 \in 1..n /\ (i + 1) - 1 = i
    BY <1>1
  <2>4. \A j \in 1..n : j - 1 \in 0..(n - 1) /\ (j - 1) + 1 = j
    BY <1>1
  <2> QED
    BY <2>2, <2>3, <2>4 DEF Hits
<1>8. /\ s.index + 1 \in 1..n /\ s.value = v[s.index + 1] /\ s.index \in 0..n
      /\ \A i \in Hits(v, n, s.value) :
           IF FindType \in {X!FirstMin, X!FirstMax}
           THEN s.index <= i ELSE s.index >= i
      /\ s.count = Cardinality(Hits(v, n, s.value))
  BY <1>4 DEF Found
<1>9. s.index \in Hits(v, n, s.value)
  BY <1>1, <1>8 DEF Hits
<1>10. RightFor(v, o)
  <2>1. o.index \in PlacesOf(v) /\ o.value = v[o.index + 1]
    BY <1>5, <1>7, <1>8, <1>9
  <2>2. \A i \in PlacesOf(v) : IF FindType \in {X!FirstMin, X!FirstMax}
                               THEN o.index <= i ELSE o.index >= i
    BY <1>5, <1>7, <1>8
  <2>3. o.count = IF Cardinality(PlacesOf(v)) = n THEN 0
                  ELSE Cardinality(PlacesOf(v))
    BY <1>5, <1>7, <1>8
  <2> QED
    BY <2>1, <2>2, <2>3 DEF RightFor
<1> QED
  BY <1>3, <1>10 DEF o

LEMMA SameCardinality ==
  ASSUME NEW T
  PROVE  X!Cardinality(T) = Cardinality(T)
BY Zenon DEF X!Cardinality, Cardinality, X!IsFiniteSet, IsFiniteSet

LEMMA FindSafe == FindIInv => FindsExtreme
<1> SUFFICES ASSUME FindIInv PROVE FindsExtreme
  OBVIOUS
<1>1. DOMAIN u = 1..Len(u)
  BY VectorsAreVectors DEF FindIInv
<1>2. X!Places = PlacesOf(u)
  BY <1>1 DEF X!Places, PlacesOf, AsGood
<1>3. /\ program = simulation
      /\ program.index \in PlacesOf(u)
      /\ \A i \in PlacesOf(u) : IF FindType \in {X!FirstMin, X!FirstMax}
                                THEN program.index <= i ELSE program.index >= i
      /\ program.value = u[program.index + 1]
      /\ program.count = IF Cardinality(PlacesOf(u)) = Len(u) THEN 0
                         ELSE Cardinality(PlacesOf(u))
  BY DEF FindIInv, RightFor
<1> QED
  <2> DEFINE places == X!Places
  <2>1. /\ program = simulation
        /\ program.index \in places
        /\ \A i \in places : IF FindType \in {X!FirstMin, X!FirstMax}
                             THEN program.index <= i ELSE program.index >= i
        /\ program.value = u[program.index + 1]
        /\ program.count = IF Cardinality(places) = Len(u) THEN 0
                           ELSE Cardinality(places)
    <3> HIDE DEF places
    <3>1. places = PlacesOf(u)
      BY <1>2 DEF places
    <3> QED
      BY <1>3, <3>1
  <2> QED
    BY <2>1, SameCardinality DEF FindsExtreme, X!FindsExtreme

LEMMA FindInit == X!Init => FindIInv
<1> SUFFICES ASSUME X!Init PROVE FindIInv
  OBVIOUS
<1>1. u \in [{1} -> Elements] /\ FindType \in X!FindTypes /\ X!Shown(u)
  BY DEF X!Init
<1>2. {1} = 1..1 /\ 1 \in 1..MaxWidth
  BY BlocksAssumption
<1>3. u \in X!Vectors
  BY <1>1, <1>2 DEF X!Vectors
<1> QED
  BY <1>1, <1>3, OutputsRight DEF FindIInv, X!Shown

LEMMA FindStep == FindIInv /\ X!Next => FindIInv'
<1> SUFFICES ASSUME FindIInv, X!Next PROVE FindIInv'
  OBVIOUS
<1>1. /\ FindType' = FindType /\ FindType \in X!FindTypes
      /\ u' \in X!Vectors
      /\ program' = X!ProgramOutputs(u') /\ simulation' = X!mdlOutputs(u')
  BY DEF FindIInv, X!Next
<1>2. program' = simulation' /\ RightFor(u', program')
  BY <1>1, OutputsRight
<1>3. PlacesOf(u)' = PlacesOf(u')
  BY <1>1 DEF PlacesOf, AsGood
<1>4. RightFor(u, program)'
  BY <1>1, <1>2, <1>3 DEF RightFor
<1>5. (FindType \in X!FindTypes)' /\ (u \in X!Vectors)'
  BY <1>1 DEF X!FindTypes, X!Vectors
<1> QED
  BY <1>2, <1>4, <1>5 DEF FindIInv

-----------------------------------------------------------------------------
(* One block of a diagram takes a step, the others keep their values.      *)

BlocksIInv ==
  EventIInv /\ ForceIInv /\ MessageIInv /\ FindIInv /\ StateIInv

LEMMA BlocksInit == Init => BlocksIInv
  BY EventInit, ForceInit, MessageInit, FindInit, StateInit DEF Init, BlocksIInv

LEMMA EventStays == EventIInv /\ UNCHANGED eventVars => EventIInv'
  BY DEF EventIInv, EventTypes, Ahead, eventVars

LEMMA ForceStays == ForceIInv /\ UNCHANGED forceVars => ForceIInv'
  BY DEF ForceIInv, forceVars

LEMMA MessageStays == MessageIInv /\ UNCHANGED messageVars => MessageIInv'
  BY DEF MessageIInv, messageVars

LEMMA FindStays == FindIInv /\ UNCHANGED findVars => FindIInv'
<1> SUFFICES ASSUME FindIInv, UNCHANGED findVars PROVE FindIInv'
  OBVIOUS
<1>1. UNCHANGED <<FindType, u, program, simulation>>
  BY DEF findVars
<1>2. PlacesOf(u)' = PlacesOf(u)
  BY <1>1 DEF PlacesOf, AsGood
<1>3. RightFor(u, program)' = RightFor(u, program)
  BY <1>1, <1>2 DEF RightFor
<1> QED
  BY <1>1, <1>3 DEF FindIInv, X!FindTypes, X!Vectors

LEMMA StateStays == StateIInv /\ UNCHANGED stateVars => StateIInv'
  BY DEF StateIInv, stateVars

LEMMA BlocksStep == BlocksIInv /\ [Next]_vars => BlocksIInv'
<1> SUFFICES ASSUME BlocksIInv, [Next]_vars PROVE BlocksIInv'
  OBVIOUS
<1>1. E!Next \/ UNCHANGED eventVars
  BY DEF Next, vars
<1>2. F!Next \/ UNCHANGED forceVars
  BY DEF Next, vars
<1>3. M!Next \/ UNCHANGED messageVars
  BY DEF Next, vars
<1>4. S!Next \/ UNCHANGED stateVars
  BY DEF Next, vars
<1>5. X!Next \/ UNCHANGED findVars
  BY DEF Next, vars
<1>6. EventIInv'
  BY <1>1, EventStep, EventStays DEF BlocksIInv
<1>7. ForceIInv'
  BY <1>2, ForceStep, ForceStays DEF BlocksIInv
<1>8. MessageIInv'
  BY <1>3, MessageStep, MessageStays DEF BlocksIInv
<1>9. FindIInv'
  BY <1>5, FindStep, FindStays DEF BlocksIInv
<1>10. StateIInv'
  BY <1>4, StateStep, StateStays DEF BlocksIInv
<1> QED
  BY <1>6, <1>7, <1>8, <1>9, <1>10 DEF BlocksIInv

(* The inductive invariant of the diagram.                                 *)
THEOREM BlocksInvariance == Spec => []BlocksIInv
  BY BlocksInit, BlocksStep, PTL DEF Spec

(* However the host counts, and wherever Trigger wraps: a chain of events  *)
(* owes exactly the pulses that the host is ahead, and a single shot loses *)
(* an event only between the two reads of Trigger.                         *)
THEOREM EventsShownAlways == Spec => []EventsShown
<1>1. BlocksIInv => EventsShown
  BY EventSafe DEF BlocksIInv
<1> QED
  BY <1>1, BlocksInvariance, PTL

(* A block with nothing to do forces its variable exactly if the host      *)
(* wants it, but for the write between a receiving block's last two reads. *)
THEOREM ForceFollowsAlways == Spec => []ForceFollows
<1>1. BlocksIInv => ForceFollows
  BY ForceSafe DEF BlocksIInv
<1> QED
  BY <1>1, BlocksInvariance, PTL

(* For vectors of any width: program and simulation find the same extreme, *)
(* its first or last place and the number of its places, although only one *)
(* of them always tests for a new value.                                   *)
THEOREM FindsExtremeAlways == Spec => []FindsExtreme
<1>1. BlocksIInv => FindsExtreme
  BY FindSafe DEF BlocksIInv
<1> QED
  BY <1>1, BlocksInvariance, PTL

(* For every confirmation time: a message comes when its condition has     *)
(* lasted longer, once, and goes with it.                                  *)
THEOREM MessageConfirmedAlways == Spec => MessageConfirmed
<1>1. BlocksIInv /\ [Next]_vars => [MessageAction]_(M!vars)
  <2> SUFFICES ASSUME BlocksIInv, [Next]_vars PROVE [MessageAction]_(M!vars)
    OBVIOUS
  <2>1. M!Next \/ UNCHANGED messageVars
    BY DEF Next, vars
  <2>2. UNCHANGED messageVars => UNCHANGED M!vars
    BY DEF messageVars, M!vars
  <2> QED
    BY <2>1, <2>2, MessageStep DEF BlocksIInv
<1> QED
  BY <1>1, BlocksInvariance, PTL
     DEF Spec, MessageConfirmed, M!MessageConfirmed, MessageAction

(* For all levels: the master is reset once for each time its reset input  *)
(* leaves a whole level other than 0.                                      *)
THEOREM ResetOnReleaseAlways == Spec => ResetOnRelease
<1>1. BlocksIInv /\ [Next]_vars => [StateAction]_(S!vars)
  <2> SUFFICES ASSUME BlocksIInv, [Next]_vars PROVE [StateAction]_(S!vars)
    OBVIOUS
  <2>1. S!Next \/ UNCHANGED stateVars
    BY DEF Next, vars
  <2>2. UNCHANGED stateVars => UNCHANGED S!vars
    BY DEF stateVars, S!vars
  <2> QED
    BY <2>1, <2>2, StateStep DEF BlocksIInv
<1> QED
  BY <1>1, BlocksInvariance, PTL
     DEF Spec, ResetOnRelease, S!ResetOnRelease, StateAction
=============================================================================
