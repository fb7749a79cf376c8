------------------------ MODULE EcsRefinement_proofs ------------------------
(* ecs_receive() and ecs_send(), for any number of threads, masters,       *)
(* domains and words: the lock of a master and its reference clock         *)
(* decimation; that the calls are atomic at each master, with or without   *)
(* lost frames; and that an answer is there when it is fetched.            *)
EXTENDS EcsRefinement, TLAPS

(* A thread is between sem_wait and sem_post of a master exactly while the *)
(* master's semaphore is its own.                                          *)
LockHeld ==
  MT => \A m \in DOMAIN Master, th \in Threads :
          Inside(th, m) <=> lock[m] = th

\* The inductive invariant.
IInv == TypeOK /\ RefclkCadence /\ LockHeld

LEMMA MasterIndex ==
  /\ Len(Master) \in Nat \ {0}
  /\ DOMAIN Master = 1..Len(Master)
  BY ConfigAssumption

LEMMA MasterDecimation ==
  \A m \in DOMAIN Master : Master[m].refclk_trigger_init \in Nat
<1> DEFINE R == [fastest_tid : Nat, refclk_trigger_init : Nat]
<1>1. Master \in Seq(R)
  BY ConfigAssumption
<1>2. \A m \in DOMAIN Master : Master[m] \in R
  <2> HIDE DEF R
  <2> QED
    BY <1>1
<1> QED
  BY <1>2

LEMMA DomainLoopPlaces ==
  \A th, k, after : DomainLoop(th, k, after) \in {"domain", after}
  BY DEF DomainLoop

-----------------------------------------------------------------------------
(* Types.                                                                  *)

LEMMA StepPlaces ==
  ASSUME PlacesOK, NEW th \in Threads, Step(th)
  PROVE  PlacesOK'
<1> USE DomainLoopPlaces, ConfigAssumption DEF PlacesOK, Places, Go, NextDomain
<1>1. CASE SemWait(th)
  BY <1>1 DEF SemWait
<1>2. CASE MasterReceive(th)
  BY <1>2 DEF MasterReceive
<1>3. CASE DomainProcess(th)
  <2>1. \E x \in Places : pc' = [pc EXCEPT ![th] = x]
    BY <1>3 DEF DomainProcess
  <2> QED
    BY <1>3, <2>1 DEF DomainProcess
<1>4. CASE ConvertInput(th)
  <2>1. \E x \in Places : pc' = [pc EXCEPT ![th] = x]
    BY <1>4 DEF ConvertInput
  <2> QED
    BY <1>4, <2>1 DEF ConvertInput
<1>5. CASE DomainOutput(th)
  BY <1>5 DEF DomainOutput
<1>6. CASE ConvertOutput(th)
  BY <1>6 DEF ConvertOutput
<1>7. CASE DomainQueue(th)
  BY <1>7 DEF DomainQueue
<1>8. CASE MasterSend(th)
  BY <1>8 DEF MasterSend
<1>9. CASE SemPost(th)
  <2>1. at[th] \in 1..Len(Master) /\ 1 \in DOMAIN Master
    BY MasterIndex
  <2>2. CASE at[th] < Len(Master)
    <3>1. at[th] + 1 \in DOMAIN Master
      BY <2>1, <2>2, MasterIndex
    <3> QED
      BY <1>9, <2>2, <3>1 DEF SemPost
  <2>3. CASE ~(at[th] < Len(Master))
    BY <1>9, <2>1, <2>3 DEF SemPost
  <2> QED
    BY <2>2, <2>3
<1>10. CASE DomainSkip(th)
  <2>1. \E x \in Places : pc' = [pc EXCEPT ![th] = x]
    BY <1>10 DEF DomainSkip
  <2> QED
    BY <1>10, <2>1 DEF DomainSkip
<1> QED
  BY <1>1, <1>2, <1>3, <1>4, <1>5, <1>6, <1>7, <1>8, <1>9, <1>10 DEF Step

LEMMA StepLoops ==
  ASSUME LoopsOK, NEW th \in Threads, Step(th)
  PROVE  LoopsOK'
<1>0. /\ pos \in [Threads -> Nat] /\ dom \in [Threads -> Nat]
      /\ word \in [Threads -> 1..Words]
      /\ Words \in Nat /\ 1 \in 1..Words
      /\ word[th] < Words => word[th] + 1 \in 1..Words
  BY ConfigAssumption DEF LoopsOK
<1>1. CASE SemPost(th)
  <2> DEFINE next == (pos[th] % Len(Program[th])) + 1
  <2>1. /\ Len(Program[th]) \in Nat \ {0}
        /\ DOMAIN Program[th] = 1..Len(Program[th])
        /\ pos[th] \in Nat
    BY <1>0, ConfigAssumption
  <2>2. next \in DOMAIN Program[th] /\ next \in Nat
    BY <2>1
  <2>3. UNCHANGED <<dom, word>> /\ (pos' = pos \/ pos' = [pos EXCEPT ![th] = next])
    BY <1>1 DEF SemPost
  <2> HIDE DEF next
  <2>4. pos' \in [Threads -> Nat]
    BY <1>0, <2>2, <2>3
  <2>5. ASSUME NEW x \in Threads PROVE pos'[x] \in DOMAIN Program[x]
    BY <1>0, <2>2, <2>3 DEF LoopsOK
  <2> QED
    BY <1>0, <2>3, <2>4, <2>5 DEF LoopsOK
<1>2. CASE ~SemPost(th)
  <2>1. pos' = pos
    BY <1>2 DEF Step, SemWait, MasterReceive, DomainSkip, DomainProcess,
       ConvertInput, DomainOutput, ConvertOutput, DomainQueue, MasterSend
  <2>2. \/ dom' = dom
        \/ dom' = [dom EXCEPT ![th] = 1]
        \/ dom' = [dom EXCEPT ![th] = dom[th] + 1]
    BY <1>2 DEF Step, SemWait, MasterReceive, DomainSkip, DomainProcess,
       ConvertInput, DomainOutput, ConvertOutput, DomainQueue, MasterSend,
       NextDomain
  <2>3. \/ word' = word
        \/ word' = [word EXCEPT ![th] = 1]
        \/ word[th] < Words /\ word' = [word EXCEPT ![th] = word[th] + 1]
    BY <1>2 DEF Step, SemWait, MasterReceive, DomainSkip, DomainProcess,
       ConvertInput, DomainOutput, ConvertOutput, DomainQueue, MasterSend,
       NextDomain
  <2>4. dom' \in [Threads -> Nat]
    BY <1>0, <2>2
  <2>5. word' \in [Threads -> 1..Words]
    BY <1>0, <2>3
  <2> QED
    BY <2>1, <2>4, <2>5 DEF LoopsOK
<1> QED
  BY <1>1, <1>2

LEMMA StepLibrary ==
  ASSUME LibraryOK, NEW th \in Threads, Step(th)
  PROVE  LibraryOK'
<1> USE DEF LibraryOK, libVars
<1>1. CASE SemWait(th)
  BY <1>1 DEF SemWait
<1>2. CASE MasterReceive(th)
  BY <1>2 DEF MasterReceive
<1>3. CASE DomainProcess(th)
  BY <1>3 DEF DomainProcess
<1>4. CASE ConvertInput(th)
  BY <1>4 DEF ConvertInput
<1>5. CASE DomainOutput(th)
  BY <1>5 DEF DomainOutput
<1>6. CASE ConvertOutput(th)
  BY <1>6 DEF ConvertOutput
<1>7. CASE DomainQueue(th)
  BY <1>7 DEF DomainQueue
<1>8. CASE MasterSend(th)
  BY <1>8 DEF MasterSend
<1>9. CASE SemPost(th)
  BY <1>9 DEF SemPost
<1>10. CASE DomainSkip(th)
  BY <1>10 DEF DomainSkip
<1> QED
  BY <1>1, <1>2, <1>3, <1>4, <1>5, <1>6, <1>7, <1>8, <1>9, <1>10 DEF Step

LEMMA StepData ==
  ASSUME DataOK, LoopsOK, NEW th \in Threads, Step(th)
  PROVE  DataOK'
<1> USE DEF DataOK, libVars, imageVars
<1>0. 0 \in 0..(Values - 1) /\ Values - 1 \in Nat
  BY ConfigAssumption
<1>a. \A v \in 0..(Values - 1) : Uniform(v) \in Image
  BY DEF Uniform, Image
<1>1. CASE SemWait(th)
  BY <1>1 DEF SemWait
<1>2. CASE MasterReceive(th)
  <2>1. image' \in [DomainNames -> Image]
    BY <1>2, <1>a DEF MasterReceive
  <2> QED
    BY <1>2, <2>1 DEF MasterReceive
<1>3. CASE DomainProcess(th)
  BY <1>3 DEF DomainProcess
<1>4. CASE ConvertInput(th)
  <2> DEFINE d == D(th).name
  <2>1. input' = [input EXCEPT ![d] = [@ EXCEPT ![word[th]] = image[d][word[th]]]]
    BY <1>4 DEF ConvertInput
  <2>2. ASSUME d \in DomainNames
        PROVE  [input[d] EXCEPT ![word[th]] = image[d][word[th]]] \in Image
    <3>1. image[d] \in Image /\ input[d] \in Image /\ word[th] \in 1..Words
      BY <2>2 DEF LoopsOK
    <3>2. image[d][word[th]] \in 0..(Values - 1)
      BY <3>1 DEF Image
    <3> HIDE DEF d
    <3> QED
      BY <3>1, <3>2 DEF Image
  <2>3. input' \in [DomainNames -> Image]
    BY <2>1, <2>2
  <2> QED
    BY <1>4, <2>3 DEF ConvertInput
<1>5. CASE DomainOutput(th)
  BY <1>5 DEF DomainOutput
<1>6. CASE ConvertOutput(th)
  <2> DEFINE d == D(th).name
  <2>0. output[Tid(th)] \in 0..(Values - 1)
    BY DEF Tid, AllTids, LoopsOK
  <2>1. outimage' = [outimage EXCEPT ![d] = [@ EXCEPT ![word[th]] = output[Tid(th)]]]
    BY <1>6 DEF ConvertOutput
  <2>2. ASSUME d \in DomainNames
        PROVE  [outimage[d] EXCEPT ![word[th]] = output[Tid(th)]] \in Image
    BY <2>0, <2>2 DEF LoopsOK, Image
  <2>3. outimage' \in [DomainNames -> Image]
    BY <2>1, <2>2
  <2> QED
    BY <1>6, <2>3 DEF ConvertOutput
<1>7. CASE DomainQueue(th)
  BY <1>7 DEF DomainQueue
<1>8. CASE MasterSend(th)
  BY <1>8 DEF MasterSend
<1>9. CASE SemPost(th)
  <2>1. \A v \in 0..(Values - 1) : (v + 1) % Values \in 0..(Values - 1)
    BY ConfigAssumption
  <2>2. output' = output \/ output' = [output EXCEPT ![Tid(th)] = (@ + 1) % Values]
    BY <1>9 DEF SemPost
  <2>3. output' \in [AllTids -> 0..(Values - 1)]
    BY <2>1, <2>2
  <2> QED
    BY <1>9, <2>3 DEF SemPost
<1>10. CASE DomainSkip(th)
  BY <1>10 DEF DomainSkip
<1> QED
  BY <1>1, <1>2, <1>3, <1>4, <1>5, <1>6, <1>7, <1>8, <1>9, <1>10 DEF Step

-----------------------------------------------------------------------------
(* The reference clock.                                                    *)

\* Only the fastest task of the master at hand moves its decimation.
LEMMA StepRefclk ==
  ASSUME RefclkOK, RefclkCadence, PlacesOK, NEW th \in Threads, Step(th)
  PROVE  RefclkOK' /\ RefclkCadence'
<1>1. CASE UNCHANGED <<refclk_trigger, since>>
  BY <1>1 DEF RefclkOK, RefclkCadence
<1>2. CASE MasterSend(th)
  <2> DEFINE m == at[th]
             n == Master[m].refclk_trigger_init
  <2>1. m \in DOMAIN Master /\ n \in Nat
    BY MasterDecimation DEF PlacesOK
  <2>2. CASE UNCHANGED <<refclk_trigger, since>>
    BY <1>1, <2>2
  <2>3. CASE Master[m].fastest_tid = Tid(th) /\ n = 0
    <3>1. since[m] = -1
      BY <2>1, <2>3 DEF RefclkCadence
    <3>2. refclk_trigger' = [refclk_trigger EXCEPT ![m] = @]
      BY <1>2, <2>3 DEF MasterSend, Serves, Sync
    <3>3. since' = [since EXCEPT ![m] = @]
      BY <1>2, <2>3, <3>1 DEF MasterSend, Serves, Sync
    <3>4. UNCHANGED <<refclk_trigger, since>>
      BY <3>2, <3>3 DEF RefclkOK
    <3> QED
      BY <1>1, <3>4
  <2>4. CASE Master[m].fastest_tid = Tid(th) /\ n # 0
    <3> DEFINE t == refclk_trigger[m] - 1
    <3>1. refclk_trigger[m] \in 1..n
      BY <2>1, <2>4 DEF RefclkCadence
    <3>a. Sync(m) <=> t = 0
      BY <2>4, <3>1 DEF Sync
    <3>2. refclk_trigger' = [refclk_trigger EXCEPT ![m] = IF t = 0 THEN n ELSE t]
      BY <1>2, <2>4, <3>a DEF MasterSend, Serves
    <3>3. since' = [since EXCEPT ![m] =
                      IF t = 0 THEN 0 ELSE IF @ = -1 THEN @ ELSE @ + 1]
      BY <1>2, <2>4, <3>a DEF MasterSend, Serves
    <3>4. t # 0 => since[m] # -1 /\ since[m] + refclk_trigger[m] = n
      BY <2>1, <2>4, <3>1 DEF RefclkCadence
    <3>5. /\ refclk_trigger'[m] \in 1..n
          /\ since'[m] \in Nat
          /\ since'[m] + refclk_trigger'[m] = n
      BY <2>1, <3>1, <3>2, <3>3, <3>4 DEF RefclkOK
    <3>6. \A k \in DOMAIN Master \ {m} :
            refclk_trigger'[k] = refclk_trigger[k] /\ since'[k] = since[k]
      BY <3>2, <3>3 DEF RefclkOK
    <3>7. RefclkOK'
      BY <2>1, <3>1, <3>2, <3>3, <3>4 DEF RefclkOK
    <3>8. ASSUME NEW k \in DOMAIN Master
          PROVE  LET i == Master[k].refclk_trigger_init
                 IN  IF i = 0 THEN since'[k] = -1
                     ELSE /\ refclk_trigger'[k] \in 1..i
                          /\ IF since'[k] = -1 THEN refclk_trigger'[k] = 1
                             ELSE since'[k] + refclk_trigger'[k] = i
      <4>1. CASE k = m
        BY <2>4, <3>5, <4>1
      <4>2. CASE k # m
        BY <3>6, <4>2 DEF RefclkCadence
      <4> QED
        BY <4>1, <4>2
    <3> QED
      BY <3>7, <3>8 DEF RefclkCadence
  <2> QED
    BY <1>2, <2>2, <2>3, <2>4 DEF MasterSend, Serves
<1> QED
  BY <1>1, <1>2 DEF Step, SemWait, MasterReceive, DomainSkip, DomainProcess, ConvertInput,
     DomainOutput, ConvertOutput, DomainQueue, SemPost

-----------------------------------------------------------------------------
(* The lock.                                                               *)

LEMMA StepLock ==
  ASSUME LockHeld, PlacesOK, NEW th \in Threads, Step(th)
  PROVE  LockHeld'
<1> SUFFICES ASSUME MT PROVE LockHeld'
  BY DEF LockHeld
<1>1. CASE SemWait(th)
  <2>1. lock[at[th]] = NoThread /\ lock' = [lock EXCEPT ![at[th]] = th] /\ at' = at
    BY <1>1 DEF SemWait, Locks
  <2>2. \E x \in {"receive", "domain", "send"} : pc' = [pc EXCEPT ![th] = x]
    BY <1>1, DomainLoopPlaces DEF SemWait, Go
  <2>3. pc[th] = "wait"
    BY <1>1 DEF SemWait, Go
  <2> QED
    BY <2>1, <2>2, <2>3, ConfigAssumption DEF LockHeld, PlacesOK, Inside
<1>2. CASE SemPost(th)
  <2>1. pc[th] = "post" /\ pc' = [pc EXCEPT ![th] = "wait"]
    BY <1>2 DEF SemPost, Go
  <2>2. lock' = [lock EXCEPT ![at[th]] = NoThread]
    BY <1>2 DEF SemPost, Locks
  <2>3. \E x : at' = [at EXCEPT ![th] = x]
    BY <1>2 DEF SemPost
  <2>4. lock[at[th]] = th
    BY <2>1 DEF LockHeld, PlacesOK, Inside
  <2> QED
    BY <2>1, <2>2, <2>3, <2>4, ConfigAssumption DEF LockHeld, PlacesOK, Inside
<1>3. CASE UNCHANGED <<lock, at>> /\ pc[th] # "wait"
           /\ \E x \in Places \ {"wait"} : pc' = [pc EXCEPT ![th] = x]
  BY <1>3 DEF LockHeld, PlacesOK, Inside
<1> USE DomainLoopPlaces DEF Places, Go, NextDomain
<1>4. CASE MasterReceive(th)
  BY <1>3, <1>4 DEF MasterReceive
<1>5. CASE DomainProcess(th)
  <2>1. \E x \in Places \ {"wait"} : pc' = [pc EXCEPT ![th] = x]
    BY <1>5 DEF DomainProcess
  <2> QED
    BY <1>3, <1>5, <2>1 DEF DomainProcess
<1>6. CASE ConvertInput(th)
  <2>1. pc' = pc \/ \E x \in Places \ {"wait"} : pc' = [pc EXCEPT ![th] = x]
    BY <1>6 DEF ConvertInput
  <2>2. pc[th] = "convert" /\ UNCHANGED <<lock, at>>
    BY <1>6 DEF ConvertInput
  <2> QED
    BY <1>3, <2>1, <2>2 DEF LockHeld, Inside
<1>7. CASE DomainOutput(th)
  BY <1>3, <1>7 DEF DomainOutput
<1>8. CASE ConvertOutput(th)
  <2>1. pc' = pc \/ \E x \in Places \ {"wait"} : pc' = [pc EXCEPT ![th] = x]
    BY <1>8 DEF ConvertOutput
  <2>2. pc[th] = "convert" /\ UNCHANGED <<lock, at>>
    BY <1>8 DEF ConvertOutput
  <2> QED
    BY <1>3, <2>1, <2>2 DEF LockHeld, Inside
<1>9. CASE DomainQueue(th)
  BY <1>3, <1>9 DEF DomainQueue
<1>10. CASE MasterSend(th)
  BY <1>3, <1>10 DEF MasterSend
<1>11. CASE DomainSkip(th)
  <2>1. \E x \in Places \ {"wait"} : pc' = [pc EXCEPT ![th] = x]
    BY <1>11 DEF DomainSkip
  <2> QED
    BY <1>3, <1>11, <2>1 DEF DomainSkip
<1> QED
  BY <1>1, <1>2, <1>4, <1>5, <1>6, <1>7, <1>8, <1>9, <1>10, <1>11 DEF Step

-----------------------------------------------------------------------------
LEMMA InitIInv == Init => IInv
<1> SUFFICES ASSUME Init PROVE IInv
  OBVIOUS
<1> USE ConfigAssumption DEF Init
<1>1. PlacesOK
  BY MasterIndex DEF PlacesOK, Places
<1>2. LoopsOK
  BY DEF LoopsOK
<1>3. RefclkOK /\ RefclkCadence
  <2>1. RefclkOK
    <3>1. refclk_trigger \in [DOMAIN Master -> 0..1] /\ 0..1 \subseteq Nat
      OBVIOUS
    <3>2. since \in [DOMAIN Master -> Nat \cup {-1}]
      OBVIOUS
    <3> QED
      BY <3>1, <3>2 DEF RefclkOK
  <2>2. ASSUME NEW m \in DOMAIN Master, Master[m].refclk_trigger_init # 0
        PROVE  /\ since[m] = -1 /\ refclk_trigger[m] = 1
               /\ 1 \in 1..Master[m].refclk_trigger_init
    BY <2>2, MasterDecimation
  <2>3. \A m \in DOMAIN Master : since[m] = -1
    OBVIOUS
  <2> QED
    BY <2>1, <2>2, <2>3 DEF RefclkCadence
<1>4. DataOK
  BY DEF DataOK, Image, Uniform
<1>5. LibraryOK
  BY DEF LibraryOK
<1>6. LockHeld
  BY MasterIndex DEF LockHeld, Inside
<1> QED
  BY <1>1, <1>2, <1>3, <1>4, <1>5, <1>6 DEF IInv, TypeOK

LEMMA NextIInv == IInv /\ [Next]_vars => IInv'
<1> SUFFICES ASSUME IInv, [Next]_vars PROVE IInv'
  OBVIOUS
<1>1. ASSUME NEW th \in Threads, Step(th) PROVE IInv'
  BY <1>1, StepPlaces, StepLoops, StepLibrary, StepData, StepRefclk, StepLock
     DEF IInv, TypeOK
<1>2. CASE UNCHANGED vars
  BY <1>2 DEF vars, IInv, TypeOK, PlacesOK, LoopsOK, RefclkOK, DataOK,
     LibraryOK, RefclkCadence, LockHeld, Inside
<1> QED
  BY <1>1, <1>2 DEF Next

(* ecs_receive() and ecs_send(): types, the count of the reference clock,  *)
(* and that a thread between sem_wait() and sem_post() holds the lock.     *)
THEOREM Invariance == Spec => []IInv
  BY InitIInv, NextIInv, PTL DEF Spec

\* The types of the state of ecs_receive() and ecs_send().
THEOREM TypeCorrect == Spec => []TypeOK
<1>1. IInv => TypeOK
  BY DEF IInv
<1> QED
  BY <1>1, Invariance, PTL

\* The semaphore of a master admits one thread, and a single-tasking build,
\* which has no semaphore, has but one.
THEOREM MutualExclusionAlways == Spec => []MutualExclusion
<1>1. IInv => MutualExclusion
  BY ConfigAssumption DEF IInv, LockHeld, MutualExclusion
<1> QED
  BY <1>1, Invariance, PTL

\* Every decimation is kept, by whatever task is the master's fastest one.
THEOREM RefclkCadenceAlways == Spec => []RefclkCadence
<1>1. IInv => RefclkCadence
  BY DEF IInv
<1> QED
  BY <1>1, Invariance, PTL

-----------------------------------------------------------------------------
(* The calls are atomic.                                                   *)

(* Where the loops are: the place of a thread says what its loop variables *)
(* stand for.                                                              *)
ThreadControl(th) ==
  /\ pc[th] \in {"domain", "convert", "queue"} => dom[th] \in DOMAIN Doms(th)
  /\ pc[th] \in {"convert", "queue"} => Its(th)
  /\ pc[th] = "convert" => IF Receiving(th) THEN D(th).input ELSE D(th).output
  /\ pc[th] \in {"queue", "send"} => ~Receiving(th)
  /\ pc[th] = "receive" => Receiving(th) /\ dom[th] = 1
  /\ pc[th] = "send" => dom[th] > Len(Doms(th))
  /\ pc[th] # "convert" => word[th] = 1

Control == \A th \in Threads : ThreadControl(th)

(* What a conversion loop has done: the words before the one it is at.     *)
ThreadPrefix(th) ==
  pc[th] = "convert" =>
    \A w \in 1..Words : w < word[th] =>
      IF Receiving(th) THEN input[D(th).name][w] = image[D(th).name][w]
                       ELSE outimage[D(th).name][w] = output[Tid(th)]

Prefix == \A th \in Threads : ThreadPrefix(th)

RInv == IInv /\ Control /\ Prefix

-----------------------------------------------------------------------------
(* The configuration.                                                      *)

LEMMA DomainList ==
  ASSUME NEW m \in DOMAIN Master
  PROVE  /\ Len(Domain[m]) \in Nat /\ DOMAIN Domain[m] = 1..Len(Domain[m])
         /\ \A i \in DOMAIN Domain[m] :
              /\ Domain[m][i].name \in DomainNames /\ Domain[m][i].tid \in Nat
              /\ Domain[m][i].input \in BOOLEAN
              /\ Domain[m][i].output \in BOOLEAN
<1> DEFINE R == [name : DomainNames, tid : Nat, input : BOOLEAN,
                 output : BOOLEAN]
<1>1. Domain[m] \in Seq(R)
  BY ConfigAssumption
<1> HIDE DEF R
<1>2. /\ Len(Domain[m]) \in Nat /\ DOMAIN Domain[m] = 1..Len(Domain[m])
      /\ \A i \in DOMAIN Domain[m] : Domain[m][i] \in R
  BY <1>1
<1>3. \A r \in R : /\ r.name \in DomainNames /\ r.tid \in Nat
                   /\ r.input \in BOOLEAN /\ r.output \in BOOLEAN
  BY DEF R
<1> QED
  BY <1>2, <1>3

\* A step moves one thread.
Stays(t) == /\ pos'[t] = pos[t] /\ pc'[t] = pc[t] /\ at'[t] = at[t]
            /\ dom'[t] = dom[t] /\ word'[t] = word[t]

LEMMA StepOthers ==
  ASSUME TypeOK, NEW th \in Threads, Step(th), NEW t \in Threads, t # th
  PROVE  Stays(t)
<1> USE DEF Step, SemWait, MasterReceive, DomainSkip, DomainProcess,
       ConvertInput, DomainOutput, ConvertOutput, DomainQueue, MasterSend,
       SemPost, NextDomain, Go
<1>1. /\ pos \in [Threads -> Nat] /\ dom \in [Threads -> Nat]
      /\ word \in [Threads -> 1..Words] /\ pc \in [Threads -> Places]
      /\ at \in [Threads -> DOMAIN Master]
  BY DEF TypeOK, LoopsOK, PlacesOK
<1>2. pos' = pos \/ \E x : pos' = [pos EXCEPT ![th] = x]
  BY Zenon
<1>3. pc' = pc \/ \E x : pc' = [pc EXCEPT ![th] = x]
  OBVIOUS
<1>4. at' = at \/ \E x : at' = [at EXCEPT ![th] = x]
  OBVIOUS
<1>5. dom' = dom \/ \E x : dom' = [dom EXCEPT ![th] = x]
  OBVIOUS
<1>6. word' = word \/ \E x : word' = [word EXCEPT ![th] = x]
  OBVIOUS
<1> QED
  BY <1>1, <1>2, <1>3, <1>4, <1>5, <1>6 DEF Stays

\* The call of a thread changes at the end of it only.
LEMMA StepCall ==
  ASSUME NEW th \in Threads, Step(th), ~SemPost(th)
  PROVE  pos' = pos /\ at' = at /\ output' = output
  BY DEF Step, SemWait, MasterReceive, DomainSkip, DomainProcess,
       ConvertInput, DomainOutput, ConvertOutput, DomainQueue, MasterSend,
       libVars, imageVars

-----------------------------------------------------------------------------
(* Where the loops are.                                                    *)

LEMMA InitControl == Init => Control /\ Prefix
  BY DEF Init, Control, ThreadControl, Prefix, ThreadPrefix

LEMMA OthersControl ==
  ASSUME NEW t \in Threads, Stays(t), ThreadControl(t)
  PROVE  ThreadControl(t)'
  BY DEF Stays, ThreadControl, Doms, D, Its, Receiving, Tid

\* The next domain of the master, or what follows the loop.
LEMMA NextControl ==
  ASSUME TypeOK, NEW th \in Threads, NEW after, NextDomain(th, after),
         pos' = pos, at' = at, dom[th] \in DOMAIN Doms(th),
         after = IF Receiving(th) THEN "post" ELSE "send"
  PROVE  ThreadControl(th)'
<1>1. /\ pos \in [Threads -> Nat] /\ dom \in [Threads -> Nat]
      /\ word \in [Threads -> 1..Words] /\ pc \in [Threads -> Places]
      /\ at[th] \in DOMAIN Master
  BY DEF TypeOK, LoopsOK, PlacesOK
<1>2. Doms(th)' = Doms(th) /\ (Receiving(th)' <=> Receiving(th))
  BY DEF Doms, Receiving
<1>3. Len(Doms(th)) \in Nat /\ DOMAIN Doms(th) = 1..Len(Doms(th))
  BY <1>1, DomainList DEF Doms
<1>4. dom'[th] = dom[th] + 1 /\ word'[th] = 1
  BY <1>1 DEF NextDomain
<1>5. pc'[th] = IF dom[th] + 1 <= Len(Doms(th)) THEN "domain" ELSE after
  BY <1>1 DEF NextDomain, Go, DomainLoop
<1>6. CASE dom[th] + 1 <= Len(Doms(th))
  <2>1. pc'[th] = "domain" /\ dom'[th] \in DOMAIN Doms(th)'
    BY <1>1, <1>2, <1>3, <1>4, <1>5, <1>6
  <2> QED
    BY <1>4, <2>1 DEF ThreadControl
<1>7. CASE ~(dom[th] + 1 <= Len(Doms(th)))
  <2>1. pc'[th] = after /\ dom'[th] > Len(Doms(th))'
    BY <1>1, <1>2, <1>3, <1>4, <1>5, <1>7
  <2> QED
    BY <1>2, <1>4, <2>1 DEF ThreadControl
<1> QED
  BY <1>6, <1>7

LEMMA SelfControl ==
  ASSUME TypeOK, NEW th \in Threads, Step(th), ThreadControl(th)
  PROVE  ThreadControl(th)'
<1>1. /\ pos \in [Threads -> Nat] /\ dom \in [Threads -> Nat]
      /\ word \in [Threads -> 1..Words] /\ pc \in [Threads -> Places]
      /\ at[th] \in DOMAIN Master
  BY DEF TypeOK, LoopsOK, PlacesOK
<1>2. Len(Doms(th)) \in Nat /\ DOMAIN Doms(th) = 1..Len(Doms(th))
  BY <1>1, DomainList DEF Doms
<1>3. ~SemPost(th) =>
        /\ pos' = pos /\ at' = at /\ Doms(th)' = Doms(th)
        /\ (Receiving(th)' <=> Receiving(th)) /\ Tid(th)' = Tid(th)
  BY StepCall DEF Doms, Receiving, Tid
<1>4. CASE SemWait(th)
  <2>1. dom'[th] = 1 /\ word'[th] = 1
        /\ pos' = pos /\ at' = at
        /\ pc'[th] = IF Receiving(th) THEN "receive"
                     ELSE IF 1 <= Len(Doms(th)) THEN "domain" ELSE "send"
    BY <1>1, <1>4 DEF SemWait, Go, DomainLoop
  <2>2. Doms(th)' = Doms(th) /\ (Receiving(th)' <=> Receiving(th))
    BY <2>1 DEF Doms, Receiving
  <2> QED
    BY <1>2, <2>1, <2>2 DEF ThreadControl
<1>5. CASE MasterReceive(th)
  <2>1. /\ pc[th] = "receive" /\ UNCHANGED <<pos, at, dom, word>>
        /\ pc'[th] = IF 1 <= Len(Doms(th)) THEN "domain" ELSE "post"
    BY <1>1, <1>5 DEF MasterReceive, Go, DomainLoop
  <2>2. Doms(th)' = Doms(th) /\ dom[th] = 1 /\ word[th] = 1
    BY <2>1 DEF Doms, ThreadControl
  <2> QED
    BY <1>2, <2>1, <2>2 DEF ThreadControl
<1>6. CASE DomainSkip(th)
  BY <1>6, NextControl DEF DomainSkip, ThreadControl
<1>7. CASE DomainProcess(th)
  <2>1. CASE D(th).input
    <3>1. /\ pc[th] = "domain" /\ pc'[th] = "convert" /\ Receiving(th)
          /\ Its(th) /\ UNCHANGED <<pos, at, dom, word>>
      BY <1>1, <1>7, <2>1 DEF DomainProcess, Go
    <3>2. Doms(th)' = Doms(th) /\ D(th)' = D(th) /\ (Its(th)' <=> Its(th))
          /\ (Receiving(th)' <=> Receiving(th))
      BY <3>1 DEF Doms, D, Its, Tid, Receiving
    <3> QED
      BY <2>1, <3>1, <3>2 DEF ThreadControl
  <2>2. CASE ~D(th).input
    BY <1>7, <2>2, NextControl DEF DomainProcess, ThreadControl
  <2> QED
    BY <2>1, <2>2
<1>8. CASE ConvertInput(th)
  <2>1. CASE word[th] < Words
    <3>1. pc[th] = "convert" /\ UNCHANGED <<pos, at, dom, pc>>
      BY <1>8, <2>1 DEF ConvertInput
    <3>2. Doms(th)' = Doms(th) /\ D(th)' = D(th) /\ (Its(th)' <=> Its(th))
          /\ (Receiving(th)' <=> Receiving(th))
      BY <3>1 DEF Doms, D, Its, Tid, Receiving
    <3> QED
      BY <3>1, <3>2 DEF ThreadControl
  <2>2. CASE ~(word[th] < Words)
    BY <1>8, <2>2, NextControl DEF ConvertInput, ThreadControl
  <2> QED
    BY <2>1, <2>2
<1>9. CASE DomainOutput(th)
  <2>1. /\ pc[th] = "domain" /\ ~Receiving(th) /\ Its(th)
        /\ pc'[th] = IF D(th).output THEN "convert" ELSE "queue"
        /\ UNCHANGED <<pos, at, dom, word>>
    BY <1>1, <1>9 DEF DomainOutput, Go
  <2>2. Doms(th)' = Doms(th) /\ D(th)' = D(th) /\ (Its(th)' <=> Its(th))
        /\ (Receiving(th)' <=> Receiving(th))
    BY <2>1 DEF Doms, D, Its, Tid, Receiving
  <2> QED
    BY <2>1, <2>2 DEF ThreadControl
<1>10. CASE ConvertOutput(th)
  <2>1. /\ pc[th] = "convert" /\ ~Receiving(th) /\ UNCHANGED <<pos, at, dom>>
        /\ \/ pc'[th] = "convert"
           \/ pc'[th] = "queue" /\ word'[th] = 1
    BY <1>1, <1>10 DEF ConvertOutput, Go
  <2>2. Doms(th)' = Doms(th) /\ D(th)' = D(th) /\ (Its(th)' <=> Its(th))
        /\ (Receiving(th)' <=> Receiving(th))
    BY <2>1 DEF Doms, D, Its, Tid, Receiving
  <2> QED
    BY <2>1, <2>2 DEF ThreadControl
<1>11. CASE DomainQueue(th)
  BY <1>11, NextControl DEF DomainQueue, ThreadControl
<1>12. CASE MasterSend(th)
  <2>1. pc'[th] = "post" /\ pc[th] = "send" /\ word' = word
    BY <1>1, <1>12 DEF MasterSend, Go
  <2> QED
    BY <2>1 DEF ThreadControl
<1>13. CASE SemPost(th)
  <2>1. pc'[th] = "wait" /\ pc[th] = "post" /\ word' = word
    BY <1>1, <1>13 DEF SemPost, Go
  <2> QED
    BY <2>1 DEF ThreadControl
<1> QED
  BY <1>4, <1>5, <1>6, <1>7, <1>8, <1>9, <1>10, <1>11, <1>12, <1>13 DEF Step

LEMMA StepControl ==
  ASSUME TypeOK, Control, NEW th \in Threads, Step(th)
  PROVE  Control'
<1> SUFFICES ASSUME NEW t \in Threads PROVE ThreadControl(t)'
  BY DEF Control
<1>1. CASE t = th
  BY <1>1, SelfControl DEF Control
<1>2. CASE t # th
  BY <1>2, StepOthers, OthersControl DEF Control
<1> QED
  BY <1>1, <1>2

-----------------------------------------------------------------------------
(* Who touches what.                                                       *)

LEMMA Alone ==
  ASSUME IInv, NEW a \in Threads, NEW b \in Threads,
         pc[a] # "wait", pc[b] # "wait", at[a] = at[b]
  PROVE  a = b
<1>1. at[a] \in DOMAIN Master
  BY DEF IInv, TypeOK, PlacesOK
<1>2. CASE MT
  BY <1>1, <1>2 DEF IInv, LockHeld, Inside
<1>3. CASE ~MT
  BY <1>3, ConfigAssumption
<1> QED
  BY <1>2, <1>3

LEMMA NamesApart ==
  ASSUME NEW m \in DOMAIN Master, NEW n \in DOMAIN Master, m # n,
         NEW d \in NamesAt(m)
  PROVE  d \notin NamesAt(n) /\ d \in DomainNames
<1>1. PICK j \in DOMAIN Domain[m] : d = Domain[m][j].name
  BY DEF NamesAt
<1>2. d \in DomainNames
  BY <1>1, DomainList
<1>3. ASSUME NEW k \in DOMAIN Domain[n], d = Domain[n][k].name PROVE FALSE
  BY <1>1, <1>3, ListAssumption
<1> QED
  BY <1>2, <1>3 DEF NamesAt

\* The domain a loop is at is one of the master.
LEMMA NameAt ==
  ASSUME TypeOK, NEW th \in Threads, ThreadControl(th),
         pc[th] \in {"domain", "convert", "queue"}
  PROVE  D(th).name \in NamesAt(at[th]) /\ D(th).name \in DomainNames
<1>1. at[th] \in DOMAIN Master /\ dom[th] \in DOMAIN Domain[at[th]]
  BY DEF TypeOK, PlacesOK, ThreadControl, Doms
<1> QED
  BY <1>1, DomainList DEF NamesAt, D, Doms

\* A step touches no domain of another master.
LEMMA StepElsewhere ==
  ASSUME TypeOK, NEW th \in Threads, ThreadControl(th), Step(th),
         NEW d \in DomainNames, d \notin NamesAt(at[th])
  PROVE  /\ image'[d] = image[d] /\ outimage'[d] = outimage[d]
         /\ input'[d] = input[d] /\ dgram'[d] = dgram[d]
         /\ wire'[d] = wire[d] /\ wc'[d] = wc[d]
<1>1. /\ image \in [DomainNames -> Image] /\ outimage \in [DomainNames -> Image]
      /\ input \in [DomainNames -> Image] /\ wire \in [DomainNames -> Image]
      /\ dgram \in [DomainNames -> {"idle", "queued", "sent", "answered"}]
      /\ wc \in [DomainNames -> {"new", "complete", "zero"}]
  BY DEF TypeOK, DataOK, LibraryOK
<1>2. pc[th] \in {"domain", "convert", "queue"} => d # D(th).name
  BY NameAt
<1> USE DEF libVars, imageVars
<1>3. CASE SemWait(th)
  BY <1>3 DEF SemWait
<1>4. CASE MasterReceive(th)
  <2>1. UNCHANGED <<outimage, input, wire, wc>>
    BY <1>4 DEF MasterReceive
  <2>2. CASE ~Serves(th)
    BY <1>4, <2>1, <2>2 DEF MasterReceive
  <2>3. CASE Serves(th)
    <3> DEFINE names == {b.name : b \in Back(at[th])}
               inputs == {b.name : b \in {e \in Back(at[th]) : e.input}}
    <3>1. d \notin names /\ d \notin inputs
      BY DEF Back, NamesAt
    <3>2. \E lost \in {FALSE, Loss}, v \in 0..(Values - 1) :
            /\ dgram' = [x \in DomainNames |->
                 IF x \in names THEN IF lost THEN "idle" ELSE "answered"
                                ELSE dgram[x]]
            /\ image' = [x \in DomainNames |->
                 IF x \in inputs /\ ~lost THEN Uniform(v) ELSE image[x]]
      BY <1>4, <2>3 DEF MasterReceive
    <3> HIDE DEF names, inputs
    <3> QED
      BY <2>1, <3>1, <3>2
  <2> QED
    BY <2>2, <2>3
<1>5. CASE DomainSkip(th)
  BY <1>5 DEF DomainSkip
<1>6. CASE DomainProcess(th)
  BY <1>1, <1>2, <1>6 DEF DomainProcess
<1>7. CASE ConvertInput(th)
  BY <1>1, <1>2, <1>7 DEF ConvertInput
<1>8. CASE DomainOutput(th)
  BY <1>8 DEF DomainOutput
<1>9. CASE ConvertOutput(th)
  BY <1>1, <1>2, <1>9 DEF ConvertOutput
<1>10. CASE DomainQueue(th)
  BY <1>1, <1>2, <1>10 DEF DomainQueue
<1>11. CASE MasterSend(th)
  <2>1. UNCHANGED <<image, outimage, input, wc>>
    BY <1>11 DEF MasterSend
  <2> DEFINE queued == {Domain[at[th]][k].name : k \in DOMAIN Domain[at[th]]}
                         \cap {x \in DomainNames : dgram[x] = "queued"}
  <2>2. d \notin queued
    BY DEF NamesAt
  <2>3. \/ UNCHANGED <<dgram, wire>>
        \/ /\ dgram' = [x \in DomainNames |->
                IF x \in queued THEN "sent" ELSE dgram[x]]
           /\ wire' = [x \in DomainNames |->
                IF x \in queued THEN outimage[x] ELSE wire[x]]
    BY <1>11 DEF MasterSend
  <2> HIDE DEF queued
  <2> QED
    BY <2>1, <2>2, <2>3
<1>12. CASE SemPost(th)
  BY <1>12 DEF SemPost
<1> QED
  BY <1>3, <1>4, <1>5, <1>6, <1>7, <1>8, <1>9, <1>10, <1>11, <1>12 DEF Step

LEMMA TidOf ==
  ASSUME LoopsOK, NEW th \in Threads
  PROVE  Tid(th) \in AllTids /\ pos[th] \in DOMAIN Program[th]
  BY ConfigAssumption DEF LoopsOK, Tid, AllTids

\* The outputs of a task change by its own thread.
LEMMA OutputStays ==
  ASSUME TypeOK, NEW th \in Threads, Step(th), NEW t \in Threads, t # th
  PROVE  output'[Tid(t)] = output[Tid(t)]
<1>1. CASE ~SemPost(th)
  BY <1>1, StepCall
<1>2. CASE SemPost(th)
  <2>1. Tid(t) # Tid(th) /\ Tid(t) \in AllTids
    BY TidOf, TaskAssumption DEF TypeOK, Tid
  <2>2. output' = output \/ output' = [output EXCEPT ![Tid(th)] = (@ + 1) % Values]
    BY <1>2 DEF SemPost
  <2> QED
    BY <2>1, <2>2 DEF TypeOK, DataOK
<1> QED
  BY <1>1, <1>2

-----------------------------------------------------------------------------
(* What a conversion loop has done.                                        *)

LEMMA OthersPrefix ==
  ASSUME IInv, Control, NEW th \in Threads, Step(th), NEW t \in Threads, t # th,
         ThreadPrefix(t)
  PROVE  ThreadPrefix(t)'
<1>1. Stays(t)
  BY StepOthers DEF IInv
<1>2. SUFFICES ASSUME pc[t] = "convert" PROVE ThreadPrefix(t)'
  BY <1>1 DEF Stays, ThreadPrefix
<1>3. D(t)' = D(t) /\ (Receiving(t)' <=> Receiving(t)) /\ Tid(t)' = Tid(t)
  BY <1>1 DEF Stays, D, Doms, Receiving, Tid
<1>4. output'[Tid(t)] = output[Tid(t)]
  BY OutputStays DEF IInv
<1> DEFINE d == D(t).name
<1>5. input'[d] = input[d] /\ image'[d] = image[d] /\ outimage'[d] = outimage[d]
  <2>1. CASE pc[th] = "wait"
    BY <2>1 DEF Step, SemWait, MasterReceive, DomainSkip, DomainProcess,
       ConvertInput, DomainOutput, ConvertOutput, DomainQueue, MasterSend,
       SemPost, Go, imageVars
  <2>2. CASE pc[th] # "wait"
    <3>1. at[th] # at[t]
      BY <1>2, <2>2, Alone
    <3>2. d \in NamesAt(at[t]) /\ at[t] \in DOMAIN Master /\ at[th] \in DOMAIN Master
      BY <1>2, NameAt DEF IInv, Control, TypeOK, PlacesOK
    <3>3. d \notin NamesAt(at[th]) /\ d \in DomainNames
      BY <3>1, <3>2, NamesApart
    <3> QED
      BY <3>3, StepElsewhere DEF IInv, Control
  <2> QED
    BY <2>1, <2>2
<1> QED
  BY <1>1, <1>2, <1>3, <1>4, <1>5 DEF ThreadPrefix, Stays

LEMMA SelfPrefix ==
  ASSUME TypeOK, NEW th \in Threads, ThreadControl(th), Step(th),
         ThreadPrefix(th)
  PROVE  ThreadPrefix(th)'
<1>1. /\ word \in [Threads -> 1..Words] /\ pc \in [Threads -> Places]
      /\ Words \in Nat
  BY ConfigAssumption DEF TypeOK, LoopsOK, PlacesOK
<1>2. CASE ConvertInput(th) /\ word[th] < Words
  <2> DEFINE d == D(th).name
  <2>1. /\ word'[th] = word[th] + 1 /\ image' = image /\ Receiving(th)
        /\ input' = [input EXCEPT ![d][word[th]] = image[d][word[th]]]
        /\ pc[th] = "convert"
    BY <1>1, <1>2 DEF ConvertInput, imageVars
  <2>2. D(th)' = D(th) /\ (Receiving(th)' <=> Receiving(th))
    BY <1>2 DEF ConvertInput, D, Doms, Receiving
  <2>3. d \in DomainNames /\ input[d] \in Image
    BY <2>1, NameAt DEF TypeOK, DataOK
  <2>4. ASSUME NEW w \in 1..Words, w < word[th] + 1
        PROVE  input'[d][w] = image[d][w]
    <3>1. CASE w = word[th]
      BY <2>1, <2>3, <3>1 DEF Image, TypeOK, DataOK
    <3>2. CASE w # word[th]
      <4>1. w < word[th]
        BY <1>1, <2>4, <3>2
      <4>2. input[d][w] = image[d][w]
        BY <2>1, <4>1 DEF ThreadPrefix
      <4> QED
        BY <2>1, <2>3, <3>2, <4>2 DEF Image, TypeOK, DataOK
    <3> QED
      BY <3>1, <3>2
  <2> QED
    BY <2>1, <2>2, <2>4 DEF ThreadPrefix
<1>3. CASE ConvertOutput(th) /\ word[th] < Words
  <2> DEFINE d == D(th).name
  <2>1. /\ word'[th] = word[th] + 1 /\ output' = output /\ ~Receiving(th)
        /\ outimage' = [outimage EXCEPT ![d][word[th]] = output[Tid(th)]]
        /\ pc[th] = "convert"
    BY <1>1, <1>3 DEF ConvertOutput
  <2>2. D(th)' = D(th) /\ (Receiving(th)' <=> Receiving(th)) /\ Tid(th)' = Tid(th)
    BY <1>3 DEF ConvertOutput, D, Doms, Receiving, Tid
  <2>3. d \in DomainNames /\ outimage[d] \in Image
    BY <2>1, NameAt DEF TypeOK, DataOK
  <2>4. ASSUME NEW w \in 1..Words, w < word[th] + 1
        PROVE  outimage'[d][w] = output[Tid(th)]
    <3>1. CASE w = word[th]
      BY <2>1, <2>3, <3>1 DEF Image, TypeOK, DataOK
    <3>2. CASE w # word[th]
      <4>1. w < word[th]
        BY <1>1, <2>4, <3>2
      <4>2. outimage[d][w] = output[Tid(th)]
        BY <2>1, <4>1 DEF ThreadPrefix
      <4> QED
        BY <2>1, <2>3, <3>2, <4>2 DEF Image, TypeOK, DataOK
    <3> QED
      BY <3>1, <3>2
  <2> QED
    BY <2>1, <2>2, <2>4 DEF ThreadPrefix
<1>4. CASE DomainProcess(th) \/ DomainOutput(th)
  <2>1. pc'[th] = "convert" => word'[th] = word[th]
    BY <1>1, <1>4, DomainLoopPlaces
       DEF DomainProcess, DomainOutput, NextDomain, Go
  <2>2. word[th] = 1
    BY <1>4 DEF DomainProcess, DomainOutput, Go, ThreadControl
  <2>3. \A w \in 1..Words : ~(w < 1)
    BY <1>1
  <2> QED
    BY <2>1, <2>2, <2>3 DEF ThreadPrefix
<1>5. CASE /\ ~(ConvertInput(th) /\ word[th] < Words)
           /\ ~(ConvertOutput(th) /\ word[th] < Words)
           /\ ~(DomainProcess(th) \/ DomainOutput(th))
  <2>1. pc'[th] # "convert"
    BY <1>1, <1>5, DomainLoopPlaces
       DEF Step, SemWait, MasterReceive, DomainSkip, ConvertInput,
           ConvertOutput, DomainQueue, MasterSend, SemPost, NextDomain, Go
  <2> QED
    BY <2>1 DEF ThreadPrefix
<1> QED
  BY <1>2, <1>3, <1>4, <1>5

LEMMA StepPrefix ==
  ASSUME RInv, NEW th \in Threads, Step(th)
  PROVE  Prefix'
<1> SUFFICES ASSUME NEW t \in Threads PROVE ThreadPrefix(t)'
  BY DEF Prefix
<1>1. CASE t = th
  BY <1>1, SelfPrefix DEF RInv, IInv, Control, Prefix
<1>2. CASE t # th
  BY <1>2, OthersPrefix DEF RInv, Prefix
<1> QED
  BY <1>1, <1>2

LEMMA NextRInv == RInv /\ [Next]_vars => RInv'
<1> SUFFICES ASSUME RInv, [Next]_vars PROVE RInv'
  OBVIOUS
<1>1. IInv'
  BY NextIInv DEF RInv
<1>2. ASSUME NEW th \in Threads, Step(th) PROVE Control' /\ Prefix'
  BY <1>2, StepControl, StepPrefix DEF RInv, IInv
<1>3. CASE UNCHANGED vars
  <2>1. UNCHANGED <<pos, pc, at, dom, word, input, image, outimage, output>>
    BY <1>3 DEF vars
  <2>2. Control'
    BY <2>1, OthersControl DEF RInv, Control, Stays
  <2>3. ASSUME NEW t \in Threads PROVE ThreadPrefix(t)'
    <3>1. /\ pc'[t] = pc[t] /\ word'[t] = word[t] /\ D(t)' = D(t)
          /\ (Receiving(t)' <=> Receiving(t)) /\ Tid(t)' = Tid(t)
      BY <2>1 DEF D, Doms, Receiving, Tid
    <3> QED
      BY <2>1, <3>1 DEF RInv, Prefix, ThreadPrefix
  <2> QED
    BY <1>1, <2>2, <2>3 DEF RInv, Prefix
<1> QED
  BY <1>1, <1>2, <1>3 DEF Next, RInv

(* The loops of ecs_receive() and ecs_send() stand where they can stand,   *)
(* and a conversion has copied the words up to its loop variable.          *)
THEOREM RInvariance == Spec => []RInv
<1>1. Init => RInv
  BY InitIInv, InitControl DEF RInv
<1> QED
  BY <1>1, NextRInv, PTL DEF Spec

-----------------------------------------------------------------------------
(* The calls a domain is part of.                                          *)

Callers(d) ==
  Fetching(d) \cup Processing(d) \cup Filling(d) \cup Queueing(d) \cup Sending(d)

\* They are at the domain's master.
CallersAt ==
  \A d : \A t \in Callers(d) :
    /\ t \in Threads /\ d \in NamesAt(at[t])
    /\ pc[t] \in {"domain", "convert", "queue", "send"}

LEMMA FromIn ==
  ASSUME NEW m, NEW tid, NEW k PROVE FromAt(m, tid, k) \subseteq NamesAt(m)
  BY DEF FromAt, NamesAt

LEMMA CallersAreAt == CallersAt
<1> SUFFICES ASSUME NEW d, NEW t \in Callers(d)
             PROVE  /\ t \in Threads /\ d \in NamesAt(at[t])
                    /\ pc[t] \in {"domain", "convert", "queue", "send"}
  BY DEF CallersAt
<1>1. t \in Receives \cup Sends
  BY DEF Callers, Fetching, Processing, Filling, Queueing, Sending
<1>2. d \in ToConvert(t) \cup ToDo(t) \cup ToSend(t)
  BY DEF Callers, Fetching, Processing, Filling, Queueing, Sending
<1>3. d \in NamesAt(at[t])
  BY <1>2, FromIn DEF ToConvert, ToDo, ToSend, From
<1> QED
  BY <1>1, <1>3 DEF Receives, Sends

\* Which calls a thread at the k-th domain of its list is part of.
MemberAt(th, i) ==
  LET d == Doms(th)[i].name
      its == Doms(th)[i].tid = Tid(th)
      receives == Receiving(th) /\ pc[th] \in {"domain", "convert"}
      sends == ~Receiving(th) /\ pc[th] \in {"domain", "convert", "queue", "send"}
      left == i >= dom[th] /\ its
      behind == i >= dom[th] + 1 /\ its
  IN  /\ th \in Fetching(d) <=> receives /\ left /\ Doms(th)[i].input
      /\ th \in Processing(d)
           <=> receives /\ IF pc[th] = "convert" THEN behind ELSE left
      /\ th \in Filling(d)
           <=> /\ sends /\ Doms(th)[i].output
               /\ IF pc[th] = "queue" THEN behind ELSE left
      /\ th \in Queueing(d) <=> sends /\ left
      /\ th \in Sending(d) <=> sends /\ Serves(th) /\ (left \/ dgram[d] = "queued")

Members == \A th \in Threads : \A i \in DOMAIN Doms(th) : MemberAt(th, i)

LEMMA IndexOf ==
  ASSUME NEW m \in DOMAIN Master, NEW i \in DOMAIN Domain[m], NEW tid, NEW k
  PROVE  LET d == Domain[m][i].name
         IN  /\ d \in NamesAt(m) /\ d \in DomainNames
             /\ d \in Ins(m) <=> Domain[m][i].input
             /\ d \in Outs(m) <=> Domain[m][i].output
             /\ d \in FromAt(m, tid, k) <=> i >= k /\ Domain[m][i].tid = tid
<1>1. \A j \in DOMAIN Domain[m] : Domain[m][j].name = Domain[m][i].name => j = i
  BY ListAssumption
<1>2. Domain[m][i].name \in DomainNames
  BY DomainList
<1> QED
  BY <1>1, <1>2 DEF NamesAt, Ins, Outs, FromAt

LEMMA MembersHold == TypeOK => Members
<1> SUFFICES ASSUME TypeOK, NEW th \in Threads, NEW i \in DOMAIN Doms(th)
             PROVE  MemberAt(th, i)
  BY DEF Members
<1> DEFINE d == Doms(th)[i].name
<1>1. at[th] \in DOMAIN Master /\ i \in DOMAIN Domain[at[th]]
  BY DEF TypeOK, PlacesOK, Doms
<1>2. /\ d \in NamesAt(at[th])
      /\ d \in Ins(at[th]) <=> Doms(th)[i].input
      /\ d \in Outs(at[th]) <=> Doms(th)[i].output
      /\ d \in From(th, dom[th]) <=> i >= dom[th] /\ Doms(th)[i].tid = Tid(th)
      /\ d \in From(th, dom[th] + 1)
           <=> i >= dom[th] + 1 /\ Doms(th)[i].tid = Tid(th)
  BY <1>1, IndexOf DEF From, Doms
<1>3. /\ th \in Receives <=> Receiving(th) /\ pc[th] \in {"domain", "convert"}
      /\ th \in Sends
           <=> ~Receiving(th) /\ pc[th] \in {"domain", "convert", "queue", "send"}
  BY DEF Receives, Sends
<1>4. /\ ToConvert(th) = IF pc[th] = "queue" THEN From(th, dom[th] + 1)
                                            ELSE From(th, dom[th])
      /\ ToDo(th) = IF pc[th] = "convert" /\ Receiving(th)
                    THEN From(th, dom[th] + 1) ELSE From(th, dom[th])
  BY DEF ToConvert, ToDo
<1>5. d \in ToSend(th)
        <=> Serves(th) /\ (d \in ToDo(th) \/ dgram[d] = "queued")
  BY <1>2 DEF ToSend
<1> HIDE DEF d
<1>6. /\ th \in Fetching(d) <=> th \in Receives /\ d \in ToConvert(th) /\ d \in Ins(at[th])
      /\ th \in Processing(d) <=> th \in Receives /\ d \in ToDo(th)
      /\ th \in Filling(d) <=> th \in Sends /\ d \in ToConvert(th) /\ d \in Outs(at[th])
      /\ th \in Queueing(d) <=> th \in Sends /\ d \in ToDo(th)
      /\ th \in Sending(d) <=> th \in Sends /\ d \in ToSend(th)
  BY DEF Fetching, Processing, Filling, Queueing, Sending
<1>7. /\ th \in Fetching(d) <=>
           /\ Receiving(th) /\ pc[th] \in {"domain", "convert"}
           /\ i >= dom[th] /\ Doms(th)[i].tid = Tid(th) /\ Doms(th)[i].input
      /\ th \in Processing(d) <=>
           /\ Receiving(th) /\ pc[th] \in {"domain", "convert"}
           /\ IF pc[th] = "convert"
              THEN i >= dom[th] + 1 /\ Doms(th)[i].tid = Tid(th)
              ELSE i >= dom[th] /\ Doms(th)[i].tid = Tid(th)
  BY <1>2, <1>3, <1>4, <1>6
<1>8. /\ th \in Filling(d) <=>
           /\ ~Receiving(th) /\ pc[th] \in {"domain", "convert", "queue", "send"}
           /\ Doms(th)[i].output
           /\ IF pc[th] = "queue"
              THEN i >= dom[th] + 1 /\ Doms(th)[i].tid = Tid(th)
              ELSE i >= dom[th] /\ Doms(th)[i].tid = Tid(th)
      /\ th \in Queueing(d) <=>
           /\ ~Receiving(th) /\ pc[th] \in {"domain", "convert", "queue", "send"}
           /\ i >= dom[th] /\ Doms(th)[i].tid = Tid(th)
      /\ th \in Sending(d) <=>
           /\ ~Receiving(th) /\ pc[th] \in {"domain", "convert", "queue", "send"}
           /\ Serves(th)
           /\ (i >= dom[th] /\ Doms(th)[i].tid = Tid(th)) \/ dgram[d] = "queued"
  BY <1>2, <1>3, <1>4, <1>5, <1>6
<1> QED
  BY <1>7, <1>8 DEF MemberAt, d

-----------------------------------------------------------------------------
(* The abstract state of a domain, if one thread at most is at its master. *)

Sole(th) == \A t \in Threads : at[t] = at[th] /\ pc[t] # "wait" => t = th

View(th, d) ==
  /\ ImageDone[d] = Sample(image[d])
  /\ InputDone[d] = Sample(IF th \in Fetching(d) THEN image[d] ELSE input[d])
  /\ WcDone[d] = IF th \in Processing(d) THEN Processed(d) ELSE wc[d]
  /\ OutimageDone[d] = IF th \in Filling(d) THEN output[Tid(th)]
                                            ELSE Sample(outimage[d])
  /\ DgramDone[d] =
       IF th \in Processing(d) /\ dgram[d] = "answered" THEN "idle"
       ELSE IF th \in Sending(d) THEN "sent"
       ELSE IF th \in Queueing(d) THEN "queued" ELSE dgram[d]
  /\ WireDone[d] = IF th \in Sending(d) THEN OutimageDone[d] ELSE Sample(wire[d])

Views ==
  \A th \in Threads : Sole(th) => \A d \in NamesAt(at[th]) : View(th, d)

LEMMA TheIn == ASSUME NEW S, S # {} PROVE The(S) \in S
  BY DEF The

LEMMA ViewsHold == TypeOK => Views
<1> SUFFICES ASSUME TypeOK, NEW th \in Threads, Sole(th), NEW d \in NamesAt(at[th])
             PROVE  View(th, d)
  BY DEF Views
<1>1. at[th] \in DOMAIN Master /\ d \in DomainNames
  <2>1. at[th] \in DOMAIN Master
    BY DEF TypeOK, PlacesOK
  <2> QED
    BY <2>1, DomainList DEF NamesAt
<1>2. ASSUME NEW t \in Callers(d) PROVE t = th
  <2>1. t \in Threads /\ d \in NamesAt(at[t]) /\ pc[t] # "wait"
    BY <1>2, CallersAreAt DEF CallersAt
  <2>2. at[t] = at[th]
    BY <1>1, <2>1, NamesApart DEF TypeOK, PlacesOK
  <2> QED
    BY <2>1, <2>2 DEF Sole
<1>3. /\ Fetching(d) \subseteq {th} /\ Processing(d) \subseteq {th}
      /\ Filling(d) \subseteq {th} /\ Queueing(d) \subseteq {th}
      /\ Sending(d) \subseteq {th}
  BY <1>2 DEF Callers
<1>4. /\ Fetching(d) # {} <=> th \in Fetching(d)
      /\ Processing(d) # {} <=> th \in Processing(d)
      /\ Filling(d) # {} <=> th \in Filling(d)
      /\ Queueing(d) # {} <=> th \in Queueing(d)
      /\ Sending(d) # {} <=> th \in Sending(d)
  BY <1>3
<1>5. Filling(d) # {} => The(Filling(d)) = th
  BY <1>3, TheIn
<1>6. /\ ImageDone[d] = Sample(image[d])
      /\ InputDone[d] = Sample(IF Fetching(d) # {} THEN image[d] ELSE input[d])
      /\ WcDone[d] = IF Processing(d) # {} THEN Processed(d) ELSE wc[d]
      /\ WireDone[d] = IF Sending(d) # {} THEN OutimageDone[d] ELSE Sample(wire[d])
  BY <1>1 DEF ImageDone, InputDone, WcDone, WireDone
<1>7. /\ OutimageDone[d] = IF Filling(d) # {} THEN output[Tid(The(Filling(d)))]
                                             ELSE Sample(outimage[d])
      /\ DgramDone[d] =
           IF Processing(d) # {} /\ dgram[d] = "answered" THEN "idle"
           ELSE IF Sending(d) # {} THEN "sent"
           ELSE IF Queueing(d) # {} THEN "queued" ELSE dgram[d]
  BY <1>1 DEF OutimageDone, DgramDone
<1>8. OutimageDone[d] = IF th \in Filling(d) THEN output[Tid(th)]
                                            ELSE Sample(outimage[d])
  BY <1>4, <1>5, <1>7
<1> QED
  BY <1>4, <1>6, <1>7, <1>8 DEF View

-----------------------------------------------------------------------------
(* Domains that a step leaves alone.                                       *)

SameAt(d) ==
  /\ ImageDone'[d] = ImageDone[d] /\ InputDone'[d] = InputDone[d]
  /\ WcDone'[d] = WcDone[d] /\ OutimageDone'[d] = OutimageDone[d]
  /\ DgramDone'[d] = DgramDone[d] /\ WireDone'[d] = WireDone[d]

DataStays(d) ==
  /\ image'[d] = image[d] /\ outimage'[d] = outimage[d]
  /\ input'[d] = input[d] /\ dgram'[d] = dgram[d]
  /\ wire'[d] = wire[d] /\ wc'[d] = wc[d]

LEMMA OthersCalls ==
  ASSUME TypeOK, NEW th \in Threads, Step(th), NEW d, dgram'[d] = dgram[d],
         NEW t \in Threads, t # th
  PROVE  /\ t \in Fetching(d)' <=> t \in Fetching(d)
         /\ t \in Processing(d)' <=> t \in Processing(d)
         /\ t \in Filling(d)' <=> t \in Filling(d)
         /\ t \in Queueing(d)' <=> t \in Queueing(d)
         /\ t \in Sending(d)' <=> t \in Sending(d)
         /\ Tid(t)' = Tid(t)
<1>1. Stays(t)
  BY StepOthers
<1>2. /\ Receiving(t)' <=> Receiving(t)
      /\ Tid(t)' = Tid(t) /\ (Serves(t)' <=> Serves(t))
  BY <1>1 DEF Stays, Receiving, Tid, Serves
<1>3. /\ t \in Receives' <=> t \in Receives
      /\ t \in Sends' <=> t \in Sends
  BY <1>1, <1>2 DEF Stays, Receives, Sends
<1>4. ToConvert(t)' = ToConvert(t) /\ ToDo(t)' = ToDo(t)
  BY <1>1, <1>2 DEF Stays, ToConvert, ToDo, From
<1>5. d \in ToSend(t)' <=> d \in ToSend(t)
  BY <1>1, <1>2, <1>4 DEF Stays, ToSend
<1> QED
  BY <1>1, <1>2, <1>3, <1>4, <1>5
     DEF Stays, Fetching, Processing, Filling, Queueing, Sending

LEMMA Untouched ==
  ASSUME TypeOK, NEW th \in Threads, Step(th), NEW d \in DomainNames,
         th \notin Callers(d), th \notin Callers(d)', DataStays(d)
  PROVE  SameAt(d)
<1>1. /\ Fetching(d) \subseteq Threads /\ Fetching(d)' \subseteq Threads
      /\ Processing(d) \subseteq Threads /\ Processing(d)' \subseteq Threads
      /\ Filling(d) \subseteq Threads /\ Filling(d)' \subseteq Threads
      /\ Queueing(d) \subseteq Threads /\ Queueing(d)' \subseteq Threads
      /\ Sending(d) \subseteq Threads /\ Sending(d)' \subseteq Threads
  BY DEF Fetching, Processing, Filling, Queueing, Sending, Receives, Sends
<1>2. \A t \in Threads :
        /\ t \in Fetching(d)' <=> t \in Fetching(d)
        /\ t \in Processing(d)' <=> t \in Processing(d)
        /\ t \in Filling(d)' <=> t \in Filling(d)
        /\ t \in Queueing(d)' <=> t \in Queueing(d)
        /\ t \in Sending(d)' <=> t \in Sending(d)
        /\ t # th => Tid(t)' = Tid(t)
  <2> TAKE t \in Threads
  <2>1. CASE t = th
    BY <2>1 DEF Callers
  <2>2. CASE t # th
    BY <2>2, OthersCalls DEF DataStays
  <2> QED
    BY <2>1, <2>2
<1>3. Fetching(d)' = Fetching(d) /\ Processing(d)' = Processing(d)
  BY <1>1, <1>2
<1>4. Filling(d)' = Filling(d)
  BY <1>1, <1>2
<1>5. Queueing(d)' = Queueing(d)
  BY <1>1, <1>2
<1>6. Sending(d)' = Sending(d)
  BY <1>1, <1>2
<1>7. Filling(d) # {} =>
        output'[Tid(The(Filling(d)))'] = output[Tid(The(Filling(d)))]
  <2> SUFFICES ASSUME Filling(d) # {}
               PROVE output'[Tid(The(Filling(d)))'] = output[Tid(The(Filling(d)))]
    OBVIOUS
  <2>1. PICK t \in Threads : t = The(Filling(d)) /\ t # th
    BY <1>1, TheIn DEF Callers
  <2>2. The(Filling(d))' = t
    BY <1>4, <2>1 DEF The
  <2>3. output'[Tid(t)] = output[Tid(t)] /\ Tid(t)' = Tid(t)
    BY <1>2, <2>1, OutputStays
  <2>4. Tid(The(Filling(d)))' = Tid(t)'
    BY <2>2 DEF Tid
  <2> QED
    BY <2>1, <2>3, <2>4
<1>8. OutimageDone'[d] = OutimageDone[d]
  BY <1>4, <1>7 DEF OutimageDone, DataStays
<1>9. /\ ImageDone'[d] = ImageDone[d] /\ InputDone'[d] = InputDone[d]
      /\ WcDone'[d] = WcDone[d]
  BY <1>3 DEF ImageDone, InputDone, WcDone, DataStays, Processed, Sample
<1>10. DgramDone'[d] = DgramDone[d]
  BY <1>3, <1>5, <1>6 DEF DgramDone, DataStays
<1>11. WireDone'[d] = WireDone[d]
  BY <1>6, <1>8 DEF WireDone, DataStays, Sample
<1> QED
  BY <1>8, <1>9, <1>10, <1>11 DEF SameAt

LEMMA Elsewhere ==
  ASSUME RInv, NEW th \in Threads, Step(th), NEW d \in DomainNames,
         d \notin NamesAt(at[th])
  PROVE  SameAt(d)
<1>1. TypeOK /\ ThreadControl(th)
  BY DEF RInv, IInv, Control
<1>2. CallersAt /\ CallersAt'
  BY CallersAreAt, PTL
<1>3. th \notin Callers(d)
  BY <1>2 DEF CallersAt
<1>4. th \notin Callers(d)'
  <2>1. CASE SemPost(th)
    <3>1. pc'[th] = "wait"
      BY <1>1, <2>1 DEF SemPost, Go, TypeOK, PlacesOK
    <3> QED
      BY <1>2, <3>1 DEF CallersAt
  <2>2. CASE ~SemPost(th)
    <3>1. at' = at
      BY <2>2, StepCall
    <3>2. d \notin NamesAt(at[th])'
      BY <3>1 DEF NamesAt
    <3> QED
      BY <1>2, <3>2 DEF CallersAt
  <2> QED
    BY <2>1, <2>2
<1>5. DataStays(d)
  BY <1>1, StepElsewhere DEF DataStays
<1> QED
  BY <1>1, <1>3, <1>4, <1>5, Untouched

\* Inside a call the thread is alone at its master, before and behind a step.
LEMMA AloneThere ==
  ASSUME RInv, NEW th \in Threads, Step(th), ~SemPost(th)
  PROVE  Sole(th) /\ Sole(th)'
<1>1. TypeOK /\ IInv /\ at' = at
  BY StepCall DEF RInv, IInv
<1>2. Sole(th)
  <2> SUFFICES ASSUME NEW t \in Threads, at[t] = at[th], pc[t] # "wait", t # th
               PROVE  FALSE
    BY DEF Sole
  <2>1. CASE pc[th] # "wait"
    BY <1>1, <2>1, Alone
  <2>2. CASE pc[th] = "wait"
    <3>1. SemWait(th)
      BY <2>2 DEF Step, MasterReceive, DomainSkip, DomainProcess,
         ConvertInput, DomainOutput, ConvertOutput, DomainQueue, MasterSend,
         SemPost, Go
    <3>2. CASE MT
      <4>1. lock[at[th]] = NoThread /\ at[th] \in DOMAIN Master
        BY <1>1, <3>1, <3>2 DEF SemWait, Locks, TypeOK, PlacesOK
      <4>2. lock[at[th]] = t
        BY <1>1, <3>2, <4>1 DEF IInv, LockHeld, Inside
      <4> QED
        BY <4>1, <4>2, ConfigAssumption
    <3>3. CASE ~MT
      BY <3>3, ConfigAssumption
    <3> QED
      BY <3>2, <3>3
  <2> QED
    BY <2>1, <2>2
<1>3. Sole(th)'
  <2> SUFFICES ASSUME NEW t \in Threads, at'[t] = at'[th], pc'[t] # "wait", t # th
               PROVE  FALSE
    BY DEF Sole
  <2>1. at[t] = at[th] /\ pc[t] # "wait"
    BY <1>1, StepOthers DEF Stays
  <2> QED
    BY <1>2, <2>1 DEF Sole
<1> QED
  BY <1>2, <1>3

\* What a step of a thread at its master means for the i-th domain there.
LEMMA OwnStep ==
  ASSUME RInv, NEW th \in Threads, Step(th), ~SemPost(th),
         NEW i \in DOMAIN Doms(th), NEW d, d = Doms(th)[i].name
  PROVE  /\ View(th, d) /\ View(th, d)'
         /\ MemberAt(th, i) /\ MemberAt(th, i)'
         /\ Doms(th)' = Doms(th) /\ (Receiving(th)' <=> Receiving(th))
         /\ Tid(th)' = Tid(th) /\ (Serves(th)' <=> Serves(th))
         /\ output' = output /\ i \in Nat /\ d \in DomainNames
<1>1. TypeOK /\ TypeOK' /\ RInv'
  BY NextRInv DEF RInv, IInv, Next
<1>2. at' = at /\ pos' = pos /\ output' = output
  BY StepCall
<1>3. /\ Doms(th)' = Doms(th) /\ (Receiving(th)' <=> Receiving(th))
      /\ Tid(th)' = Tid(th) /\ (Serves(th)' <=> Serves(th))
  BY <1>2 DEF Doms, Receiving, Tid, Serves
<1>4. Views /\ Views' /\ Members /\ Members'
  BY <1>1, ViewsHold, MembersHold, PTL
<1>5. at[th] \in DOMAIN Master /\ d \in NamesAt(at[th]) /\ d \in DomainNames /\ i \in Nat
  <2>1. at[th] \in DOMAIN Master
    BY <1>1 DEF TypeOK, PlacesOK
  <2>2. i \in DOMAIN Domain[at[th]] /\ d = Domain[at[th]][i].name
    BY DEF Doms
  <2>3. d \in DomainNames /\ i \in Nat
    BY <2>1, <2>2, DomainList
  <2> QED
    BY <2>1, <2>2, <2>3 DEF NamesAt
<1>6. d \in NamesAt(at[th])'
  BY <1>2, <1>5 DEF NamesAt
<1>7. View(th, d) /\ View(th, d)'
  BY <1>4, <1>5, <1>6, AloneThere DEF Views
<1>8. MemberAt(th, i) /\ MemberAt(th, i)'
  BY <1>3, <1>4 DEF Members
<1> QED
  BY <1>2, <1>3, <1>5, <1>7, <1>8

-----------------------------------------------------------------------------
(* Steps between the effect of a call and its end change nothing.          *)

SameCalls(th, d) ==
  /\ th \in Fetching(d)' <=> th \in Fetching(d)
  /\ th \in Processing(d)' <=> th \in Processing(d)
  /\ th \in Filling(d)' <=> th \in Filling(d)
  /\ th \in Queueing(d)' <=> th \in Queueing(d)
  /\ th \in Sending(d)' <=> th \in Sending(d)

LEMMA SameViews ==
  ASSUME NEW th \in Threads, NEW d \in DomainNames, View(th, d), View(th, d)',
         SameCalls(th, d), DataStays(d), output' = output, Tid(th)' = Tid(th)
  PROVE  SameAt(d)
<1>1. ImageDone'[d] = ImageDone[d] /\ InputDone'[d] = InputDone[d]
  BY DEF View, SameCalls, DataStays, Sample
<1>2. WcDone'[d] = WcDone[d] /\ DgramDone'[d] = DgramDone[d]
  BY DEF View, SameCalls, DataStays, Processed
<1>3. OutimageDone'[d] = OutimageDone[d]
  BY DEF View, SameCalls, DataStays, Sample
<1>4. WireDone'[d] = WireDone[d]
  BY <1>3 DEF View, SameCalls, DataStays, Sample
<1> QED
  BY <1>1, <1>2, <1>3, <1>4 DEF SameAt

LEMMA SampleUniform ==
  ASSUME NEW v \in 0..(Values - 1)
  PROVE  Sample(Uniform(v)) = v
<1>1. 1 \in 1..Words
  BY ConfigAssumption
<1> QED
  BY <1>1 DEF Sample, Uniform

LEMMA SameImage ==
  ASSUME NEW f \in Image, NEW g \in Image, \A w \in 1..Words : f[w] = g[w]
  PROVE  f = g
<1>1. f = [w \in 1..Words |-> f[w]] /\ g = [w \in 1..Words |-> g[w]]
  BY DEF Image
<1>2. [w \in 1..Words |-> f[w]] = [w \in 1..Words |-> g[w]]
  OBVIOUS
<1> QED
  BY <1>1, <1>2

\* The domain the loop is at, and the others of the master.
LEMMA OwnNames ==
  ASSUME TypeOK, NEW th \in Threads, dom[th] \in DOMAIN Doms(th),
         NEW i \in DOMAIN Doms(th)
  PROVE  D(th).name = Doms(th)[i].name <=> i = dom[th]
<1>1. at[th] \in DOMAIN Master
  BY DEF TypeOK, PlacesOK
<1> QED
  BY <1>1, ListAssumption DEF Doms, D

LEMMA NextFacts ==
  ASSUME TypeOK, NEW th \in Threads, NEW after, NextDomain(th, after)
  PROVE  /\ dom'[th] = dom[th] + 1 /\ dom[th] \in Nat
         /\ pc'[th] = IF dom[th] + 1 <= Len(Doms(th)) THEN "domain" ELSE after
         /\ Len(Doms(th)) \in Nat /\ DOMAIN Doms(th) = 1..Len(Doms(th))
<1>1. at[th] \in DOMAIN Master /\ dom \in [Threads -> Nat] /\ pc \in [Threads -> Places]
  BY DEF TypeOK, PlacesOK, LoopsOK
<1>2. Len(Doms(th)) \in Nat /\ DOMAIN Doms(th) = 1..Len(Doms(th))
  BY <1>1, DomainList DEF Doms
<1> QED
  BY <1>1, <1>2 DEF NextDomain, Go, DomainLoop

LEMMA SkipSame ==
  ASSUME RInv, NEW th \in Threads, Step(th), DomainSkip(th),
         NEW i \in DOMAIN Doms(th), NEW d, d = Doms(th)[i].name
  PROVE  SameAt(d)
<1>1. TypeOK /\ ThreadControl(th)
  BY DEF RInv, IInv, Control
<1>2. pc[th] = "domain" /\ ~Its(th)
      /\ NextDomain(th, IF Receiving(th) THEN "post" ELSE "send")
  BY DEF DomainSkip
<1>3. ~SemPost(th)
  BY <1>2 DEF SemPost, Go
<1>4. /\ View(th, d) /\ View(th, d)' /\ MemberAt(th, i) /\ MemberAt(th, i)'
      /\ Doms(th)' = Doms(th) /\ (Receiving(th)' <=> Receiving(th))
      /\ Tid(th)' = Tid(th) /\ (Serves(th)' <=> Serves(th))
      /\ output' = output /\ i \in Nat /\ d \in DomainNames
  BY <1>3, OwnStep
<1>5. DataStays(d)
  BY DEF DomainSkip, DataStays, libVars, imageVars
<1>6. /\ dom'[th] = dom[th] + 1 /\ dom[th] \in Nat
      /\ pc'[th] = IF dom[th] + 1 <= Len(Doms(th)) THEN "domain"
                   ELSE IF Receiving(th) THEN "post" ELSE "send"
      /\ Len(Doms(th)) \in Nat /\ DOMAIN Doms(th) = 1..Len(Doms(th))
  BY <1>1, <1>2, NextFacts
<1>7. i = dom[th] => Doms(th)[i].tid # Tid(th)
  BY <1>2 DEF Its, D
<1>8. (i >= dom[th] /\ Doms(th)[i].tid = Tid(th))
        <=> (i >= dom[th] + 1 /\ Doms(th)[i].tid = Tid(th))
  BY <1>4, <1>6, <1>7
<1>9. Receiving(th) \/ ~Receiving(th)
  OBVIOUS
<1>10. dom[th] + 1 <= Len(Doms(th)) \/ ~(i >= dom[th] + 1)
  BY <1>4, <1>6
<1>11. dgram'[d] = dgram[d]
  BY <1>5 DEF DataStays
<1>12. SameCalls(th, d)
  BY <1>2, <1>4, <1>6, <1>8, <1>10, <1>11 DEF MemberAt, SameCalls
<1> QED
  BY <1>4, <1>5, <1>12, SameViews

LEMMA ProcessSame ==
  ASSUME RInv, NEW th \in Threads, Step(th), DomainProcess(th),
         NEW i \in DOMAIN Doms(th), NEW d, d = Doms(th)[i].name
  PROVE  SameAt(d)
<1>1. TypeOK /\ ThreadControl(th)
  BY DEF RInv, IInv, Control
<1>2. pc[th] = "domain" /\ Its(th) /\ Receiving(th) /\ dom[th] \in DOMAIN Doms(th)
  BY <1>1 DEF DomainProcess, ThreadControl
<1>3. ~SemPost(th)
  BY <1>2 DEF SemPost, Go
<1>4. /\ View(th, d) /\ View(th, d)' /\ MemberAt(th, i) /\ MemberAt(th, i)'
      /\ Doms(th)' = Doms(th) /\ (Receiving(th)' <=> Receiving(th))
      /\ Tid(th)' = Tid(th) /\ (Serves(th)' <=> Serves(th))
      /\ output' = output /\ i \in Nat /\ d \in DomainNames
  BY <1>3, OwnStep
<1>5. /\ image'[d] = image[d] /\ outimage'[d] = outimage[d]
      /\ input'[d] = input[d] /\ wire'[d] = wire[d]
  BY DEF DomainProcess, imageVars
<1>6. D(th).name = d <=> i = dom[th]
  BY <1>1, <1>2, OwnNames
<1>7. dom[th] \in Nat /\ Len(Doms(th)) \in Nat /\ i <= Len(Doms(th))
  <2>1. at[th] \in DOMAIN Master
    BY <1>1 DEF TypeOK, PlacesOK
  <2>2. Len(Doms(th)) \in Nat /\ DOMAIN Doms(th) = 1..Len(Doms(th))
    BY <2>1, DomainList DEF Doms
  <2> QED
    BY <1>2, <2>2
<1>8. \/ D(th).input /\ pc'[th] = "convert" /\ dom'[th] = dom[th]
      \/ /\ ~D(th).input /\ dom'[th] = dom[th] + 1
         /\ pc'[th] = IF dom[th] + 1 <= Len(Doms(th)) THEN "domain" ELSE "post"
  <2>1. CASE D(th).input
    BY <1>1, <2>1 DEF DomainProcess, Go, TypeOK, PlacesOK
  <2>2. CASE ~D(th).input
    BY <1>1, <2>2, NextFacts DEF DomainProcess
  <2> QED
    BY <2>1, <2>2
<1>9. /\ th \notin Filling(d) /\ th \notin Filling(d)'
      /\ th \notin Queueing(d) /\ th \notin Queueing(d)'
      /\ th \notin Sending(d) /\ th \notin Sending(d)'
  BY <1>2, <1>4 DEF MemberAt
<1>10. th \in Fetching(d)' <=> th \in Fetching(d)
  <2>1. i = dom[th] => Doms(th)[i].input = D(th).input
    BY DEF D
  <2> QED
    BY <1>2, <1>4, <1>7, <1>8, <2>1 DEF MemberAt
<1>11. CASE i # dom[th]
  <2>1. dgram'[d] = dgram[d] /\ wc'[d] = wc[d]
    BY <1>1, <1>6, <1>11 DEF DomainProcess, TypeOK, LibraryOK
  <2>2. i >= dom[th] + 1 <=> i >= dom[th]
    BY <1>4, <1>7, <1>11
  <2>3. th \in Processing(d)' <=> th \in Processing(d)
    BY <1>2, <1>4, <1>7, <1>8, <2>2 DEF MemberAt
  <2> QED
    BY <1>4, <1>5, <1>9, <1>10, <2>1, <2>3, SameViews DEF SameCalls, DataStays
<1>12. CASE i = dom[th]
  <2>1. th \in Processing(d)
    <3>1. i >= dom[th] /\ Doms(th)[i].tid = Tid(th)
      BY <1>2, <1>7, <1>12 DEF Its, D
    <3> QED
      BY <1>2, <1>4, <3>1 DEF MemberAt
  <2>2. th \notin Processing(d)'
    BY <1>4, <1>7, <1>8, <1>12 DEF MemberAt
  <2>3. wc'[d] = Processed(d)
    <3>1. wc' = [wc EXCEPT ![D(th).name] =
              CASE dgram[D(th).name] = "answered"        -> "complete"
                [] wc[D(th).name] = "new" /\ dgram[D(th).name] = "idle" -> "new"
                [] OTHER                             -> "zero"]
      BY DEF DomainProcess
    <3>2. wc'[d] = CASE dgram[d] = "answered"        -> "complete"
                [] wc[d] = "new" /\ dgram[d] = "idle" -> "new"
                [] OTHER                             -> "zero"
      BY <1>1, <1>4, <1>6, <1>12, <3>1 DEF TypeOK, LibraryOK
    <3> QED
      BY <3>2 DEF Processed
  <2>4. dgram'[d] = IF dgram[d] = "answered" THEN "idle" ELSE dgram[d]
    BY <1>1, <1>4, <1>6, <1>12 DEF DomainProcess, TypeOK, LibraryOK
  <2>5. WcDone'[d] = WcDone[d] /\ DgramDone'[d] = DgramDone[d]
    BY <1>4, <1>9, <2>1, <2>2, <2>3, <2>4 DEF View
  <2>6. ImageDone'[d] = ImageDone[d] /\ InputDone'[d] = InputDone[d]
    BY <1>4, <1>5, <1>10 DEF View, Sample
  <2>7. OutimageDone'[d] = OutimageDone[d] /\ WireDone'[d] = WireDone[d]
    BY <1>4, <1>5, <1>9 DEF View, Sample
  <2> QED
    BY <2>5, <2>6, <2>7 DEF SameAt
<1> QED
  BY <1>11, <1>12

LEMMA InputSame ==
  ASSUME RInv, NEW th \in Threads, Step(th), ConvertInput(th),
         NEW i \in DOMAIN Doms(th), NEW d, d = Doms(th)[i].name
  PROVE  SameAt(d)
<1>1. TypeOK /\ ThreadControl(th) /\ ThreadPrefix(th)
  BY DEF RInv, IInv, Control, Prefix
<1>2. pc[th] = "convert" /\ Its(th) /\ Receiving(th) /\ dom[th] \in DOMAIN Doms(th)
      /\ D(th).input
  BY <1>1 DEF ConvertInput, ThreadControl
<1>3. ~SemPost(th)
  BY <1>2 DEF SemPost, Go
<1>4. /\ View(th, d) /\ View(th, d)' /\ MemberAt(th, i) /\ MemberAt(th, i)'
      /\ Doms(th)' = Doms(th) /\ (Receiving(th)' <=> Receiving(th))
      /\ Tid(th)' = Tid(th) /\ (Serves(th)' <=> Serves(th))
      /\ output' = output /\ i \in Nat /\ d \in DomainNames
  BY <1>3, OwnStep
<1>5. /\ image'[d] = image[d] /\ outimage'[d] = outimage[d] /\ wc'[d] = wc[d]
      /\ dgram'[d] = dgram[d] /\ wire'[d] = wire[d]
  BY DEF ConvertInput, imageVars, libVars
<1>6. D(th).name = d <=> i = dom[th]
  BY <1>1, <1>2, OwnNames
<1>7. dom[th] \in Nat /\ Len(Doms(th)) \in Nat /\ i <= Len(Doms(th))
  <2>1. at[th] \in DOMAIN Master
    BY <1>1 DEF TypeOK, PlacesOK
  <2>2. Len(Doms(th)) \in Nat /\ DOMAIN Doms(th) = 1..Len(Doms(th))
    BY <2>1, DomainList DEF Doms
  <2> QED
    BY <1>2, <2>2
<1>8. \/ word[th] < Words /\ pc'[th] = "convert" /\ dom'[th] = dom[th]
      \/ /\ ~(word[th] < Words) /\ dom'[th] = dom[th] + 1
         /\ pc'[th] = IF dom[th] + 1 <= Len(Doms(th)) THEN "domain" ELSE "post"
  <2>1. CASE word[th] < Words
    BY <1>2, <2>1 DEF ConvertInput
  <2>2. CASE ~(word[th] < Words)
    BY <1>1, <2>2, NextFacts DEF ConvertInput
  <2> QED
    BY <2>1, <2>2
<1>9. /\ th \notin Filling(d) /\ th \notin Filling(d)'
      /\ th \notin Queueing(d) /\ th \notin Queueing(d)'
      /\ th \notin Sending(d) /\ th \notin Sending(d)'
  BY <1>2, <1>4 DEF MemberAt
<1>10. th \in Processing(d)' <=> th \in Processing(d)
  BY <1>2, <1>4, <1>7, <1>8 DEF MemberAt
<1>11. InputDone'[d] = InputDone[d]
  <2>1. CASE i # dom[th]
    <3>1. input'[d] = input[d]
      BY <1>1, <1>6, <2>1 DEF ConvertInput, TypeOK, DataOK
    <3>2. i >= dom[th] + 1 <=> i >= dom[th]
      BY <1>4, <1>7, <2>1
    <3>3. th \in Fetching(d)' <=> th \in Fetching(d)
      BY <1>2, <1>4, <1>7, <1>8, <3>2 DEF MemberAt
    <3> QED
      BY <1>4, <1>5, <3>1, <3>3 DEF View, Sample
  <2>2. CASE i = dom[th]
    <3>1. i >= dom[th] /\ Doms(th)[i].tid = Tid(th) /\ Doms(th)[i].input
      BY <1>2, <1>7, <2>2 DEF Its, D
    <3>2. th \in Fetching(d)
      BY <1>2, <1>4, <3>1 DEF MemberAt
    <3>3. CASE word[th] < Words
      <4>1. th \in Fetching(d)'
        BY <1>2, <1>4, <1>8, <3>1, <3>3 DEF MemberAt
      <4> QED
        BY <1>4, <1>5, <3>2, <4>1 DEF View, Sample
    <3>4. CASE ~(word[th] < Words)
      <4>1. word[th] = Words /\ word[th] \in 1..Words /\ Words \in Nat
        BY <1>1, <3>4, ConfigAssumption DEF TypeOK, LoopsOK
      <4>2. input[d] \in Image /\ image[d] \in Image
        BY <1>1, <1>4 DEF TypeOK, DataOK
      <4>3. input'[d] = [input[d] EXCEPT ![word[th]] = image[d][word[th]]]
        <5>1. D(th).name = d
          BY <1>6, <2>2
        <5>2. input' = [input EXCEPT ![d][word[th]] = image[d][word[th]]]
          BY <5>1 DEF ConvertInput
        <5> QED
          BY <1>1, <1>4, <5>2 DEF TypeOK, DataOK
      <4>4. \A w \in 1..Words : w < word[th] => input[d][w] = image[d][w]
        BY <1>1, <1>2, <1>6, <2>2 DEF ThreadPrefix
      <4>5. \A w \in 1..Words : input'[d][w] = image[d][w]
        BY <4>1, <4>2, <4>3, <4>4 DEF Image
      <4>6. input'[d] = image[d]
        <5>1. input'[d] \in Image
          BY <1>4, NextRInv DEF Next, RInv, IInv, TypeOK, DataOK
        <5> QED
          BY <4>2, <4>5, <5>1, SameImage
      <4>7. th \notin Fetching(d)'
        BY <1>4, <1>7, <1>8, <2>2, <3>4 DEF MemberAt
      <4> QED
        BY <1>4, <3>2, <4>6, <4>7 DEF View, Sample
    <3> QED
      BY <3>3, <3>4
  <2> QED
    BY <2>1, <2>2
<1>12. ImageDone'[d] = ImageDone[d] /\ WcDone'[d] = WcDone[d]
       /\ DgramDone'[d] = DgramDone[d]
  BY <1>4, <1>5, <1>9, <1>10 DEF View, Sample, Processed
<1>13. OutimageDone'[d] = OutimageDone[d] /\ WireDone'[d] = WireDone[d]
  BY <1>4, <1>5, <1>9 DEF View, Sample
<1> QED
  BY <1>11, <1>12, <1>13 DEF SameAt

LEMMA OutputSame ==
  ASSUME RInv, NEW th \in Threads, Step(th), DomainOutput(th),
         NEW i \in DOMAIN Doms(th), NEW d, d = Doms(th)[i].name
  PROVE  SameAt(d)
<1>1. TypeOK /\ ThreadControl(th)
  BY DEF RInv, IInv, Control
<1>2. /\ pc[th] = "domain" /\ Its(th) /\ ~Receiving(th)
      /\ dom[th] \in DOMAIN Doms(th) /\ dom'[th] = dom[th]
      /\ pc'[th] = IF D(th).output THEN "convert" ELSE "queue"
  BY <1>1 DEF DomainOutput, ThreadControl, Go, TypeOK, PlacesOK
<1>3. ~SemPost(th)
  BY <1>2 DEF SemPost, Go
<1>4. /\ View(th, d) /\ View(th, d)' /\ MemberAt(th, i) /\ MemberAt(th, i)'
      /\ Doms(th)' = Doms(th) /\ (Receiving(th)' <=> Receiving(th))
      /\ Tid(th)' = Tid(th) /\ (Serves(th)' <=> Serves(th))
      /\ output' = output /\ i \in Nat /\ d \in DomainNames
  BY <1>3, OwnStep
<1>5. DataStays(d)
  BY DEF DomainOutput, DataStays, libVars, imageVars
<1>6. dom[th] \in Nat
  BY <1>1 DEF TypeOK, LoopsOK
<1>7. i = dom[th] => Doms(th)[i].output = D(th).output
  BY DEF D
<1>8. dgram'[d] = dgram[d]
  BY <1>5 DEF DataStays
<1>9. /\ th \in Fetching(d)' <=> th \in Fetching(d)
      /\ th \in Processing(d)' <=> th \in Processing(d)
      /\ th \in Queueing(d)' <=> th \in Queueing(d)
      /\ th \in Sending(d)' <=> th \in Sending(d)
  BY <1>2, <1>4, <1>8 DEF MemberAt
<1>10. th \in Filling(d)' <=> th \in Filling(d)
  <2>1. CASE D(th).output
    BY <1>2, <1>4, <2>1 DEF MemberAt
  <2>2. CASE ~D(th).output
    <3>1. i >= dom[th] /\ Doms(th)[i].output <=> i >= dom[th] + 1 /\ Doms(th)[i].output
      BY <1>4, <1>6, <1>7, <2>2
    <3> QED
      BY <1>2, <1>4, <2>2, <3>1 DEF MemberAt
  <2> QED
    BY <2>1, <2>2
<1> QED
  BY <1>4, <1>5, <1>9, <1>10, SameViews DEF SameCalls

LEMMA FillSame ==
  ASSUME RInv, NEW th \in Threads, Step(th), ConvertOutput(th),
         NEW i \in DOMAIN Doms(th), NEW d, d = Doms(th)[i].name
  PROVE  SameAt(d)
<1>1. TypeOK /\ ThreadControl(th) /\ ThreadPrefix(th)
  BY DEF RInv, IInv, Control, Prefix
<1>2. pc[th] = "convert" /\ Its(th) /\ ~Receiving(th) /\ dom[th] \in DOMAIN Doms(th)
      /\ D(th).output
  BY <1>1 DEF ConvertOutput, ThreadControl
<1>3. ~SemPost(th)
  BY <1>2 DEF SemPost, Go
<1>4. /\ View(th, d) /\ View(th, d)' /\ MemberAt(th, i) /\ MemberAt(th, i)'
      /\ Doms(th)' = Doms(th) /\ (Receiving(th)' <=> Receiving(th))
      /\ Tid(th)' = Tid(th) /\ (Serves(th)' <=> Serves(th))
      /\ output' = output /\ i \in Nat /\ d \in DomainNames
  BY <1>3, OwnStep
<1>5. /\ image'[d] = image[d] /\ input'[d] = input[d] /\ wc'[d] = wc[d]
      /\ dgram'[d] = dgram[d] /\ wire'[d] = wire[d] /\ dom'[th] = dom[th]
  BY DEF ConvertOutput, libVars
<1>6. D(th).name = d <=> i = dom[th]
  BY <1>1, <1>2, OwnNames
<1>7. dom[th] \in Nat
  BY <1>1 DEF TypeOK, LoopsOK
<1>8. \/ word[th] < Words /\ pc'[th] = "convert"
      \/ ~(word[th] < Words) /\ pc'[th] = "queue"
  BY <1>1, <1>2 DEF ConvertOutput, Go, TypeOK, PlacesOK
<1>9. /\ th \in Fetching(d)' <=> th \in Fetching(d)
      /\ th \in Processing(d)' <=> th \in Processing(d)
      /\ th \in Queueing(d)' <=> th \in Queueing(d)
      /\ th \in Sending(d)' <=> th \in Sending(d)
  BY <1>2, <1>4, <1>5, <1>8 DEF MemberAt
<1>10. OutimageDone'[d] = OutimageDone[d]
  <2>1. CASE i # dom[th]
    <3>1. outimage'[d] = outimage[d]
      BY <1>1, <1>6, <2>1 DEF ConvertOutput, TypeOK, DataOK
    <3>2. i >= dom[th] + 1 <=> i >= dom[th]
      BY <1>4, <1>7, <2>1
    <3>3. th \in Filling(d)' <=> th \in Filling(d)
      BY <1>2, <1>4, <1>5, <1>8, <3>2 DEF MemberAt
    <3> QED
      BY <1>4, <3>1, <3>3 DEF View, Sample
  <2>2. CASE i = dom[th]
    <3>1. i >= dom[th] /\ Doms(th)[i].tid = Tid(th) /\ Doms(th)[i].output
      BY <1>2, <1>7, <2>2 DEF Its, D
    <3>2. th \in Filling(d)
      BY <1>2, <1>4, <3>1 DEF MemberAt
    <3>3. CASE word[th] < Words
      <4>1. th \in Filling(d)'
        BY <1>2, <1>4, <1>5, <1>8, <3>1, <3>3 DEF MemberAt
      <4> QED
        BY <1>4, <3>2, <4>1 DEF View
    <3>4. CASE ~(word[th] < Words)
      <4> DEFINE v == output[Tid(th)]
      <4>1. word[th] = Words /\ word[th] \in 1..Words /\ Words \in Nat
        BY <1>1, <3>4, ConfigAssumption DEF TypeOK, LoopsOK
      <4>2. v \in 0..(Values - 1)
        BY <1>1, TidOf DEF TypeOK, DataOK
      <4>3. outimage'[d] = [outimage[d] EXCEPT ![word[th]] = v]
        <5>1. D(th).name = d
          BY <1>6, <2>2
        <5>2. outimage' = [outimage EXCEPT ![d][word[th]] = v]
          BY <5>1 DEF ConvertOutput
        <5> QED
          BY <1>1, <1>4, <5>2 DEF TypeOK, DataOK
      <4>4. \A w \in 1..Words : w < word[th] => outimage[d][w] = v
        BY <1>1, <1>2, <1>6, <2>2 DEF ThreadPrefix
      <4>5. outimage[d] \in Image
        BY <1>1, <1>4 DEF TypeOK, DataOK
      <4>6. \A w \in 1..Words : outimage'[d][w] = v
        BY <4>1, <4>3, <4>4, <4>5 DEF Image
      <4>7. outimage'[d] \in Image
        BY <1>4, NextRInv DEF Next, RInv, IInv, TypeOK, DataOK
      <4>8. outimage'[d] = Uniform(v)
        BY <4>6, <4>7 DEF Image, Uniform
      <4>9. th \notin Filling(d)'
        BY <1>4, <1>5, <1>7, <1>8, <2>2, <3>4 DEF MemberAt
      <4>10. Sample(outimage'[d]) = v
        BY <4>2, <4>8, SampleUniform
      <4>11. OutimageDone'[d] = Sample(outimage'[d])
        BY <1>4, <4>9 DEF View, Sample
      <4>12. OutimageDone[d] = v
        BY <1>4, <3>2 DEF View
      <4> QED
        BY <4>10, <4>11, <4>12
    <3> QED
      BY <3>3, <3>4
  <2> QED
    BY <2>1, <2>2
<1>11. ImageDone'[d] = ImageDone[d] /\ InputDone'[d] = InputDone[d]
  BY <1>4, <1>5, <1>9 DEF View, Sample
<1>12. WcDone'[d] = WcDone[d] /\ DgramDone'[d] = DgramDone[d]
  BY <1>4, <1>5, <1>9 DEF View, Processed
<1>13. WireDone'[d] = WireDone[d]
  BY <1>4, <1>5, <1>9, <1>10 DEF View, Sample
<1> QED
  BY <1>10, <1>11, <1>12, <1>13 DEF SameAt

LEMMA QueueSame ==
  ASSUME RInv, NEW th \in Threads, Step(th), DomainQueue(th),
         NEW i \in DOMAIN Doms(th), NEW d, d = Doms(th)[i].name
  PROVE  SameAt(d)
<1>1. TypeOK /\ ThreadControl(th)
  BY DEF RInv, IInv, Control
<1>2. /\ pc[th] = "queue" /\ Its(th) /\ ~Receiving(th)
      /\ dom[th] \in DOMAIN Doms(th) /\ NextDomain(th, "send")
  BY <1>1 DEF DomainQueue, ThreadControl
<1>3. ~SemPost(th)
  BY <1>2 DEF SemPost, Go
<1>4. /\ View(th, d) /\ View(th, d)' /\ MemberAt(th, i) /\ MemberAt(th, i)'
      /\ Doms(th)' = Doms(th) /\ (Receiving(th)' <=> Receiving(th))
      /\ Tid(th)' = Tid(th) /\ (Serves(th)' <=> Serves(th))
      /\ output' = output /\ i \in Nat /\ d \in DomainNames
  BY <1>3, OwnStep
<1>5. /\ image'[d] = image[d] /\ outimage'[d] = outimage[d]
      /\ input'[d] = input[d] /\ wire'[d] = wire[d] /\ wc'[d] = wc[d]
  BY DEF DomainQueue, imageVars
<1>6. D(th).name = d <=> i = dom[th]
  BY <1>1, <1>2, OwnNames
<1>7. /\ dom'[th] = dom[th] + 1 /\ dom[th] \in Nat
      /\ pc'[th] = IF dom[th] + 1 <= Len(Doms(th)) THEN "domain" ELSE "send"
      /\ Len(Doms(th)) \in Nat /\ DOMAIN Doms(th) = 1..Len(Doms(th))
  BY <1>1, <1>2, NextFacts
<1>8. /\ th \notin Fetching(d) /\ th \notin Fetching(d)'
      /\ th \notin Processing(d) /\ th \notin Processing(d)'
  BY <1>2, <1>4 DEF MemberAt
<1>9. th \in Filling(d)' <=> th \in Filling(d)
  BY <1>2, <1>4, <1>7 DEF MemberAt
<1>10. CASE i # dom[th]
  <2>1. dgram'[d] = dgram[d]
    BY <1>1, <1>6, <1>10 DEF DomainQueue, TypeOK, LibraryOK
  <2>2. i >= dom[th] + 1 <=> i >= dom[th]
    BY <1>4, <1>7, <1>10
  <2>3. /\ th \in Queueing(d)' <=> th \in Queueing(d)
        /\ th \in Sending(d)' <=> th \in Sending(d)
    BY <1>2, <1>4, <1>7, <2>1, <2>2 DEF MemberAt
  <2> QED
    BY <1>4, <1>5, <1>8, <1>9, <2>1, <2>3, SameViews DEF SameCalls, DataStays
<1>11. CASE i = dom[th]
  <2>1. i >= dom[th] /\ Doms(th)[i].tid = Tid(th) /\ ~(i >= dom[th] + 1)
    BY <1>2, <1>7, <1>11 DEF Its, D
  <2>2. dgram'[d] = "queued"
    BY <1>1, <1>4, <1>6, <1>11 DEF DomainQueue, TypeOK, LibraryOK
  <2>3. th \in Queueing(d) /\ th \notin Queueing(d)'
    BY <1>2, <1>4, <1>7, <2>1 DEF MemberAt
  <2>4. th \in Sending(d)' <=> th \in Sending(d)
    BY <1>2, <1>4, <1>7, <2>1, <2>2 DEF MemberAt
  <2>5. DgramDone'[d] = DgramDone[d] /\ WcDone'[d] = WcDone[d]
    BY <1>4, <1>5, <1>8, <2>2, <2>3, <2>4 DEF View
  <2>6. ImageDone'[d] = ImageDone[d] /\ InputDone'[d] = InputDone[d]
    BY <1>4, <1>5, <1>8 DEF View, Sample
  <2>7. OutimageDone'[d] = OutimageDone[d]
    BY <1>4, <1>5, <1>9 DEF View, Sample
  <2>8. WireDone'[d] = WireDone[d]
    BY <1>4, <1>5, <2>4, <2>7 DEF View, Sample
  <2> QED
    BY <2>5, <2>6, <2>7, <2>8 DEF SameAt
<1> QED
  BY <1>10, <1>11

LEMMA SendSame ==
  ASSUME RInv, NEW th \in Threads, Step(th), MasterSend(th),
         NEW i \in DOMAIN Doms(th), NEW d, d = Doms(th)[i].name
  PROVE  SameAt(d)
<1>1. TypeOK /\ ThreadControl(th) /\ at[th] \in DOMAIN Master
  BY DEF RInv, IInv, Control, TypeOK, PlacesOK
<1>2. /\ pc[th] = "send" /\ ~Receiving(th) /\ dom[th] > Len(Doms(th))
      /\ pc'[th] = "post"
  BY <1>1 DEF MasterSend, ThreadControl, Go, TypeOK, PlacesOK
<1>3. ~SemPost(th)
  BY <1>2 DEF SemPost, Go
<1>4. /\ View(th, d) /\ View(th, d)' /\ MemberAt(th, i) /\ MemberAt(th, i)'
      /\ Doms(th)' = Doms(th) /\ (Receiving(th)' <=> Receiving(th))
      /\ Tid(th)' = Tid(th) /\ (Serves(th)' <=> Serves(th))
      /\ output' = output /\ i \in Nat /\ d \in DomainNames
  BY <1>3, OwnStep
<1>5. /\ image'[d] = image[d] /\ outimage'[d] = outimage[d]
      /\ input'[d] = input[d] /\ wc'[d] = wc[d]
  BY DEF MasterSend, imageVars
<1>6. ~(i >= dom[th])
  <2>1. Len(Doms(th)) \in Nat /\ DOMAIN Doms(th) = 1..Len(Doms(th))
    BY <1>1, DomainList DEF Doms
  <2>2. dom[th] \in Nat
    BY <1>1 DEF TypeOK, LoopsOK
  <2> QED
    BY <1>2, <2>1, <2>2
<1>7. /\ th \notin Fetching(d) /\ th \notin Fetching(d)'
      /\ th \notin Processing(d) /\ th \notin Processing(d)'
      /\ th \notin Filling(d) /\ th \notin Filling(d)'
      /\ th \notin Queueing(d) /\ th \notin Queueing(d)'
      /\ th \notin Sending(d)'
      /\ th \in Sending(d) <=> Serves(th) /\ dgram[d] = "queued"
  BY <1>2, <1>4, <1>6 DEF MemberAt
<1>8. IF Serves(th) /\ dgram[d] = "queued"
      THEN dgram'[d] = "sent" /\ wire'[d] = outimage[d]
      ELSE dgram'[d] = dgram[d] /\ wire'[d] = wire[d]
  <2> DEFINE queued == {Domain[at[th]][k].name : k \in DOMAIN Domain[at[th]]}
                         \cap {x \in DomainNames : dgram[x] = "queued"}
  <2>1. d \in queued <=> dgram[d] = "queued"
    BY <1>4 DEF Doms
  <2>2. IF Serves(th)
        THEN /\ dgram' = [x \in DomainNames |->
                  IF x \in queued THEN "sent" ELSE dgram[x]]
             /\ wire' = [x \in DomainNames |->
                  IF x \in queued THEN outimage[x] ELSE wire[x]]
        ELSE UNCHANGED <<dgram, wire>>
    BY DEF MasterSend
  <2> HIDE DEF queued
  <2> QED
    BY <1>4, <2>1, <2>2
<1>9. ImageDone'[d] = ImageDone[d] /\ InputDone'[d] = InputDone[d]
  BY <1>4, <1>5, <1>7 DEF View, Sample
<1>10. OutimageDone'[d] = OutimageDone[d] /\ OutimageDone[d] = Sample(outimage[d])
  BY <1>4, <1>5, <1>7 DEF View, Sample
<1>11. WcDone'[d] = WcDone[d] /\ DgramDone'[d] = DgramDone[d]
  BY <1>4, <1>5, <1>7, <1>8 DEF View
<1>12. WireDone'[d] = WireDone[d]
  BY <1>4, <1>7, <1>8, <1>10 DEF View, Sample
<1> QED
  BY <1>9, <1>10, <1>11, <1>12 DEF SameAt

\* A call that has not taken effect, or is over, has nothing left to do.
LEMMA IdleSame ==
  ASSUME RInv, NEW th \in Threads, Step(th),
         SemPost(th) \/ (SemWait(th) /\ Receiving(th))
  PROVE  \A d \in DomainNames : SameAt(d)
<1> SUFFICES ASSUME NEW d \in DomainNames PROVE SameAt(d)
  OBVIOUS
<1>1. TypeOK
  BY DEF RInv, IInv
<1>2. DataStays(d)
  BY DEF SemPost, SemWait, DataStays, libVars, imageVars
<1>3. /\ pc[th] \in {"wait", "post"}
      /\ pc'[th] \in {"wait", "receive"}
  BY <1>1 DEF SemPost, SemWait, Go, TypeOK, PlacesOK
<1>4. th \notin Callers(d) /\ th \notin Callers(d)'
  <2>1. /\ th \notin Receives /\ th \notin Receives'
        /\ th \notin Sends /\ th \notin Sends'
    BY <1>3 DEF Receives, Sends
  <2> QED
    BY <2>1 DEF Callers, Fetching, Processing, Filling, Queueing, Sending
<1> QED
  BY <1>1, <1>2, <1>4, Untouched

\* The steps at which a call takes effect.
Effect(th) ==
  MasterReceive(th) \/ (SemWait(th) /\ ~Receiving(th))

LEMMA QuietSame ==
  ASSUME RInv, NEW th \in Threads, Step(th), ~Effect(th)
  PROVE  \A d \in DomainNames : SameAt(d)
<1>1. CASE SemPost(th) \/ (SemWait(th) /\ Receiving(th))
  BY <1>1, IdleSame
<1>2. CASE ~(SemPost(th) \/ (SemWait(th) /\ Receiving(th)))
  <2> SUFFICES ASSUME NEW d \in DomainNames PROVE SameAt(d)
    OBVIOUS
  <2>1. CASE d \notin NamesAt(at[th])
    BY <2>1, Elsewhere
  <2>2. CASE d \in NamesAt(at[th])
    <3>1. PICK i \in DOMAIN Doms(th) : d = Doms(th)[i].name
      BY <2>2 DEF NamesAt, Doms
    <3>2. ~SemPost(th) /\ ~SemWait(th) /\ ~MasterReceive(th)
      BY <1>2, Zenon DEF Effect
    <3>3. \/ DomainSkip(th) \/ DomainProcess(th) \/ ConvertInput(th)
          \/ DomainOutput(th) \/ ConvertOutput(th) \/ DomainQueue(th)
          \/ MasterSend(th)
      BY <3>2, Zenon DEF Step
    <3> QED
      BY <3>1, <3>3, SkipSame, ProcessSame, InputSame, OutputSame, FillSame,
         QueueSame, SendSame
  <2> QED
    BY <2>1, <2>2
<1> QED
  BY <1>1, <1>2

-----------------------------------------------------------------------------
(* The reference clock.                                                    *)

ClockAt(th) ==
  th \in Clocking(at[th])
    <=> /\ ~Receiving(th) /\ pc[th] \in {"domain", "convert", "queue", "send"}
        /\ Serves(th)

LEMMA ClockAtHolds == ASSUME NEW th \in Threads PROVE ClockAt(th)
  BY DEF ClockAt, Clocking, Sends

LEMMA OthersClock ==
  ASSUME TypeOK, NEW th \in Threads, Step(th), NEW m, NEW t \in Threads, t # th
  PROVE  t \in Clocking(m)' <=> t \in Clocking(m)
<1>1. Stays(t)
  BY StepOthers
<1>2. (Receiving(t)' <=> Receiving(t)) /\ (Serves(t)' <=> Serves(t))
  BY <1>1 DEF Stays, Receiving, Tid, Serves
<1> QED
  BY <1>1, <1>2 DEF Stays, Clocking, Sends

\* A step that leaves the countdown alone and takes no effect as a send.
LEMMA ClockSame ==
  ASSUME TypeOK, NEW th \in Threads, Step(th), NEW m \in DOMAIN Master,
         th \in Clocking(m)' <=> th \in Clocking(m),
         refclk_trigger'[m] = refclk_trigger[m]
  PROVE  RefclkDone'[m] = RefclkDone[m]
<1>1. Clocking(m) \subseteq Threads /\ Clocking(m)' \subseteq Threads
  BY DEF Clocking, Sends
<1>2. \A t \in Threads : t \in Clocking(m)' <=> t \in Clocking(m)
  BY OthersClock
<1>3. Clocking(m)' = Clocking(m)
  BY <1>1, <1>2
<1>4. Counted(m)' = Counted(m)
  BY DEF Counted, Sync
<1> QED
  BY <1>3, <1>4 DEF RefclkDone

LEMMA QuietClock ==
  ASSUME RInv, NEW th \in Threads, Step(th), ~(SemWait(th) /\ ~Receiving(th)),
         NEW m \in DOMAIN Master
  PROVE  RefclkDone'[m] = RefclkDone[m]
<1>1. TypeOK /\ ThreadControl(th)
  BY DEF RInv, IInv, Control
<1>2. CASE SemPost(th) \/ (SemWait(th) /\ Receiving(th))
  <2>1. /\ pc[th] \in {"wait", "post"}
        /\ pc'[th] \in {"wait", "receive"}
    BY <1>1, <1>2 DEF SemPost, SemWait, Go, TypeOK, PlacesOK
  <2>2. th \notin Clocking(m) /\ th \notin Clocking(m)'
    BY <2>1 DEF Clocking, Sends
  <2>3. refclk_trigger' = refclk_trigger
    BY <1>2 DEF SemPost, SemWait
  <2> QED
    BY <1>1, <2>2, <2>3, ClockSame
<1>3. CASE MasterSend(th)
  <2>1. /\ pc[th] = "send" /\ pc'[th] = "post" /\ ~Receiving(th)
    BY <1>1, <1>3 DEF MasterSend, ThreadControl, Go, TypeOK, PlacesOK
  <2>2. th \notin Clocking(m)'
    BY <2>1 DEF Clocking, Sends
  <2>3. CASE m # at[th] \/ ~Serves(th)
    <3>1. th \notin Clocking(m)
      BY <2>3 DEF Clocking
    <3>2. refclk_trigger'[m] = refclk_trigger[m]
      BY <1>1, <1>3, <2>3 DEF MasterSend, TypeOK, RefclkOK
    <3> QED
      BY <1>1, <2>2, <3>1, <3>2, ClockSame
  <2>4. CASE m = at[th] /\ Serves(th)
    <3>1. th \in Clocking(m)
      BY <2>1, <2>4 DEF Clocking, Sends
    <3>2. RefclkDone[m] = Counted(m)
      BY <3>1 DEF RefclkDone
    <3>3. refclk_trigger'[m] =
            CASE Sync(m) -> Master[m].refclk_trigger_init
              [] ~Sync(m) /\ Master[m].refclk_trigger_init = 0 -> refclk_trigger[m]
              [] OTHER -> refclk_trigger[m] - 1
      <4>1. refclk_trigger' = [refclk_trigger EXCEPT ![m] =
               CASE Sync(m) -> Master[m].refclk_trigger_init
                 [] ~Sync(m) /\ Master[m].refclk_trigger_init = 0 -> @
                 [] OTHER -> @ - 1]
        BY <1>3, <2>4 DEF MasterSend
      <4> QED
        BY <1>1, <4>1 DEF TypeOK, RefclkOK
    <3>4. Clocking(m)' = {}
      <4>1. ASSUME NEW t \in Clocking(m)' PROVE FALSE
        <5>1. t \in Threads /\ at'[t] = m /\ pc'[t] # "wait" /\ t # th
          BY <2>2, <4>1 DEF Clocking, Sends
        <5>2. ~SemPost(th)
          BY <2>1 DEF SemPost, Go
        <5>3. at'[th] = m
          BY <2>4, <5>2, StepCall
        <5> QED
          BY <5>1, <5>2, <5>3, AloneThere DEF Sole
      <4> QED
        BY <4>1
    <3>5. RefclkDone'[m] = refclk_trigger'[m]
      BY <3>4 DEF RefclkDone
    <3> QED
      BY <3>2, <3>3, <3>5 DEF Counted
  <2> QED
    BY <2>3, <2>4
<1>4. CASE ~(SemPost(th) \/ SemWait(th) \/ MasterSend(th))
  <2>1. at' = at /\ pos' = pos /\ (Receiving(th)' <=> Receiving(th))
        /\ (Serves(th)' <=> Serves(th))
    BY <1>4, StepCall DEF Receiving, Serves, Tid
  <2>2. refclk_trigger' = refclk_trigger
    BY <1>4 DEF Step, MasterReceive, DomainSkip, DomainProcess,
       ConvertInput, DomainOutput, ConvertOutput, DomainQueue
  <2>3. CASE Receiving(th)
    <3>1. th \notin Clocking(m) /\ th \notin Clocking(m)'
      BY <2>1, <2>3 DEF Clocking, Sends
    <3> QED
      BY <1>1, <2>2, <3>1, ClockSame
  <2>4. CASE ~Receiving(th)
    <3>1. /\ pc[th] \in {"domain", "convert", "queue"}
          /\ pc'[th] \in {"domain", "convert", "queue", "send"}
      <4>1. pc \in [Threads -> Places]
        BY <1>1 DEF TypeOK, PlacesOK
      <4>2. CASE DomainSkip(th)
        BY <2>4, <4>1, <4>2 DEF DomainSkip, NextDomain, Go, DomainLoop
      <4>3. CASE DomainOutput(th)
        BY <4>1, <4>3 DEF DomainOutput, Go
      <4>4. CASE ConvertOutput(th)
        BY <4>1, <4>4 DEF ConvertOutput, Go
      <4>5. CASE DomainQueue(th)
        BY <4>1, <4>5 DEF DomainQueue, NextDomain, Go, DomainLoop
      <4>6. ~MasterReceive(th) /\ ~DomainProcess(th) /\ ~ConvertInput(th)
        BY <1>1, <2>4 DEF MasterReceive, DomainProcess, ConvertInput,
           ThreadControl, Go
      <4> QED
        BY <1>4, <4>2, <4>3, <4>4, <4>5, <4>6 DEF Step
    <3>2. th \in Clocking(m)' <=> th \in Clocking(m)
      BY <2>1, <2>4, <3>1 DEF Clocking, Sends
    <3> QED
      BY <1>1, <2>2, <3>2, ClockSame
  <2> QED
    BY <2>3, <2>4
<1> QED
  BY <1>2, <1>3, <1>4, Zenon

-----------------------------------------------------------------------------
(* Steps of the threads are steps of the calls, or none.                   *)

LEMMA Stutter ==
  ASSUME \A d \in DomainNames : SameAt(d), output' = output,
         \A m \in DOMAIN Master : RefclkDone'[m] = RefclkDone[m]
  PROVE  UNCHANGED Atomic!vars
<1>1. ImageDone' = ImageDone
  BY DEF SameAt, ImageDone
<1>2. InputDone' = InputDone
  BY DEF SameAt, InputDone
<1>3. WcDone' = WcDone
  BY DEF SameAt, WcDone
<1>4. OutimageDone' = OutimageDone
  BY DEF SameAt, OutimageDone
<1>5. DgramDone' = DgramDone
  BY DEF SameAt, DgramDone
<1>6. WireDone' = WireDone
  BY DEF SameAt, WireDone
<1>7. RefclkDone' = RefclkDone
  BY DEF RefclkDone
<1> QED
  BY <1>1, <1>2, <1>3, <1>4, <1>5, <1>6, <1>7 DEF Atomic!vars

LEMMA AtomicSets ==
  ASSUME NEW m \in DOMAIN Master, NEW i \in DOMAIN Domain[m], NEW tid, NEW d,
         d = Domain[m][i].name
  PROVE  /\ d \in Atomic!Names(m)
         /\ d \in Atomic!Mine(m, tid) <=> Domain[m][i].tid = tid
         /\ d \in Atomic!Inputs(m) <=> Domain[m][i].input
         /\ d \in Atomic!Outputs(m) <=> Domain[m][i].output
<1>1. \A j \in DOMAIN Domain[m] : Domain[m][j].name = d => j = i
  BY ListAssumption
<1>2. d \in Atomic!Names(m)
  BY DEF Atomic!Names
<1>3. d \in Atomic!Mine(m, tid) <=> Domain[m][i].tid = tid
  BY <1>1 DEF Atomic!Mine, Atomic!Select
<1>4. d \in Atomic!Inputs(m) <=> Domain[m][i].input
  BY <1>1 DEF Atomic!Inputs, Atomic!Select
<1>5. d \in Atomic!Outputs(m) <=> Domain[m][i].output
  BY <1>1 DEF Atomic!Outputs, Atomic!Select
<1> QED
  BY <1>2, <1>3, <1>4, <1>5

LEMMA AtomicElsewhere ==
  ASSUME NEW m, NEW tid, NEW d, d \notin NamesAt(m)
  PROVE  d \notin Atomic!Names(m) /\ d \notin Atomic!Mine(m, tid)
<1>1. d \notin Atomic!Names(m)
  BY DEF Atomic!Names, NamesAt
<1>2. d \notin Atomic!Mine(m, tid)
  BY DEF Atomic!Mine, Atomic!Select, NamesAt
<1> QED
  BY <1>1, <1>2

\* ecs_send() takes effect when it has the lock.
LEMMA SendAt ==
  ASSUME RInv, NEW th \in Threads, Step(th), SemWait(th), ~Receiving(th),
         NEW i \in DOMAIN Doms(th), NEW d, d = Doms(th)[i].name
  PROVE  LET its == Doms(th)[i].tid = Tid(th)
             sent == Serves(th) /\ (its \/ DgramDone[d] = "queued")
         IN  /\ ImageDone'[d] = ImageDone[d] /\ InputDone'[d] = InputDone[d]
             /\ WcDone'[d] = WcDone[d]
             /\ OutimageDone'[d] = IF its /\ Doms(th)[i].output
                                   THEN output[Tid(th)] ELSE OutimageDone[d]
             /\ DgramDone'[d] = IF sent THEN "sent"
                                ELSE IF its THEN "queued" ELSE DgramDone[d]
             /\ WireDone'[d] = IF sent THEN OutimageDone'[d] ELSE WireDone[d]
<1> DEFINE its == Doms(th)[i].tid = Tid(th)
           sent == Serves(th) /\ (its \/ DgramDone[d] = "queued")
<1>1. TypeOK /\ at[th] \in DOMAIN Master
  BY DEF RInv, IInv, TypeOK, PlacesOK
<1>2. /\ pc[th] = "wait" /\ dom'[th] = 1
      /\ pc'[th] = IF 1 <= Len(Doms(th)) THEN "domain" ELSE "send"
  BY <1>1 DEF SemWait, Go, DomainLoop, TypeOK, PlacesOK, LoopsOK
<1>3. ~SemPost(th)
  BY <1>2 DEF SemPost, Go
<1>4. /\ View(th, d) /\ View(th, d)' /\ MemberAt(th, i) /\ MemberAt(th, i)'
      /\ Doms(th)' = Doms(th) /\ (Receiving(th)' <=> Receiving(th))
      /\ Tid(th)' = Tid(th) /\ (Serves(th)' <=> Serves(th))
      /\ output' = output /\ i \in Nat /\ d \in DomainNames
  BY <1>3, OwnStep
<1>5. /\ image'[d] = image[d] /\ outimage'[d] = outimage[d]
      /\ input'[d] = input[d] /\ wc'[d] = wc[d]
      /\ dgram'[d] = dgram[d] /\ wire'[d] = wire[d]
  BY DEF SemWait, imageVars, libVars
<1>6. i >= 1
  <2>1. Len(Doms(th)) \in Nat /\ DOMAIN Doms(th) = 1..Len(Doms(th))
    BY <1>1, DomainList DEF Doms
  <2> QED
    BY <2>1
<1>7. /\ th \notin Fetching(d) /\ th \notin Fetching(d)'
      /\ th \notin Processing(d) /\ th \notin Processing(d)'
      /\ th \notin Filling(d) /\ th \notin Queueing(d) /\ th \notin Sending(d)
  BY <1>2, <1>4 DEF MemberAt
<1>8. DgramDone[d] = dgram[d] /\ OutimageDone[d] = Sample(outimage[d])
      /\ WireDone[d] = Sample(wire[d])
  BY <1>4, <1>7 DEF View
<1>9. /\ th \in Filling(d)' <=> its /\ Doms(th)[i].output
      /\ th \in Queueing(d)' <=> its
      /\ th \in Sending(d)' <=> sent
  BY <1>2, <1>4, <1>5, <1>6, <1>8 DEF MemberAt
<1>10. ImageDone'[d] = ImageDone[d] /\ InputDone'[d] = InputDone[d]
       /\ WcDone'[d] = WcDone[d]
  BY <1>4, <1>5, <1>7 DEF View, Sample
<1>11. OutimageDone'[d] = IF its /\ Doms(th)[i].output
                          THEN output[Tid(th)] ELSE OutimageDone[d]
  BY <1>4, <1>5, <1>8, <1>9 DEF View, Sample
<1>12. DgramDone'[d] = IF sent THEN "sent"
                       ELSE IF its THEN "queued" ELSE DgramDone[d]
  BY <1>4, <1>5, <1>7, <1>8, <1>9 DEF View
<1>13. WireDone'[d] = IF sent THEN OutimageDone'[d] ELSE WireDone[d]
  BY <1>4, <1>5, <1>8, <1>9 DEF View, Sample
<1> QED
  BY <1>10, <1>11, <1>12, <1>13

LEMMA SendClock ==
  ASSUME RInv, NEW th \in Threads, Step(th), SemWait(th), ~Receiving(th)
  PROVE  LET init == Master[at[th]].refclk_trigger_init
         IN  RefclkDone' = IF Serves(th)
                           THEN [RefclkDone EXCEPT ![at[th]] =
                                   CASE init = 0 -> @
                                     [] init # 0 /\ @ = 1 -> init
                                     [] OTHER -> @ - 1]
                           ELSE RefclkDone
<1> DEFINE m == at[th]
           init == Master[m].refclk_trigger_init
<1>1. TypeOK /\ at[th] \in DOMAIN Master
  BY DEF RInv, IInv, TypeOK, PlacesOK
<1>2. pc[th] = "wait" /\ pc'[th] \in {"domain", "send"}
      /\ refclk_trigger' = refclk_trigger
  BY <1>1 DEF SemWait, Go, DomainLoop, TypeOK, PlacesOK
<1>3. ~SemPost(th)
  BY <1>2 DEF SemPost, Go
<1>4. at' = at /\ (Receiving(th)' <=> Receiving(th)) /\ (Serves(th)' <=> Serves(th))
  BY <1>3, StepCall DEF Receiving, Serves, Tid
<1>5. \A n \in DOMAIN Master : n # m \/ ~Serves(th) => RefclkDone'[n] = RefclkDone[n]
  <2> SUFFICES ASSUME NEW n \in DOMAIN Master, n # m \/ ~Serves(th)
               PROVE  RefclkDone'[n] = RefclkDone[n]
    OBVIOUS
  <2>1. th \notin Clocking(n) /\ th \notin Clocking(n)'
    BY <1>4 DEF Clocking
  <2> QED
    BY <1>1, <1>2, <2>1, ClockSame
<1>6. CASE ~Serves(th)
  <2>1. RefclkDone' = RefclkDone
    BY <1>5, <1>6 DEF RefclkDone
  <2> QED
    BY <1>6, <2>1
<1>7. CASE Serves(th)
  <2>1. Clocking(m) = {}
    <3>1. ASSUME NEW t \in Clocking(m) PROVE FALSE
      <4>1. t \in Threads /\ at[t] = m /\ pc[t] # "wait"
        BY <3>1 DEF Clocking, Sends
      <4> QED
        BY <1>2, <1>3, <4>1, AloneThere DEF Sole
    <3> QED
      BY <3>1
  <2>2. th \in Clocking(m)'
    BY <1>2, <1>4, <1>7 DEF Clocking, Sends
  <2>3. RefclkDone[m] = refclk_trigger[m]
    BY <1>1, <2>1 DEF RefclkDone
  <2>4. RefclkDone'[m] = Counted(m)
    <3>1. RefclkDone'[m] = Counted(m)'
      BY <1>1, <1>4, <2>2 DEF RefclkDone
    <3>2. Counted(m)' = Counted(m)
      BY <1>2, <1>4 DEF Counted, Sync
    <3> QED
      BY <3>1, <3>2
  <2>5. RefclkDone'[m] = CASE init = 0 -> RefclkDone[m]
                           [] init # 0 /\ RefclkDone[m] = 1 -> init
                           [] OTHER -> RefclkDone[m] - 1
    <3>1. CASE init = 0
      BY <2>3, <2>4, <3>1 DEF Counted, Sync
    <3>2. CASE init # 0 /\ refclk_trigger[m] = 1
      BY <2>3, <2>4, <3>2 DEF Counted, Sync
    <3>3. CASE init # 0 /\ refclk_trigger[m] # 1
      BY <2>3, <2>4, <3>3 DEF Counted, Sync
    <3> QED
      BY <3>1, <3>2, <3>3
  <2>6. RefclkDone' = [RefclkDone EXCEPT ![m] = RefclkDone'[m]]
    BY <1>1, <1>5 DEF RefclkDone
  <2> QED
    BY <1>7, <2>5, <2>6
<1> QED
  BY <1>6, <1>7

LEMMA SendTakesEffect ==
  ASSUME RInv, NEW th \in Threads, Step(th), SemWait(th), ~Receiving(th)
  PROVE  Atomic!Send(at[th], Tid(th))
<1> DEFINE m == at[th]
           tid == Tid(th)
           mine == Atomic!Mine(m, tid)
           queued == mine \cup {d \in Atomic!Names(m) : DgramDone[d] = "queued"}
<1>1. at[th] \in DOMAIN Master
  BY DEF RInv, IInv, TypeOK, PlacesOK
<1>2. output' = output
  BY DEF SemWait
<1>3. ASSUME NEW d \in DomainNames
      PROVE  /\ ImageDone'[d] = ImageDone[d] /\ InputDone'[d] = InputDone[d]
             /\ WcDone'[d] = WcDone[d]
             /\ OutimageDone'[d] = IF d \in mine \cap Atomic!Outputs(m)
                                   THEN output[tid] ELSE OutimageDone[d]
             /\ DgramDone'[d] =
                  IF Serves(th) /\ d \in queued THEN "sent"
                  ELSE IF d \in mine THEN "queued" ELSE DgramDone[d]
             /\ WireDone'[d] = IF Serves(th) /\ d \in queued
                               THEN OutimageDone'[d] ELSE WireDone[d]
  <2>1. CASE d \notin NamesAt(m)
    <3>1. SameAt(d)
      BY <2>1, Elsewhere
    <3>2. d \notin mine /\ d \notin queued
      BY <2>1, AtomicElsewhere
    <3> HIDE DEF mine, queued
    <3> QED
      BY <3>1, <3>2 DEF SameAt
  <2>2. CASE d \in NamesAt(m)
    <3>1. PICK i \in DOMAIN Doms(th) : d = Doms(th)[i].name
      BY <2>2 DEF NamesAt, Doms
    <3>2. /\ d \in Atomic!Names(m)
          /\ d \in mine <=> Doms(th)[i].tid = tid
          /\ d \in Atomic!Outputs(m) <=> Doms(th)[i].output
      BY <1>1, <3>1, AtomicSets DEF Doms
    <3>3. d \in queued <=> d \in mine \/ DgramDone[d] = "queued"
      BY <3>2
    <3> DEFINE its == Doms(th)[i].tid = tid
               sent == Serves(th) /\ (its \/ DgramDone[d] = "queued")
    <3>4. /\ ImageDone'[d] = ImageDone[d] /\ InputDone'[d] = InputDone[d]
          /\ WcDone'[d] = WcDone[d]
          /\ OutimageDone'[d] = IF its /\ Doms(th)[i].output
                                THEN output[tid] ELSE OutimageDone[d]
          /\ DgramDone'[d] = IF sent THEN "sent"
                             ELSE IF its THEN "queued" ELSE DgramDone[d]
          /\ WireDone'[d] = IF sent THEN OutimageDone'[d] ELSE WireDone[d]
      BY <3>1, SendAt
    <3>5. (d \in mine <=> its) /\ (Serves(th) /\ d \in queued <=> sent)
          /\ (d \in mine \cap Atomic!Outputs(m) <=> its /\ Doms(th)[i].output)
      BY <3>2, <3>3
    <3> HIDE DEF mine, queued, its, sent
    <3> QED
      BY <3>4, <3>5
  <2> QED
    BY <2>1, <2>2
<1> HIDE DEF mine, queued
<1>4. ImageDone' = ImageDone /\ InputDone' = InputDone /\ WcDone' = WcDone
  <2>1. ImageDone' = ImageDone
    BY <1>3 DEF ImageDone
  <2>2. InputDone' = InputDone
    BY <1>3 DEF InputDone
  <2>3. WcDone' = WcDone
    BY <1>3 DEF WcDone
  <2> QED
    BY <2>1, <2>2, <2>3
<1>5. OutimageDone' = [d \in DOMAIN OutimageDone |->
                         IF d \in mine \cap Atomic!Outputs(m)
                         THEN output[tid] ELSE OutimageDone[d]]
  BY <1>3 DEF OutimageDone
<1>6. DgramDone' = [d \in DOMAIN DgramDone |->
                      IF Serves(th) /\ d \in queued THEN "sent"
                      ELSE IF d \in mine THEN "queued" ELSE DgramDone[d]]
  BY <1>3 DEF DgramDone
<1>7. WireDone' = [d \in DOMAIN WireDone |->
                     IF Serves(th) /\ d \in queued
                     THEN OutimageDone'[d] ELSE WireDone[d]]
  BY <1>3 DEF WireDone
<1>8. mine \subseteq queued
  BY DEF queued
<1>9. CASE Serves(th)
  <2>1. Master[m].fastest_tid = tid
    BY <1>9 DEF Serves
  <2>2. DgramDone' = [d \in DOMAIN DgramDone |->
                        IF d \in queued THEN "sent" ELSE DgramDone[d]]
    BY <1>6, <1>8, <1>9
  <2>3. WireDone' = [d \in DOMAIN WireDone |->
                       IF d \in queued THEN OutimageDone'[d] ELSE WireDone[d]]
    BY <1>7, <1>9
  <2>4. RefclkDone' = [RefclkDone EXCEPT ![m] =
                         CASE Master[m].refclk_trigger_init = 0 -> @
                           [] Master[m].refclk_trigger_init # 0 /\ @ = 1
                                -> Master[m].refclk_trigger_init
                           [] OTHER -> @ - 1]
    BY <1>9, SendClock
  <2> QED
    BY <1>2, <1>4, <1>5, <2>1, <2>2, <2>3, <2>4
       DEF Atomic!Send, Atomic!Put, mine, queued
<1>10. CASE ~Serves(th)
  <2>1. Master[m].fastest_tid # tid
    BY <1>10 DEF Serves
  <2>2. DgramDone' = [d \in DOMAIN DgramDone |->
                        IF d \in mine THEN "queued" ELSE DgramDone[d]]
    BY <1>6, <1>10
  <2>3. WireDone' = WireDone
    BY <1>7, <1>10 DEF WireDone
  <2>4. RefclkDone' = RefclkDone
    BY <1>10, SendClock
  <2> QED
    BY <1>2, <1>4, <1>5, <2>1, <2>2, <2>3, <2>4
       DEF Atomic!Send, Atomic!Put, mine, queued
<1> QED
  BY <1>9, <1>10

\* ecs_receive() takes effect when it has fetched the frame.
LEMMA ReceiveAt ==
  ASSUME RInv, NEW th \in Threads, Step(th), MasterReceive(th),
         NEW i \in DOMAIN Doms(th), NEW d, d = Doms(th)[i].name,
         NEW lost \in BOOLEAN, NEW v \in 0..(Values - 1),
         dgram'[d] = IF Serves(th) /\ dgram[d] = "sent"
                     THEN IF lost THEN "idle" ELSE "answered" ELSE dgram[d],
         image'[d] = IF /\ Serves(th) /\ dgram[d] = "sent"
                        /\ Doms(th)[i].input /\ ~lost
                     THEN Uniform(v) ELSE image[d]
  PROVE  LET its == Doms(th)[i].tid = Tid(th)
             back == Serves(th) /\ DgramDone[d] = "sent"
             status == IF back THEN IF lost THEN "idle" ELSE "answered"
                               ELSE DgramDone[d]
         IN  /\ OutimageDone'[d] = OutimageDone[d] /\ WireDone'[d] = WireDone[d]
             /\ ImageDone'[d] = IF back /\ Doms(th)[i].input /\ ~lost
                                THEN v ELSE ImageDone[d]
             /\ WcDone'[d] = IF its THEN Atomic!Processed(status, WcDone[d])
                                    ELSE WcDone[d]
             /\ DgramDone'[d] = IF its /\ status = "answered" THEN "idle"
                                                              ELSE status
             /\ InputDone'[d] = IF its /\ Doms(th)[i].input
                                THEN ImageDone'[d] ELSE InputDone[d]
<1> DEFINE its == Doms(th)[i].tid = Tid(th)
           back == Serves(th) /\ DgramDone[d] = "sent"
           status == IF back THEN IF lost THEN "idle" ELSE "answered"
                             ELSE DgramDone[d]
<1>1. TypeOK /\ at[th] \in DOMAIN Master /\ ThreadControl(th)
  BY DEF RInv, IInv, TypeOK, PlacesOK, Control
<1>2. /\ pc[th] = "receive" /\ dom'[th] = 1 /\ Receiving(th)
      /\ pc'[th] = IF 1 <= Len(Doms(th)) THEN "domain" ELSE "post"
  BY <1>1 DEF MasterReceive, Go, DomainLoop, ThreadControl, TypeOK, PlacesOK
<1>3. ~SemPost(th)
  BY <1>2 DEF SemPost, Go
<1>4. /\ View(th, d) /\ View(th, d)' /\ MemberAt(th, i) /\ MemberAt(th, i)'
      /\ Doms(th)' = Doms(th) /\ (Receiving(th)' <=> Receiving(th))
      /\ Tid(th)' = Tid(th) /\ (Serves(th)' <=> Serves(th))
      /\ output' = output /\ i \in Nat /\ d \in DomainNames
  BY <1>3, OwnStep
<1>5. /\ outimage'[d] = outimage[d] /\ input'[d] = input[d]
      /\ wc'[d] = wc[d] /\ wire'[d] = wire[d]
  BY DEF MasterReceive
<1>6. i >= 1 /\ 1 <= Len(Doms(th))
  <2>1. Len(Doms(th)) \in Nat /\ DOMAIN Doms(th) = 1..Len(Doms(th))
    BY <1>1, DomainList DEF Doms
  <2> QED
    BY <2>1
<1>7. /\ th \notin Filling(d) /\ th \notin Filling(d)'
      /\ th \notin Queueing(d) /\ th \notin Queueing(d)'
      /\ th \notin Sending(d) /\ th \notin Sending(d)'
      /\ th \notin Fetching(d) /\ th \notin Processing(d)
  BY <1>2, <1>4 DEF MemberAt
<1>8. DgramDone[d] = dgram[d] /\ ImageDone[d] = Sample(image[d])
      /\ InputDone[d] = Sample(input[d]) /\ WcDone[d] = wc[d]
  BY <1>4, <1>7 DEF View
<1>9. /\ th \in Fetching(d)' <=> its /\ Doms(th)[i].input
      /\ th \in Processing(d)' <=> its
  BY <1>2, <1>4, <1>6 DEF MemberAt
<1>10. OutimageDone'[d] = OutimageDone[d] /\ WireDone'[d] = WireDone[d]
  BY <1>4, <1>5, <1>7 DEF View, Sample
<1>11. ImageDone'[d] = Sample(image'[d])
  BY <1>4 DEF View, Sample
<1>12. ImageDone'[d] = IF back /\ Doms(th)[i].input /\ ~lost
                       THEN v ELSE ImageDone[d]
  BY <1>8, <1>11, SampleUniform
<1>13. dgram'[d] = status
  BY <1>8
<1>14. WcDone'[d] = IF its THEN Atomic!Processed(status, WcDone[d])
                           ELSE WcDone[d]
  <2>1. Processed(d)' = Atomic!Processed(status, WcDone[d])
    <3>1. Processed(d)' = CASE dgram'[d] = "answered"                   -> "complete"
                            [] dgram'[d] = "idle" /\ wc'[d] = "new"    -> "new"
                            [] OTHER                                 -> "zero"
      BY DEF Processed
    <3> HIDE DEF status
    <3> QED
      BY <1>5, <1>8, <1>13, <3>1 DEF Atomic!Processed
  <2>2. WcDone'[d] = IF th \in Processing(d)' THEN Processed(d)' ELSE wc'[d]
    BY <1>4 DEF View
  <2> HIDE DEF status
  <2> QED
    BY <1>5, <1>8, <1>9, <2>1, <2>2
<1>15. DgramDone'[d] = IF its /\ status = "answered" THEN "idle" ELSE status
  <2> HIDE DEF status
  <2> QED
    BY <1>4, <1>7, <1>9, <1>13 DEF View
<1>16. InputDone'[d] = IF its /\ Doms(th)[i].input
                       THEN ImageDone'[d] ELSE InputDone[d]
  <2>1. InputDone'[d] = Sample(IF th \in Fetching(d)' THEN image'[d] ELSE input'[d])
    BY <1>4 DEF View, Sample
  <2> QED
    BY <1>5, <1>8, <1>9, <1>11, <2>1
<1> QED
  BY <1>10, <1>12, <1>14, <1>15, <1>16

\* The frame that the fetching step finds.
LEMMA ReceiveFrame ==
  ASSUME TypeOK, NEW th \in Threads, MasterReceive(th)
  PROVE  \E lost \in {FALSE, Loss}, v \in 0..(Values - 1) :
           \A i \in DOMAIN Doms(th) :
             LET d == Doms(th)[i].name
                 back == Serves(th) /\ dgram[d] = "sent"
             IN  /\ dgram'[d] = IF back THEN IF lost THEN "idle" ELSE "answered"
                                        ELSE dgram[d]
                 /\ image'[d] = IF back /\ Doms(th)[i].input /\ ~lost
                                THEN Uniform(v) ELSE image[d]
<1>1. at[th] \in DOMAIN Master
  BY DEF TypeOK, PlacesOK
<1>2. CASE ~Serves(th)
  <2>1. dgram' = dgram /\ image' = image
    BY <1>2 DEF MasterReceive
  <2>2. 0 \in 0..(Values - 1) /\ FALSE \in {FALSE, Loss}
    BY ConfigAssumption
  <2> QED
    BY <1>2, <2>1, <2>2
<1>3. CASE Serves(th)
  <2> DEFINE names == {b.name : b \in Back(at[th])}
             inputs == {b.name : b \in {e \in Back(at[th]) : e.input}}
  <2>1. PICK lost \in {FALSE, Loss}, v \in 0..(Values - 1) :
          /\ dgram' = [x \in DomainNames |->
               IF x \in names THEN IF lost THEN "idle" ELSE "answered"
                              ELSE dgram[x]]
          /\ image' = [x \in DomainNames |->
               IF x \in inputs /\ ~lost THEN Uniform(v) ELSE image[x]]
    BY <1>3 DEF MasterReceive
  <2>2. ASSUME NEW i \in DOMAIN Doms(th)
        PROVE  LET d == Doms(th)[i].name
                   back == Serves(th) /\ dgram[d] = "sent"
               IN  /\ dgram'[d] = IF back THEN IF lost THEN "idle" ELSE "answered"
                                          ELSE dgram[d]
                   /\ image'[d] = IF back /\ Doms(th)[i].input /\ ~lost
                                  THEN Uniform(v) ELSE image[d]
    <3> DEFINE d == Doms(th)[i].name
    <3>1. /\ i \in DOMAIN Domain[at[th]] /\ d = Domain[at[th]][i].name
          /\ Doms(th)[i] = Domain[at[th]][i]
      BY DEF Doms
    <3>2. \A j \in DOMAIN Domain[at[th]] : Domain[at[th]][j].name = d => j = i
      BY <1>1, <3>1, ListAssumption
    <3>3. d \in DomainNames
      BY <1>1, <3>1, DomainList
    <3>4. d \in names <=> dgram[d] = "sent"
      BY <3>1, <3>2 DEF Back
    <3>5. d \in inputs <=> dgram[d] = "sent" /\ Doms(th)[i].input
      BY <3>1, <3>2 DEF Back
    <3> HIDE DEF names, inputs, d
    <3>6. /\ dgram'[d] = IF dgram[d] = "sent"
                         THEN IF lost THEN "idle" ELSE "answered" ELSE dgram[d]
          /\ image'[d] = IF dgram[d] = "sent" /\ Doms(th)[i].input /\ ~lost
                         THEN Uniform(v) ELSE image[d]
      BY <2>1, <3>3, <3>4, <3>5
    <3> QED
      BY <1>3, <3>6 DEF d
  <2> QED
    BY <2>2, Zenon
<1> QED
  BY <1>2, <1>3

LEMMA ReceiveTakesEffect ==
  ASSUME RInv, NEW th \in Threads, Step(th), MasterReceive(th)
  PROVE  Atomic!Receive(at[th], Tid(th))
<1> DEFINE m == at[th]
           tid == Tid(th)
           mine == Atomic!Mine(m, tid)
           ins == Atomic!Inputs(m)
           back == IF Master[m].fastest_tid = tid
                   THEN {d \in Atomic!Names(m) : DgramDone[d] = "sent"} ELSE {}
<1>1. TypeOK /\ at[th] \in DOMAIN Master
  BY DEF RInv, IInv, TypeOK, PlacesOK
<1>2. UNCHANGED <<output, refclk_trigger>>
  BY DEF MasterReceive
<1>3. PICK lost \in {FALSE, Loss}, v \in 0..(Values - 1) :
        \A i \in DOMAIN Doms(th) :
          /\ dgram'[Doms(th)[i].name] =
               IF Serves(th) /\ dgram[Doms(th)[i].name] = "sent"
               THEN IF lost THEN "idle" ELSE "answered"
               ELSE dgram[Doms(th)[i].name]
          /\ image'[Doms(th)[i].name] =
               IF /\ Serves(th) /\ dgram[Doms(th)[i].name] = "sent"
                  /\ Doms(th)[i].input /\ ~lost
               THEN Uniform(v) ELSE image[Doms(th)[i].name]
  BY <1>1, ReceiveFrame
<1>4. lost \in BOOLEAN
  BY ConfigAssumption
<1> DEFINE status == [d \in DOMAIN DgramDone |->
                        IF d \in back THEN IF lost THEN "idle" ELSE "answered"
                                      ELSE DgramDone[d]]
<1>5. \A d \in DomainNames :
        status[d] = IF d \in back THEN IF lost THEN "idle" ELSE "answered"
                                  ELSE DgramDone[d]
  BY DEF DgramDone
<1>6. ASSUME NEW d \in DomainNames
      PROVE  /\ OutimageDone'[d] = OutimageDone[d] /\ WireDone'[d] = WireDone[d]
             /\ ImageDone'[d] = IF d \in back \cap ins /\ ~lost
                                THEN v ELSE ImageDone[d]
             /\ WcDone'[d] = IF d \in mine
                             THEN Atomic!Processed(status[d], WcDone[d])
                             ELSE WcDone[d]
             /\ DgramDone'[d] = IF d \in mine /\ status[d] = "answered"
                                THEN "idle" ELSE status[d]
             /\ InputDone'[d] = IF d \in mine \cap ins
                                THEN ImageDone'[d] ELSE InputDone[d]
  <2>1. CASE d \notin NamesAt(m)
    <3>1. SameAt(d)
      BY <2>1, Elsewhere
    <3>2. d \notin mine /\ d \notin back
      BY <2>1, AtomicElsewhere
    <3>3. status[d] = DgramDone[d]
      BY <1>5, <3>2
    <3> HIDE DEF mine, back, status, ins
    <3> QED
      BY <3>1, <3>2, <3>3 DEF SameAt
  <2>2. CASE d \in NamesAt(m)
    <3>1. PICK i \in DOMAIN Doms(th) : d = Doms(th)[i].name
      BY <2>2 DEF NamesAt, Doms
    <3> DEFINE its == Doms(th)[i].tid = tid
               fetched == Serves(th) /\ DgramDone[d] = "sent"
               st == IF fetched THEN IF lost THEN "idle" ELSE "answered"
                                ELSE DgramDone[d]
    <3>2. /\ d \in Atomic!Names(m)
          /\ d \in mine <=> its
          /\ d \in ins <=> Doms(th)[i].input
      BY <1>1, <3>1, AtomicSets DEF Doms
    <3>3. d \in back <=> fetched
      BY <3>2 DEF Serves
    <3>4. status[d] = st
      BY <1>5, <3>3
    <3>5. /\ dgram'[d] = IF Serves(th) /\ dgram[d] = "sent"
                         THEN IF lost THEN "idle" ELSE "answered" ELSE dgram[d]
          /\ image'[d] = IF /\ Serves(th) /\ dgram[d] = "sent"
                            /\ Doms(th)[i].input /\ ~lost
                         THEN Uniform(v) ELSE image[d]
      BY <1>3, <3>1
    <3>6. /\ OutimageDone'[d] = OutimageDone[d] /\ WireDone'[d] = WireDone[d]
          /\ ImageDone'[d] = IF fetched /\ Doms(th)[i].input /\ ~lost
                             THEN v ELSE ImageDone[d]
          /\ WcDone'[d] = IF its THEN Atomic!Processed(st, WcDone[d])
                                 ELSE WcDone[d]
          /\ DgramDone'[d] = IF its /\ st = "answered" THEN "idle" ELSE st
          /\ InputDone'[d] = IF its /\ Doms(th)[i].input
                             THEN ImageDone'[d] ELSE InputDone[d]
      BY <1>4, <3>1, <3>5, ReceiveAt
    <3> HIDE DEF mine, back, ins, status, its, fetched, st
    <3> QED
      BY <3>2, <3>3, <3>4, <3>6
  <2> QED
    BY <2>1, <2>2
<1>7. RefclkDone' = RefclkDone
  <2>1. ~(SemWait(th) /\ ~Receiving(th))
    BY DEF MasterReceive, SemWait, Go
  <2>2. \A n \in DOMAIN Master : RefclkDone'[n] = RefclkDone[n]
    BY <2>1, QuietClock
  <2> QED
    BY <2>2 DEF RefclkDone
<1> HIDE DEF mine, back, ins, status
<1>8. OutimageDone' = OutimageDone /\ WireDone' = WireDone
  <2>1. OutimageDone' = OutimageDone
    BY <1>6 DEF OutimageDone
  <2>2. WireDone' = WireDone
    BY <1>6 DEF WireDone
  <2> QED
    BY <2>1, <2>2
<1>9. ImageDone' = IF lost THEN ImageDone
                   ELSE [d \in DOMAIN ImageDone |->
                           IF d \in back \cap ins THEN v ELSE ImageDone[d]]
  <2>1. CASE lost
    BY <1>6, <2>1 DEF ImageDone
  <2>2. CASE ~lost
    BY <1>6, <2>2 DEF ImageDone
  <2> QED
    BY <2>1, <2>2
<1>10. WcDone' = [d \in DOMAIN WcDone |->
                    IF d \in mine THEN Atomic!Processed(status[d], WcDone[d])
                                  ELSE WcDone[d]]
  BY <1>6 DEF WcDone
<1>11. DgramDone' = [d \in DOMAIN status |->
                       IF d \in {x \in mine : status[x] = "answered"}
                       THEN "idle" ELSE status[d]]
  <2>1. DOMAIN status = DomainNames
    BY DEF status, DgramDone
  <2> QED
    BY <1>6, <2>1 DEF DgramDone
<1>12. InputDone' = [d \in DOMAIN InputDone |->
                       IF d \in mine \cap ins THEN ImageDone'[d] ELSE InputDone[d]]
  BY <1>6 DEF InputDone
<1> QED
  BY <1>2, <1>7, <1>8, <1>9, <1>10, <1>11, <1>12
     DEF Atomic!Receive, Atomic!Put, Atomic!Value, mine, back, ins, status

LEMMA StepRefines ==
  ASSUME RInv, NEW th \in Threads, Step(th)
  PROVE  [Atomic!Next]_(Atomic!vars)
<1>1. TypeOK /\ at[th] \in DOMAIN Master /\ Tid(th) \in AllTids
  BY TidOf DEF RInv, IInv, TypeOK, PlacesOK
<1>2. CASE MasterReceive(th)
  BY <1>1, <1>2, ReceiveTakesEffect DEF Atomic!Next
<1>3. CASE SemWait(th) /\ ~Receiving(th)
  BY <1>1, <1>3, SendTakesEffect DEF Atomic!Next
<1>4. CASE ~Effect(th)
  <2>1. \A d \in DomainNames : SameAt(d)
    BY <1>4, QuietSame
  <2>2. \A m \in DOMAIN Master : RefclkDone'[m] = RefclkDone[m]
    BY <1>4, QuietClock DEF Effect
  <2>3. CASE output' = output
    BY <2>1, <2>2, <2>3, Stutter
  <2>4. CASE output' # output
    <3>1. SemPost(th)
      BY <2>4, StepCall
    <3>2. output' = [output EXCEPT ![Tid(th)] = (@ + 1) % Values]
      BY <2>4, <3>1 DEF SemPost
    <3>3. /\ UNCHANGED <<OutimageDone, ImageDone>>
          /\ UNCHANGED <<InputDone, DgramDone>>
          /\ UNCHANGED <<WireDone, WcDone, RefclkDone>>
      <4>1. OutimageDone' = OutimageDone /\ ImageDone' = ImageDone
        BY <2>1 DEF SameAt, OutimageDone, ImageDone
      <4>2. InputDone' = InputDone /\ DgramDone' = DgramDone
        BY <2>1 DEF SameAt, InputDone, DgramDone
      <4>3. WireDone' = WireDone
        BY <2>1 DEF SameAt, WireDone
      <4>4. WcDone' = WcDone
        BY <2>1 DEF SameAt, WcDone
      <4>5. RefclkDone' = RefclkDone
        BY <2>2 DEF RefclkDone
      <4> QED
        BY <4>1, <4>2, <4>3, <4>4, <4>5
    <3>4. Atomic!Compute(Tid(th))
      BY <3>2, <3>3 DEF Atomic!Compute
    <3> QED
      BY <1>1, <3>4 DEF Atomic!Next
  <2> QED
    BY <2>3, <2>4
<1> QED
  BY <1>2, <1>3, <1>4 DEF Effect

LEMMA InitRefines == Init => Atomic!Init
<1> SUFFICES ASSUME Init PROVE Atomic!Init
  OBVIOUS
<1>1. Receives = {} /\ Sends = {}
  BY DEF Init, Receives, Sends
<1>2. \A d : /\ Fetching(d) = {} /\ Processing(d) = {} /\ Filling(d) = {}
             /\ Queueing(d) = {} /\ Sending(d) = {}
  BY <1>1 DEF Fetching, Processing, Filling, Queueing, Sending
<1>3. \A m : Clocking(m) = {}
  BY <1>1 DEF Clocking
<1>4. 0 \in 0..(Values - 1)
  BY ConfigAssumption
<1>5. Sample(Uniform(0)) = 0
  BY <1>4, SampleUniform
<1>6. ImageDone = [d \in DomainNames |-> 0]
  BY <1>5 DEF ImageDone, Init
<1>7. InputDone = [d \in DomainNames |-> 0]
  BY <1>2, <1>5 DEF InputDone, Init
<1>8. OutimageDone = [d \in DomainNames |-> 0]
  BY <1>2, <1>5 DEF OutimageDone, Init
<1>9. WireDone = [d \in DomainNames |-> 0]
  BY <1>2, <1>5 DEF WireDone, Init
<1>10. WcDone = [d \in DomainNames |-> "new"]
  BY <1>2 DEF WcDone, Init
<1>11. DgramDone = [d \in DomainNames |-> "idle"]
  BY <1>2 DEF DgramDone, Init
<1>12. RefclkDone = refclk_trigger
  BY <1>3 DEF RefclkDone, Init
<1> QED
  BY <1>6, <1>7, <1>8, <1>9, <1>10, <1>11, <1>12 DEF Init, Atomic!Init

(* Whatever the threads interleave, with any masters shared by any tasks,  *)
(* ecs_receive() and ecs_send() act at each master at one moment: what the *)
(* threads do to the signals, the images, the working counters, the frames *)
(* and the reference clock countdown is what the abstract calls do.        *)
THEOREM CallsAtomicAlways == Spec => CallsAtomic
<1>1. RInv /\ [Next]_vars => [Atomic!Next]_(Atomic!vars)
  <2> SUFFICES ASSUME RInv, [Next]_vars PROVE [Atomic!Next]_(Atomic!vars)
    OBVIOUS
  <2>1. CASE Next
    BY <2>1, StepRefines DEF Next
  <2>2. CASE UNCHANGED vars
    <3> USE <2>2 DEF vars, threadVars, imageVars, libVars
    <3>1. Receives' = Receives /\ Sends' = Sends
      BY DEF Receives, Sends, Receiving
    <3>2. \A th : /\ Tid(th)' = Tid(th) /\ ToConvert(th)' = ToConvert(th)
                  /\ ToDo(th)' = ToDo(th)
      BY DEF Tid, ToConvert, ToDo, From, Receiving
    <3>3. \A th : (Serves(th)' <=> Serves(th)) /\ ToSend(th)' = ToSend(th)
      BY <3>2 DEF Serves, ToSend, NamesAt
    <3>4. \A d : /\ Fetching(d)' = Fetching(d) /\ Processing(d)' = Processing(d)
                 /\ Filling(d)' = Filling(d) /\ Queueing(d)' = Queueing(d)
      BY <3>1, <3>2 DEF Fetching, Processing, Filling, Queueing
    <3>5. \A d : Sending(d)' = Sending(d)
      BY <3>1, <3>3 DEF Sending
    <3>6. \A m : Clocking(m)' = Clocking(m) /\ Counted(m)' = Counted(m)
      BY <3>1, <3>3 DEF Clocking, Counted, Sync
    <3>7. OutimageDone' = OutimageDone /\ ImageDone' = ImageDone
      <4>1. \A d : The(Filling(d))' = The(Filling(d))
        BY <3>4 DEF The
      <4>2. \A d : Tid(The(Filling(d)))' = Tid(The(Filling(d)))
        BY <4>1 DEF Tid
      <4>3. OutimageDone' = OutimageDone
        BY <3>4, <4>2 DEF OutimageDone, Sample
      <4> QED
        BY <4>3 DEF ImageDone, Sample
    <3>8. InputDone' = InputDone /\ DgramDone' = DgramDone
      BY <3>4, <3>5 DEF InputDone, DgramDone
    <3>9. WireDone' = WireDone /\ WcDone' = WcDone /\ RefclkDone' = RefclkDone
      BY <3>4, <3>5, <3>6, <3>7 DEF WireDone, WcDone, RefclkDone, Processed
    <3> QED
      BY <3>7, <3>8, <3>9 DEF Atomic!vars
  <2> QED
    BY <2>1, <2>2
<1> QED
  BY <1>1, InitRefines, RInvariance, PTL DEF Spec, CallsAtomic, Atomic!Spec

-----------------------------------------------------------------------------
(* Answers in time: where a call has left the datagram of each domain.     *)

\* The loops of ecs_receive() and ecs_send() have passed every domain.
LoopsEnd == \A th \in Threads : pc[th] = "post" => dom[th] > Len(Doms(th))

\* The call has received or sent the frames of master m.
Exchanged(th, m) ==
  \/ at[th] > m
  \/ /\ at[th] = m
     /\ IF Receiving(th) THEN pc[th] \notin {"wait", "receive"}
                         ELSE pc[th] = "post"

\* It has processed or queued domain k of it, or passed over it.
Handled(th, m, k) ==
  \/ at[th] > m
  \/ /\ at[th] = m
     /\ pc[th] \notin {"wait", "receive"}
     /\ dom[th] > k \/ (dom[th] = k /\ pc[th] = "convert" /\ Receiving(th))

IsPhase(th, m, t, phase) ==
  \A p \in DOMAIN Program[th] :
    LET c == Program[th][p]
        f == Master[m].fastest_tid
    IN  /\ phase[(p % Len(Program[th])) + 1] = AfterCall(c, f, t, phase[p])
        /\ c.call = "receive" /\ c.tid = t
             => Exchange(c, f, phase[p]) = "answered"

\* What the calls of the program find, by Timely.
Phase(th, m, t) == CHOOSE phase : IsPhase(th, m, t, phase)

\* The datagram of domain k of master m while the thread is in its call.
Expected(th, m, k) ==
  LET c == Program[th][pos[th]]
      f == Master[m].fastest_tid
      t == Domain[m][k].tid
      x == Phase(th, m, t)[pos[th]]
  IN  IF Receiving(th)
      THEN IF Handled(th, m, k) THEN Handle(c, t, Exchange(c, f, x))
           ELSE IF Exchanged(th, m) THEN Exchange(c, f, x)
           ELSE x
      ELSE IF Exchanged(th, m) THEN Exchange(c, f, Handle(c, t, x))
           ELSE IF Handled(th, m, k) THEN Handle(c, t, x)
           ELSE x

(* A domain that was never queued is idle; any other one is where the      *)
(* program's calls have to leave it.                                       *)
Fits(th, m, k) ==
  LET d == Domain[m][k].name
  IN  \/ wc[d] = "new" /\ dgram[d] = "idle"
      \/ wc[d] # "zero" /\ dgram[d] = Expected(th, m, k)

AInv ==
  /\ RInv /\ LoopsEnd /\ AnswersInTime
  /\ \A th \in Threads, m \in DOMAIN Master :
       \A k \in DOMAIN Domain[m] : Fits(th, m, k)

LEMMA PhaseRight ==
  ASSUME Timely, NEW th \in Threads, NEW m \in DOMAIN Master,
         NEW k \in DOMAIN Domain[m]
  PROVE  IsPhase(th, m, Domain[m][k].tid, Phase(th, m, Domain[m][k].tid))
<1> DEFINE t == Domain[m][k].tid
<1>1. t \in Tids(m)
  BY DEF Tids
<1>2. \E phase : IsPhase(th, m, t, phase)
  <2> HIDE DEF t
  <2> QED
    BY <1>1 DEF Timely, IsPhase
<1> QED
  BY <1>2, Zenon DEF Phase

LEMMA LoopsEndStep ==
  ASSUME RInv, LoopsEnd, NEW th \in Threads, Step(th)
  PROVE  LoopsEnd'
<1>1. /\ pc \in [Threads -> Places] /\ dom \in [Threads -> Nat]
      /\ at[th] \in DOMAIN Master /\ TypeOK
  BY DEF RInv, IInv, TypeOK, PlacesOK, LoopsOK
<1>2. Len(Doms(th)) \in Nat /\ ThreadControl(th)
  BY <1>1, DomainList DEF Doms, RInv, Control
<1>3. ASSUME NEW t \in Threads, t # th, pc'[t] = "post"
      PROVE  dom'[t] > Len(Doms(t)')
  <2>1. Stays(t)
    BY <1>1, <1>3, StepOthers
  <2> QED
    BY <1>3, <2>1 DEF LoopsEnd, Stays, Doms
<1>4. ASSUME pc'[th] = "post" PROVE dom'[th] > Len(Doms(th)')
  <2>1. ~SemPost(th)
    BY <1>1, <1>4 DEF SemPost, Go
  <2>2. Doms(th)' = Doms(th)
    BY <2>1, StepCall DEF Doms
  <2>3. ASSUME NEW after, NextDomain(th, after)
        PROVE  dom'[th] > Len(Doms(th)) \/ pc'[th] = "domain"
    BY <1>1, <1>2, <2>3 DEF NextDomain, Go, DomainLoop
  <2>4. CASE MasterReceive(th)
    BY <1>1, <1>2, <1>4, <2>2, <2>4
       DEF MasterReceive, Go, DomainLoop, ThreadControl
  <2>5. CASE MasterSend(th)
    BY <1>1, <1>2, <2>2, <2>5 DEF MasterSend, Go, ThreadControl
  <2>6. CASE DomainSkip(th) \/ DomainQueue(th)
    BY <1>4, <2>2, <2>3, <2>6 DEF DomainSkip, DomainQueue
  <2>7. CASE DomainProcess(th)
    <3>1. pc'[th] = "convert" \/ NextDomain(th, "post")
      BY <1>1, <2>7 DEF DomainProcess, Go
    <3> QED
      BY <1>4, <2>2, <2>3, <3>1
  <2>8. CASE ConvertInput(th)
    <3>1. pc'[th] = "convert" \/ NextDomain(th, "post")
      BY <1>1, <2>8 DEF ConvertInput
    <3> QED
      BY <1>4, <2>2, <2>3, <3>1
  <2>9. CASE SemWait(th) \/ DomainOutput(th) \/ ConvertOutput(th)
    <3>1. pc'[th] # "post"
      <4>1. CASE SemWait(th)
        BY <1>1, <4>1, DomainLoopPlaces DEF SemWait, Go
      <4>2. CASE DomainOutput(th)
        BY <1>1, <4>2 DEF DomainOutput, Go
      <4>3. CASE ConvertOutput(th)
        BY <1>1, <4>3 DEF ConvertOutput, Go
      <4> QED
        BY <2>9, <4>1, <4>2, <4>3
    <3> QED
      BY <1>4, <3>1
  <2> QED
    BY <2>1, <2>4, <2>5, <2>6, <2>7, <2>8, <2>9 DEF Step
<1> QED
  BY <1>3, <1>4 DEF LoopsEnd

\* Two domains of a master have two names.
LEMMA OneName ==
  ASSUME NEW m \in DOMAIN Master, NEW j \in DOMAIN Domain[m],
         NEW k \in DOMAIN Domain[m], Domain[m][j].name = Domain[m][k].name
  PROVE  j = k
  BY ListAssumption

\* A step that leaves the domain and the progress with it alone.
LEMMA FitsStays ==
  ASSUME NEW th \in Threads, NEW m \in DOMAIN Master, NEW k \in DOMAIN Domain[m],
         Fits(th, m, k),
         wc'[Domain[m][k].name] = wc[Domain[m][k].name],
         dgram'[Domain[m][k].name] = dgram[Domain[m][k].name],
         pos'[th] = pos[th],
         Exchanged(th, m)' <=> Exchanged(th, m),
         Handled(th, m, k)' <=> Handled(th, m, k)
  PROVE  Fits(th, m, k)'
<1>1. Receiving(th)' <=> Receiving(th)
  BY DEF Receiving
<1>2. Phase(th, m, Domain[m][k].tid)' = Phase(th, m, Domain[m][k].tid)
  BY DEF Phase, IsPhase
<1>3. Expected(th, m, k)' = Expected(th, m, k)
  BY <1>1, <1>2 DEF Expected
<1> QED
  BY <1>3 DEF Fits

LEMMA CallFacts ==
  ASSUME TypeOK, NEW th \in Threads
  PROVE  LET c == Program[th][pos[th]]
         IN  /\ c.call \in {"receive", "send"} /\ Tid(th) = c.tid
             /\ Receiving(th) <=> c.call = "receive"
             /\ Serves(th) <=> c.tid = Master[at[th]].fastest_tid
<1>1. pos[th] \in DOMAIN Program[th] /\ Program[th] \in Seq(Call)
  BY ConfigAssumption DEF TypeOK, LoopsOK
<1> DEFINE c == Program[th][pos[th]]
<1>2. c \in Call
  <2>1. \A s \in Seq(Call) : \A i \in DOMAIN s : s[i] \in Call
    OBVIOUS
  <2> QED
    BY <1>1, <2>1
<1>3. c.call \in {"receive", "send"}
  <2> HIDE DEF c
  <2> QED
    BY <1>2 DEF Call
<1> QED
  BY <1>3 DEF Tid, Receiving, Serves

\* A step at another master.
LEMMA FitsElsewhere ==
  ASSUME RInv, NEW th \in Threads, Step(th), ~SemPost(th),
         NEW m \in DOMAIN Master, NEW k \in DOMAIN Domain[m], at[th] # m,
         Fits(th, m, k)
  PROVE  Fits(th, m, k)'
<1> DEFINE d == Domain[m][k].name
<1>1. TypeOK /\ ThreadControl(th) /\ at[th] \in DOMAIN Master
  BY DEF RInv, IInv, Control, TypeOK, PlacesOK
<1>2. d \in NamesAt(m)
  BY DEF NamesAt
<1>3. d \in DomainNames /\ d \notin NamesAt(at[th])
  BY <1>1, <1>2, NamesApart
<1>4. wc'[d] = wc[d] /\ dgram'[d] = dgram[d]
  BY <1>1, <1>3, StepElsewhere
<1>5. pos' = pos /\ at' = at
  BY StepCall
<1>6. /\ Exchanged(th, m)' <=> Exchanged(th, m)
      /\ Handled(th, m, k)' <=> Handled(th, m, k)
  BY <1>5 DEF Exchanged, Handled
<1> QED
  BY <1>4, <1>5, <1>6, FitsStays

\* A call goes on to the next master, or the thread to its next call.
LEMMA FitsPost ==
  ASSUME Timely, RInv, LoopsEnd, NEW th \in Threads, SemPost(th),
         NEW m \in DOMAIN Master, NEW k \in DOMAIN Domain[m],
         Fits(th, m, k)
  PROVE  Fits(th, m, k)'
<1> DEFINE d == Domain[m][k].name
           c == Program[th][pos[th]]
           f == Master[m].fastest_tid
           t == Domain[m][k].tid
           phase == Phase(th, m, t)
           x == phase[pos[th]]
<1>1. /\ pc \in [Threads -> Places] /\ dom \in [Threads -> Nat]
      /\ at \in [Threads -> DOMAIN Master] /\ pos \in [Threads -> Nat]
      /\ pos[th] \in DOMAIN Program[th] /\ TypeOK
  BY DEF RInv, IInv, TypeOK, PlacesOK, LoopsOK
<1>2. /\ pc[th] = "post" /\ pc'[th] = "wait" /\ UNCHANGED <<wc, dgram>>
  BY <1>1 DEF SemPost, Go, libVars
<1>3. k \in 1..Len(Domain[m]) /\ Len(Domain[m]) \in Nat
  BY DomainList
<1>4. m \in 1..Len(Master) /\ at[th] \in 1..Len(Master) /\ Len(Master) \in Nat
  BY <1>1, MasterIndex
<1>5. at[th] >= m => Exchanged(th, m) /\ Handled(th, m, k)
  <2>1. at[th] = m => dom[th] > Len(Domain[m])
    BY <1>2 DEF LoopsEnd, Doms
  <2>2. at[th] = m => dom[th] > k
    BY <1>1, <1>3, <2>1
  <2> QED
    BY <1>2, <1>4, <2>2 DEF Exchanged, Handled
<1>6. CASE at[th] < Len(Master)
  <2>1. at'[th] = at[th] + 1 /\ pos' = pos
    BY <1>1, <1>6 DEF SemPost
  <2>2. CASE at[th] >= m
    <3>1. Exchanged(th, m)' /\ Handled(th, m, k)'
      BY <1>4, <2>1, <2>2 DEF Exchanged, Handled
    <3> QED
      BY <1>2, <1>5, <2>1, <2>2, <3>1, FitsStays
  <2>3. CASE at[th] < m
    <3>1. ~Exchanged(th, m) /\ ~Handled(th, m, k)
      BY <1>4, <2>3 DEF Exchanged, Handled
    <3>2. ~Exchanged(th, m)' /\ ~Handled(th, m, k)'
      BY <1>2, <1>4, <2>1, <2>3 DEF Exchanged, Handled
    <3> QED
      BY <1>2, <2>1, <3>1, <3>2, FitsStays
  <2> QED
    BY <1>4, <2>2, <2>3
<1>7. CASE ~(at[th] < Len(Master))
  <2>1. /\ at'[th] = 1 /\ pos'[th] = (pos[th] % Len(Program[th])) + 1
        /\ at[th] >= m
    BY <1>1, <1>4, <1>7 DEF SemPost
  <2>2. Expected(th, m, k) = AfterCall(c, f, t, x)
    BY <1>1, <1>5, <2>1, CallFacts DEF Expected, AfterCall
  <2>3. phase[pos'[th]] = AfterCall(c, f, t, x)
    <3>1. IsPhase(th, m, t, phase)
      BY PhaseRight
    <3> HIDE DEF phase
    <3> QED
      BY <1>1, <2>1, <3>1 DEF IsPhase
  <2>4. ~Exchanged(th, m)' /\ ~Handled(th, m, k)'
    BY <1>2, <1>4, <2>1 DEF Exchanged, Handled
  <2>5. Phase(th, m, t)' = Phase(th, m, t)
    BY DEF Phase, IsPhase
  <2>6. Expected(th, m, k)' = phase[pos'[th]]
    BY <2>4, <2>5 DEF Expected
  <2>7. Expected(th, m, k)' = Expected(th, m, k)
    BY <2>2, <2>3, <2>6
  <2> QED
    BY <1>2, <2>7 DEF Fits
<1> QED
  BY <1>6, <1>7

\* What the loops leave behind when they go on to the next domain.
LEMMA NextProgress ==
  ASSUME TypeOK, NEW th \in Threads, NEW after, NextDomain(th, after)
  PROVE  dom'[th] = dom[th] + 1 /\ pc'[th] \in {"domain", after}
<1>1. dom \in [Threads -> Nat] /\ pc \in [Threads -> Places]
  BY DEF TypeOK, LoopsOK, PlacesOK
<1> QED
  BY <1>1, DomainLoopPlaces DEF NextDomain, Go

\* A step at the domain's master.
LEMMA FitsHere ==
  ASSUME Timely, ~Loss, RInv, NEW th \in Threads, Step(th), ~SemPost(th),
         NEW m \in DOMAIN Master, NEW k \in DOMAIN Domain[m], at[th] = m,
         Fits(th, m, k)
  PROVE  Fits(th, m, k)'
<1> DEFINE d == Domain[m][k].name
           c == Program[th][pos[th]]
           f == Master[m].fastest_tid
           t == Domain[m][k].tid
           phase == Phase(th, m, t)
           x == phase[pos[th]]
           gone == Handled(th, m, k)
           done == Exchanged(th, m)
<1>1. /\ pc \in [Threads -> Places] /\ dom \in [Threads -> Nat]
      /\ wc \in [DomainNames -> {"new", "complete", "zero"}]
      /\ dgram \in [DomainNames -> {"idle", "queued", "sent", "answered"}]
      /\ pos[th] \in DOMAIN Program[th] /\ TypeOK /\ ThreadControl(th)
  BY DEF RInv, IInv, Control, TypeOK, PlacesOK, LoopsOK, LibraryOK
<1>2. d \in DomainNames /\ k \in 1..Len(Domain[m]) /\ Len(Domain[m]) \in Nat
  BY DomainList
<1>3. /\ c.call \in {"receive", "send"} /\ Tid(th) = c.tid
      /\ Receiving(th) <=> c.call = "receive"
      /\ Serves(th) <=> c.tid = f
  BY <1>1, CallFacts
<1>4. pos' = pos /\ at' = at /\ (Receiving(th)' <=> Receiving(th))
  BY StepCall DEF Receiving
<1>5. /\ Expected(th, m, k) =
           IF Receiving(th)
           THEN IF gone THEN Handle(c, t, Exchange(c, f, x))
                ELSE IF done THEN Exchange(c, f, x) ELSE x
           ELSE IF done THEN Exchange(c, f, Handle(c, t, x))
                ELSE IF gone THEN Handle(c, t, x) ELSE x
      /\ Expected(th, m, k)' =
           IF Receiving(th)
           THEN IF gone' THEN Handle(c, t, Exchange(c, f, x))
                ELSE IF done' THEN Exchange(c, f, x) ELSE x
           ELSE IF done' THEN Exchange(c, f, Handle(c, t, x))
                ELSE IF gone' THEN Handle(c, t, x) ELSE x
  <2>1. Phase(th, m, t)' = Phase(th, m, t)
    BY DEF Phase, IsPhase
  <2> QED
    BY <1>4, <2>1 DEF Expected
<1>6. /\ done <=> IF Receiving(th) THEN pc[th] \notin {"wait", "receive"}
                  ELSE pc[th] = "post"
      /\ done' <=> IF Receiving(th) THEN pc'[th] \notin {"wait", "receive"}
                   ELSE pc'[th] = "post"
  BY <1>4, MasterIndex DEF Exchanged
<1>7. /\ gone <=> /\ pc[th] \notin {"wait", "receive"}
                  /\ dom[th] > k
                       \/ (dom[th] = k /\ pc[th] = "convert" /\ Receiving(th))
      /\ gone' <=> /\ pc'[th] \notin {"wait", "receive"}
                   /\ dom'[th] > k
                        \/ (dom'[th] = k /\ pc'[th] = "convert" /\ Receiving(th))
  BY <1>4, MasterIndex DEF Handled
<1>8. \/ wc[d] = "new" /\ dgram[d] = "idle"
      \/ wc[d] # "zero" /\ dgram[d] = Expected(th, m, k)
  BY DEF Fits
<1>9. dom[th] = k /\ pc[th] \in {"domain", "convert", "queue"}
      => D(th).name = d /\ D(th).tid = t
  BY DEF D, Doms
<1>10. dom[th] # k /\ pc[th] \in {"domain", "convert", "queue"}
       => D(th).name # d
  <2>1. pc[th] \in {"domain", "convert", "queue"} =>
          dom[th] \in DOMAIN Domain[m] /\ D(th) = Domain[m][dom[th]]
    BY <1>1 DEF ThreadControl, Doms, D
  <2> QED
    BY <2>1, OneName
<1>11. Its(th) <=> D(th).tid = c.tid
  BY <1>3 DEF Its
<1> HIDE DEF d, c, f, t, x, gone, done, phase
<1>12. dom[th] \in Nat /\ k \in Nat /\ k > 0
  BY <1>1, <1>2
<1>13. ASSUME wc'[d] = wc[d], dgram'[d] = dgram[d],
              Expected(th, m, k)' = Expected(th, m, k)
       PROVE  Fits(th, m, k)'
  BY <1>8, <1>13 DEF Fits, d
<1>14. CASE SemWait(th)
  <2>1. /\ pc[th] = "wait" /\ dom'[th] = 1 /\ wc' = wc /\ dgram' = dgram
        /\ pc'[th] = IF Receiving(th) THEN "receive"
                     ELSE DomainLoop(th, 1, "send")
    BY <1>1, <1>14 DEF SemWait, Go, libVars
  <2>2. ~done /\ ~gone
    BY <1>6, <1>7, <2>1
  <2>3. ~done' /\ ~gone'
    BY <1>6, <1>7, <1>12, <2>1, DomainLoopPlaces
  <2> QED
    BY <1>5, <1>13, <2>1, <2>2, <2>3
<1>15. CASE MasterReceive(th)
  <2>1. /\ pc[th] = "receive" /\ Receiving(th) /\ dom[th] = 1 /\ dom' = dom
        /\ pc'[th] \in {"domain", "post"} /\ wc' = wc
    BY <1>1, <1>15, DomainLoopPlaces DEF MasterReceive, Go, ThreadControl
  <2>2. Expected(th, m, k) = x /\ Expected(th, m, k)' = Exchange(c, f, x)
    BY <1>5, <1>6, <1>7, <1>12, <2>1
  <2>3. CASE ~Serves(th)
    <3>1. dgram' = dgram
      BY <1>15, <2>3 DEF MasterReceive
    <3>2. Exchange(c, f, x) = x
      BY <1>3, <2>3 DEF Exchange
    <3> QED
      BY <1>13, <2>1, <2>2, <3>1, <3>2
  <2>4. CASE Serves(th)
    <3> DEFINE names == {b.name : b \in Back(m)}
    <3>1. dgram' = [e \in DomainNames |->
                      IF e \in names THEN "answered" ELSE dgram[e]]
      BY <1>15, <2>4 DEF MasterReceive
    <3>2. d \in names <=> dgram[d] = "sent"
      <4>1. d \in names => \E j \in DOMAIN Domain[m] :
                             dgram[Domain[m][j].name] = "sent" /\ d = Domain[m][j].name
        BY DEF Back
      <4>2. dgram[d] = "sent" => d \in names
        BY DEF Back, d
      <4> QED
        BY <4>1, <4>2
    <3> HIDE DEF names
    <3>3. dgram'[d] = IF dgram[d] = "sent" THEN "answered" ELSE dgram[d]
      BY <1>2, <3>1, <3>2
    <3>4. Exchange(c, f, x) = IF x = "sent" THEN "answered" ELSE x
      BY <1>3, <2>1, <2>4 DEF Exchange
    <3> QED
      BY <1>8, <2>1, <2>2, <3>3, <3>4 DEF Fits, d
  <2> QED
    BY <2>3, <2>4
<1>16. CASE DomainSkip(th)
  <2>1. /\ pc[th] = "domain" /\ ~Its(th) /\ wc' = wc /\ dgram' = dgram
        /\ dom'[th] = dom[th] + 1
        /\ pc'[th] \in {"domain", IF Receiving(th) THEN "post" ELSE "send"}
    BY <1>1, <1>16, NextProgress DEF DomainSkip, libVars
  <2>2. /\ done <=> Receiving(th)
        /\ done' <=> Receiving(th)
    BY <1>6, <2>1
  <2>3. dom[th] # k => (gone' <=> gone)
    BY <1>7, <1>12, <2>1
  <2>4. dom[th] = k => \A y : Handle(c, t, y) = y
    BY <1>9, <1>11, <2>1 DEF Handle
  <2>5. Expected(th, m, k)' = Expected(th, m, k)
    BY <1>5, <2>2, <2>3, <2>4
  <2> QED
    BY <1>13, <2>1, <2>5
<1>17. CASE DomainProcess(th)
  <2>1. /\ pc[th] = "domain" /\ Receiving(th) /\ Its(th)
        /\ \/ pc'[th] = "convert" /\ dom' = dom
           \/ dom'[th] = dom[th] + 1 /\ pc'[th] \in {"domain", "post"}
    BY <1>1, <1>17, NextProgress DEF DomainProcess, Go
  <2>2. done /\ done'
    BY <1>6, <2>1
  <2>3. CASE dom[th] = k
    <3>1. ~gone /\ gone'
      BY <1>7, <1>12, <2>1, <2>3
    <3>2. c.tid = t /\ D(th).name = d
      BY <1>9, <1>11, <2>1, <2>3
    <3>3. Exchange(c, f, x) = "answered"
      <4>1. IsPhase(th, m, t, phase)
        BY PhaseRight DEF t, phase
      <4> QED
        BY <1>1, <1>3, <2>1, <3>2, <4>1 DEF IsPhase, c, f, x
    <3>4. Expected(th, m, k) = "answered" /\ Expected(th, m, k)' = "idle"
      BY <1>3, <1>5, <2>1, <2>2, <3>1, <3>2, <3>3 DEF Handle
    <3>5. /\ wc'[d] = CASE dgram[d] = "answered"               -> "complete"
                        [] wc[d] = "new" /\ dgram[d] = "idle" -> "new"
                        [] OTHER                              -> "zero"
          /\ dgram'[d] = IF dgram[d] = "answered" THEN "idle" ELSE dgram[d]
      BY <1>1, <1>2, <1>17, <3>2 DEF DomainProcess, d
    <3> QED
      BY <1>8, <3>4, <3>5 DEF Fits, d
  <2>4. CASE dom[th] # k
    <3>1. gone' <=> gone
      BY <1>7, <1>12, <2>1, <2>4
    <3>2. wc'[d] = wc[d] /\ dgram'[d] = dgram[d]
      BY <1>1, <1>2, <1>10, <1>17, <2>1, <2>4 DEF DomainProcess
    <3> QED
      BY <1>5, <1>13, <2>2, <3>1, <3>2
  <2> QED
    BY <2>3, <2>4
<1>18. CASE ConvertInput(th)
  <2>1. /\ pc[th] = "convert" /\ Receiving(th) /\ wc' = wc /\ dgram' = dgram
        /\ \/ pc'[th] = "convert" /\ dom' = dom
           \/ dom'[th] = dom[th] + 1 /\ pc'[th] \in {"domain", "post"}
    BY <1>1, <1>18, NextProgress DEF ConvertInput, libVars
  <2>2. done /\ done'
    BY <1>6, <2>1
  <2>3. gone' <=> gone
    BY <1>7, <1>12, <2>1
  <2> QED
    BY <1>5, <1>13, <2>1, <2>2, <2>3
<1>19. CASE DomainOutput(th) \/ ConvertOutput(th)
  <2>1. /\ pc[th] \in {"domain", "convert"} /\ ~Receiving(th) /\ dom' = dom
        /\ wc' = wc /\ dgram' = dgram
        /\ pc'[th] \in {"convert", "queue"}
    <3>1. CASE DomainOutput(th)
      BY <1>1, <3>1 DEF DomainOutput, Go, libVars
    <3>2. CASE ConvertOutput(th)
      BY <1>1, <3>2 DEF ConvertOutput, Go, libVars
    <3> QED
      BY <1>19, <3>1, <3>2
  <2>2. ~done /\ ~done'
    BY <1>6, <2>1
  <2>3. gone' <=> gone
    BY <1>7, <1>12, <2>1
  <2> QED
    BY <1>5, <1>13, <2>1, <2>2, <2>3
<1>20. CASE DomainQueue(th)
  <2>1. /\ pc[th] = "queue" /\ ~Receiving(th) /\ Its(th) /\ wc' = wc
        /\ dom'[th] = dom[th] + 1 /\ pc'[th] \in {"domain", "send"}
        /\ dgram' = [dgram EXCEPT ![D(th).name] = "queued"]
    BY <1>1, <1>20, NextProgress DEF DomainQueue, ThreadControl
  <2>2. ~done /\ ~done'
    BY <1>6, <2>1
  <2>3. CASE dom[th] = k
    <3>1. gone'
      BY <1>7, <1>12, <2>1, <2>3
    <3>2. c.tid = t /\ D(th).name = d
      BY <1>9, <1>11, <2>1, <2>3
    <3>3. dgram'[d] = "queued"
      BY <1>1, <1>2, <2>1, <3>2
    <3>4. Expected(th, m, k)' = "queued"
      BY <1>3, <1>5, <2>1, <2>2, <3>1, <3>2 DEF Handle
    <3> QED
      BY <1>8, <2>1, <3>3, <3>4 DEF Fits, d
  <2>4. CASE dom[th] # k
    <3>1. gone' <=> gone
      BY <1>7, <1>12, <2>1, <2>4
    <3>2. dgram'[d] = dgram[d]
      BY <1>1, <1>2, <1>10, <2>1, <2>4
    <3> QED
      BY <1>5, <1>13, <2>1, <2>2, <3>1, <3>2
  <2> QED
    BY <2>3, <2>4
<1>21. CASE MasterSend(th)
  <2>1. /\ pc[th] = "send" /\ ~Receiving(th) /\ dom[th] > Len(Domain[m])
        /\ pc'[th] = "post" /\ dom' = dom /\ wc' = wc
    BY <1>1, <1>21 DEF MasterSend, Go, ThreadControl, Doms
  <2>2. gone /\ ~done /\ done'
    BY <1>2, <1>6, <1>7, <1>12, <2>1
  <2> DEFINE y == Handle(c, t, x)
  <2>3. Expected(th, m, k) = y /\ Expected(th, m, k)' = Exchange(c, f, y)
    BY <1>5, <2>1, <2>2
  <2> HIDE DEF y
  <2>4. CASE ~Serves(th)
    <3>1. dgram' = dgram
      BY <1>21, <2>4 DEF MasterSend
    <3>2. Exchange(c, f, y) = y
      BY <1>3, <2>4 DEF Exchange
    <3> QED
      BY <1>13, <2>1, <2>3, <3>1, <3>2
  <2>5. CASE Serves(th)
    <3> DEFINE queued == {Domain[m][j].name : j \in DOMAIN Domain[m]}
                           \cap {e \in DomainNames : dgram[e] = "queued"}
    <3>1. dgram' = [e \in DomainNames |->
                      IF e \in queued THEN "sent" ELSE dgram[e]]
      BY <1>21, <2>5 DEF MasterSend
    <3>2. d \in queued <=> dgram[d] = "queued"
      BY <1>2 DEF d
    <3> HIDE DEF queued
    <3>3. dgram'[d] = IF dgram[d] = "queued" THEN "sent" ELSE dgram[d]
      BY <1>2, <3>1, <3>2
    <3>4. Exchange(c, f, y) = IF y = "queued" THEN "sent" ELSE y
      BY <1>3, <2>1, <2>5 DEF Exchange
    <3> QED
      BY <1>8, <2>1, <2>3, <3>3, <3>4 DEF Fits, d
  <2> QED
    BY <2>4, <2>5
<1> QED
  BY <1>14, <1>15, <1>16, <1>17, <1>18, <1>19, <1>20, <1>21 DEF Step

LEMMA NextAInv ==
  ASSUME ~MT, ~Loss, Timely, AInv, [Next]_vars
  PROVE  AInv'
<1>1. RInv'
  BY NextRInv DEF AInv
<1>2. CASE UNCHANGED vars
  <2>1. UNCHANGED <<pos, pc, at, dom, dgram, wc>>
    BY <1>2 DEF vars
  <2>2. LoopsEnd' /\ AnswersInTime'
    BY <2>1 DEF AInv, LoopsEnd, AnswersInTime, Doms
  <2>3. ASSUME NEW th \in Threads, NEW m \in DOMAIN Master,
               NEW k \in DOMAIN Domain[m]
        PROVE  Fits(th, m, k)'
    <3>1. Receiving(th)' <=> Receiving(th)
      BY <2>1 DEF Receiving
    <3>2. /\ Exchanged(th, m)' <=> Exchanged(th, m)
          /\ Handled(th, m, k)' <=> Handled(th, m, k)
      BY <2>1, <3>1 DEF Exchanged, Handled
    <3> QED
      BY <2>1, <3>2, FitsStays DEF AInv
  <2> QED
    BY <1>1, <2>2, <2>3 DEF AInv
<1>3. ASSUME NEW th \in Threads, Step(th) PROVE AInv'
  <2>1. LoopsEnd'
    BY <1>3, LoopsEndStep DEF AInv
  <2>2. \A t \in Threads : t = th
    BY ConfigAssumption
  <2>3. \A m \in DOMAIN Master : \A k \in DOMAIN Domain[m] : Fits(th, m, k)'
    BY <1>3, FitsElsewhere, FitsHere, FitsPost DEF AInv
  <2>4. ASSUME NEW d \in DomainNames PROVE wc'[d] # "zero"
    <3>1. TypeOK /\ ThreadControl(th) /\ wc[d] # "zero"
      BY DEF AInv, RInv, IInv, Control, AnswersInTime
    <3>2. CASE d \in NamesAt(at[th])
      <4>1. PICK m \in DOMAIN Master : m = at[th]
        BY <3>1 DEF TypeOK, PlacesOK
      <4>2. PICK k \in DOMAIN Domain[m] : d = Domain[m][k].name
        BY <3>2, <4>1 DEF NamesAt
      <4>3. Fits(th, m, k)'
        BY <2>3
      <4> QED
        BY <4>2, <4>3 DEF Fits
    <3>3. CASE d \notin NamesAt(at[th])
      BY <1>3, <3>1, <3>3, StepElsewhere
    <3> QED
      BY <3>2, <3>3
  <2> QED
    BY <1>1, <2>1, <2>2, <2>3, <2>4 DEF AInv, AnswersInTime
<1> QED
  BY <1>2, <1>3 DEF Next

LEMMA InitAInv == Init => AInv
<1> SUFFICES ASSUME Init PROVE AInv
  OBVIOUS
<1>1. RInv
  BY InitIInv, InitControl DEF RInv
<1>2. LoopsEnd /\ AnswersInTime
  BY DEF Init, LoopsEnd, AnswersInTime
<1>3. \A m \in DOMAIN Master : \A k \in DOMAIN Domain[m] :
        Domain[m][k].name \in DomainNames
  BY DomainList
<1>4. \A th \in Threads, m \in DOMAIN Master :
        \A k \in DOMAIN Domain[m] : Fits(th, m, k)
  BY <1>3 DEF Init, Fits
<1> QED
  BY <1>1, <1>2, <1>4 DEF AInv

(* A single-tasking model whose calls come in an order that leaves a frame *)
(* time for its way finds the answer of every domain it has queued, for    *)
(* any number of masters, domains and tasks: the working counter shows the *)
(* Domain State block no loss that is none.                                *)
THEOREM AnswersInTimeAlways ==
  ASSUME ~MT, ~Loss, Timely
  PROVE  Spec => []AnswersInTime
<1>1. AInv /\ [Next]_vars => AInv'
  BY NextAInv
<1>2. AInv => AnswersInTime
  BY DEF AInv
<1> QED
  BY <1>1, <1>2, InitAInv, PTL DEF Spec
=============================================================================
