-------------------------- MODULE EcSlave3_proofs --------------------------
(* What the generated program holds, for any configuration of the block.   *)
EXTENDS EcSlave3, Induction, SequenceTheorems, FiniteSetTheorems, TLAPS

-----------------------------------------------------------------------------
(* Sums: the loop is unrolled.                                             *)

Sums(s) ==
  LET sum[k \in 0..Len(s)] == IF k = 0 THEN 0 ELSE sum[k - 1] + s[k]
  IN  sum

LEMMA SumsUnrolled ==
  ASSUME NEW s, Len(s) \in Nat
  PROVE  /\ Sums(s)[0] = 0
         /\ \A k \in 1..Len(s) : Sums(s)[k] = Sums(s)[k - 1] + s[k]
<1> DEFINE n == Len(s)
           Takes(f, m) ==
             f = [k \in 0..m |-> IF k = 0 THEN 0 ELSE f[k - 1] + s[k]]
           Reached == {m \in 0..n : \E f : Takes(f, m)}
<1>0. n \in Nat
  OBVIOUS
<1> HIDE DEF n
<1>1. 0 \in Reached
  <2>1. Takes([k \in 0..0 |-> 0], 0)
    OBVIOUS
  <2>2. \E f : Takes(f, 0)
    <3> HIDE DEF Takes
    <3> QED
      BY <2>1, Zenon
  <2> QED
    BY <1>0, <2>2
<1>2. ASSUME NEW m \in 0..(n - 1), m \in Reached PROVE m + 1 \in Reached
  <2>1. PICK f : Takes(f, m)
    BY <1>2
  <2> DEFINE g == [k \in 0..(m + 1) |-> IF k = m + 1 THEN f[m] + s[m + 1]
                                        ELSE f[k]]
  <2>2. ASSUME NEW k \in 0..(m + 1)
        PROVE  g[k] = IF k = 0 THEN 0 ELSE g[k - 1] + s[k]
    <3>1. CASE k = 0
      BY <2>1, <3>1
    <3>2. CASE k = m + 1
      <4>1. k - 1 = m /\ g[k - 1] = f[m]
        BY <3>2
      <4> QED
        BY <3>2, <4>1
    <3>3. CASE k \in 1..m
      <4>1. k - 1 \in 0..m /\ g[k - 1] = f[k - 1] /\ g[k] = f[k]
        BY <3>3
      <4> QED
        BY <2>1, <3>3, <4>1
    <3> QED
      BY <3>1, <3>2, <3>3
  <2>3. Takes(g, m + 1)
    BY <2>2
  <2>4. \E h : Takes(h, m + 1)
    <3> HIDE DEF Takes, g
    <3> QED
      BY <2>3, Zenon
  <2> QED
    BY <1>0, <2>4
<1>3. \E f : Takes(f, n)
  <2> HIDE DEF Reached
  <2>1. \A m \in 0..n : m \in Reached
    BY <1>0, <1>1, <1>2, Turns
  <2>2. n \in Reached
    BY <1>0, <2>1
  <2> HIDE DEF Takes
  <2> QED
    BY <2>2 DEF Reached
<1>4. Takes(Sums(s), n)
  BY <1>3, Zenon DEF Sums, n
<1> QED
  BY <1>0, <1>4 DEF n

LEMMA SumSteps ==
  ASSUME NEW s \in Seq(Nat)
  PROVE  /\ SumTo(s, 0) = 0
         /\ \A k \in 1..Len(s) : SumTo(s, k) = SumTo(s, k - 1) + s[k]
         /\ \A k \in 0..Len(s) : SumTo(s, k) \in Nat
<1> DEFINE n == Len(s)
           Good == {k \in 0..n : SumTo(s, k) \in Nat}
<1>1. n \in Nat /\ \A k \in 1..n : s[k] \in Nat
  BY ElementOfSeq
<1>2. \A k : SumTo(s, k) = Sums(s)[k]
  BY Zenon DEF SumTo, Sums
<1>3. /\ SumTo(s, 0) = 0
      /\ \A k \in 1..n : SumTo(s, k) = SumTo(s, k - 1) + s[k]
  BY <1>1, <1>2, SumsUnrolled
<1>4. 0 \in Good
  BY <1>1, <1>3
<1>5. ASSUME NEW k \in 0..(n - 1), k \in Good PROVE k + 1 \in Good
  <2>1. k + 1 \in 1..n /\ (k + 1) - 1 = k
    BY <1>1
  <2>2. SumTo(s, k + 1) = SumTo(s, k) + s[k + 1]
    BY <1>3, <2>1
  <2> QED
    BY <1>1, <1>5, <2>1, <2>2
<1> HIDE DEF Good
<1>6. \A k \in 0..n : k \in Good
  BY <1>1, <1>4, <1>5, Turns
<1> QED
  BY <1>3, <1>6 DEF Good

\* Sums grow, and a number up to the sum lies in one of the summands.
LEMMA SumGrows ==
  ASSUME NEW s \in Seq(Nat), NEW i \in 0..Len(s), NEW k \in 0..Len(s), i <= k
  PROVE  SumTo(s, i) <= SumTo(s, k)
<1> DEFINE n == Len(s)
           Good == {m \in 0..n : i <= m => SumTo(s, i) <= SumTo(s, m)}
<1>1. n \in Nat /\ \A m \in 1..n : s[m] \in Nat
  BY ElementOfSeq
<1>2. 0 \in Good
  BY <1>1, SumSteps
<1>3. ASSUME NEW m \in 0..(n - 1), m \in Good PROVE m + 1 \in Good
  <2>1. m + 1 \in 1..n /\ (m + 1) - 1 = m /\ m \in 0..n
    BY <1>1
  <2>2. SumTo(s, m + 1) = SumTo(s, m) + s[m + 1] /\ SumTo(s, m) \in Nat
        /\ SumTo(s, i) \in Nat
    BY <2>1, SumSteps
  <2> QED
    BY <1>1, <1>3, <2>1, <2>2
<1> HIDE DEF Good
<1>4. \A m \in 0..n : m \in Good
  BY <1>1, <1>2, <1>3, Turns
<1> QED
  BY <1>4 DEF Good

LEMMA SumPlace ==
  ASSUME NEW s \in Seq(Nat), NEW p \in 1..Sum(s)
  PROVE  \E i \in DOMAIN s : \E j \in 1..s[i] : p = SumTo(s, i - 1) + j
<1> DEFINE T == {i \in 0..Len(s) : p <= SumTo(s, i)}
<1>1. Len(s) \in Nat /\ DOMAIN s = 1..Len(s) /\ \A m \in 1..Len(s) : s[m] \in Nat
  BY ElementOfSeq
<1>2. PICK i \in T : \A k \in T : i <= k
  <2>1. Len(s) \in T
    BY <1>1 DEF Sum
  <2>2. T \in SUBSET Nat
    BY <1>1
  <2> QED
    BY <2>1, <2>2, LeastElement
<1>3. SumTo(s, 0) = 0 /\ Sum(s) \in Nat
  BY <1>1, SumSteps DEF Sum
<1>4. i \in 1..Len(s)
  BY <1>1, <1>2, <1>3
<1>5. i - 1 \in 0..Len(s) /\ ~(p <= SumTo(s, i - 1))
  BY <1>1, <1>2, <1>4
<1>6. SumTo(s, i) = SumTo(s, i - 1) + s[i] /\ SumTo(s, i - 1) \in Nat
  BY <1>4, <1>5, SumSteps
<1> DEFINE j == p - SumTo(s, i - 1)
<1>7. j \in 1..s[i] /\ p = SumTo(s, i - 1) + j
  BY <1>1, <1>2, <1>3, <1>4, <1>5, <1>6
<1> QED
  BY <1>1, <1>4, <1>7

-----------------------------------------------------------------------------
(* FlattenSeq().                                                           *)

Flats(ss) ==
  LET flatten[i \in 1..Len(ss)] ==
        IF i = 1 THEN ss[i] ELSE flatten[i - 1] \o ss[i]
  IN  flatten

LEMMA FlatsUnrolled ==
  ASSUME NEW ss, Len(ss) \in Nat \ {0}
  PROVE  /\ Flats(ss)[1] = ss[1]
         /\ \A k \in 2..Len(ss) : Flats(ss)[k] = Flats(ss)[k - 1] \o ss[k]
<1> DEFINE n == Len(ss)
           Takes(f, m) ==
             f = [k \in 1..m |-> IF k = 1 THEN ss[k] ELSE f[k - 1] \o ss[k]]
           Reached == {0} \cup {m \in 1..n : \E f : Takes(f, m)}
<1>0. n \in Nat /\ n >= 1
  OBVIOUS
<1> HIDE DEF n
<1>1. 0 \in Reached
  OBVIOUS
<1>2. ASSUME NEW m \in 0..(n - 1), m \in Reached PROVE m + 1 \in Reached
  <2>1. CASE m = 0
    <3>1. Takes([k \in 1..1 |-> ss[k]], 1)
      OBVIOUS
    <3>2. \E f : Takes(f, 1)
      <4> HIDE DEF Takes
      <4> QED
        BY <3>1, Zenon
    <3>3. 1 \in Reached
      <4> HIDE DEF Takes
      <4> QED
        BY <1>0, <3>2
    <3>4. m + 1 = 1
      BY <2>1
    <3> HIDE DEF Reached
    <3> QED
      BY <3>3, <3>4
  <2>2. CASE m # 0
    <3>1. m \in Nat /\ m >= 1 /\ m + 1 \in 1..n
      BY <1>0, <2>2
    <3>2. PICK f : Takes(f, m)
      BY <1>2, <2>2
    <3> DEFINE g == [k \in 1..(m + 1) |-> IF k = m + 1 THEN f[m] \o ss[m + 1]
                                          ELSE f[k]]
    <3>3. ASSUME NEW k \in 1..(m + 1)
          PROVE  g[k] = IF k = 1 THEN ss[k] ELSE g[k - 1] \o ss[k]
      <4>1. CASE k = 1
        BY <3>1, <3>2, <4>1
      <4>2. CASE k = m + 1
        <5>1. k - 1 = m /\ g[k - 1] = f[m] /\ k # 1
          BY <3>1, <4>2
        <5> QED
          BY <4>2, <5>1
      <4>3. CASE k \in 2..m
        <5>1. k - 1 \in 1..m /\ g[k - 1] = f[k - 1] /\ g[k] = f[k] /\ k \in 1..m
          BY <3>1, <4>3
        <5>2. k # 1
          BY <3>1, <4>3
        <5>3. f[k] = IF k = 1 THEN ss[k] ELSE f[k - 1] \o ss[k]
          <6> HIDE DEF g
          <6> QED
            BY <3>2, <5>1
        <5> HIDE DEF g
        <5> QED
          BY <5>1, <5>2, <5>3
      <4> QED
        BY <3>1, <4>1, <4>2, <4>3
    <3>4. Takes(g, m + 1)
      BY <3>3
    <3>5. \E h : Takes(h, m + 1)
      <4> HIDE DEF Takes, g
      <4> QED
        BY <3>4, Zenon
    <3> QED
      BY <3>1, <3>5
  <2> QED
    BY <2>1, <2>2
<1>3. \E f : Takes(f, n)
  <2> HIDE DEF Reached
  <2>1. \A m \in 0..n : m \in Reached
    BY <1>0, <1>1, <1>2, Turns
  <2>2. n \in Reached
    BY <1>0, <2>1
  <2> HIDE DEF Takes
  <2> QED
    BY <1>0, <2>2 DEF Reached
<1>4. Takes(Flats(ss), n)
  BY <1>3, Zenon DEF Flats, n
<1>5. Flats(ss)[1] = ss[1]
  BY <1>0, <1>4
<1>6. ASSUME NEW k \in 2..n PROVE Flats(ss)[k] = Flats(ss)[k - 1] \o ss[k]
  <2>1. k \in 1..n /\ k # 1
    BY <1>0
  <2> QED
    BY <1>4, <2>1
<1> QED
  BY <1>5, <1>6 DEF n

\* A flattened sequence: where the elements of the parts are.
Lens(ss) == [i \in DOMAIN ss |-> Len(ss[i])]

Flattened(ss, t, n) ==
  /\ Len(t) = SumTo(Lens(ss), n)
  /\ \A i \in 1..n : \A j \in 1..Len(ss[i]) :
       t[SumTo(Lens(ss), i - 1) + j] = ss[i][j]

LEMMA LensType ==
  ASSUME NEW R, NEW ss \in Seq(Seq(R))
  PROVE  Lens(ss) \in Seq(Nat) /\ Len(Lens(ss)) = Len(ss)
<1>1. \A i \in DOMAIN ss : Len(ss[i]) \in Nat
  BY ElementOfSeq
<1> QED
  BY <1>1 DEF Lens

LEMMA FlattenFacts ==
  ASSUME NEW R, NEW ss \in Seq(Seq(R))
  PROVE  FlattenSeq(ss) \in Seq(R) /\ Flattened(ss, FlattenSeq(ss), Len(ss))
<1> DEFINE n == Len(ss)
           L == Lens(ss)
<1>1. /\ n \in Nat /\ DOMAIN ss = 1..n
      /\ \A i \in 1..n : ss[i] \in Seq(R) /\ L[i] = Len(ss[i]) /\ L[i] \in Nat
  BY ElementOfSeq DEF Lens
<1>2. L \in Seq(Nat) /\ Len(L) = n
  BY LensType
<1> HIDE DEF L
<1>3. CASE n = 0
  <2>1. FlattenSeq(ss) = ss /\ ss = <<>>
    BY <1>3 DEF FlattenSeq
  <2>2. SumTo(L, 0) = 0
    BY <1>2, SumSteps
  <2> QED
    BY <1>1, <1>3, <2>1, <2>2 DEF Flattened, L
<1>4. CASE n # 0
  <2> DEFINE Good == {m \in 0..(n - 1) :
                        /\ Flats(ss)[m + 1] \in Seq(R)
                        /\ Flattened(ss, Flats(ss)[m + 1], m + 1)}
  <2>1. /\ Flats(ss)[1] = ss[1]
        /\ \A k \in 2..n : Flats(ss)[k] = Flats(ss)[k - 1] \o ss[k]
    BY <1>1, <1>4, FlatsUnrolled
  <2>2. 0 \in Good
    <3>1. SumTo(L, 1) = SumTo(L, 1 - 1) + L[1] /\ SumTo(L, 0) = 0
      BY <1>1, <1>2, <1>4, SumSteps
    <3>2. 1 \in 1..n /\ ss[1] \in Seq(R) /\ L[1] = Len(ss[1]) /\ Len(ss[1]) \in Nat
      BY <1>1, <1>4
    <3>3. Flattened(ss, ss[1], 1)
      BY <3>1, <3>2 DEF Flattened, L
    <3> QED
      BY <1>1, <1>4, <2>1, <3>2, <3>3
  <2>3. ASSUME NEW m \in 0..(n - 1 - 1), m \in Good PROVE m + 1 \in Good
    <3> DEFINE M == m + 1
               t == Flats(ss)[M]
               u == Flats(ss)[M + 1]
    <3>1. M \in 1..n /\ M + 1 \in 1..n /\ M + 1 \in 2..n /\ (M + 1) - 1 = M
          /\ M \in Nat /\ M \in 0..n
      BY <1>1, <1>4
    <3>2. t \in Seq(R) /\ Flattened(ss, t, M)
      BY <2>3
    <3>3. u = t \o ss[M + 1]
      BY <2>1, <3>1
    <3> HIDE DEF M, t, u
    <3>4. ss[M + 1] \in Seq(R) /\ L[M + 1] = Len(ss[M + 1])
      BY <1>1, <3>1
    <3>5. /\ u \in Seq(R) /\ Len(u) = Len(t) + Len(ss[M + 1])
          /\ \A k \in 1..Len(t) : u[k] = t[k]
          /\ \A k \in 1..Len(ss[M + 1]) : u[Len(t) + k] = ss[M + 1][k]
          /\ Len(t) \in Nat /\ Len(ss[M + 1]) \in Nat
      BY <3>2, <3>3, <3>4, ConcatProperties
    <3>6. SumTo(L, M + 1) = SumTo(L, M) + L[M + 1] /\ Len(t) = SumTo(L, M)
      BY <1>2, <3>1, <3>2, SumSteps DEF Flattened, L
    <3>7. ASSUME NEW i \in 1..(M + 1), NEW j \in 1..Len(ss[i])
          PROVE  u[SumTo(L, i - 1) + j] = ss[i][j]
      <4>1. CASE i = M + 1
        BY <3>1, <3>5, <3>6, <4>1
      <4>2. CASE i # M + 1
        <5>1. i \in 1..M /\ i \in 1..n /\ i \in 0..n /\ i - 1 \in 0..n /\ i <= M
          BY <1>1, <3>1, <4>2
        <5>2. t[SumTo(L, i - 1) + j] = ss[i][j]
          BY <3>2, <5>1 DEF Flattened, L
        <5>3. SumTo(L, i) = SumTo(L, i - 1) + L[i] /\ SumTo(L, i - 1) \in Nat
          BY <1>2, <5>1, SumSteps
        <5>4. SumTo(L, i) <= SumTo(L, M) /\ SumTo(L, i) \in Nat
              /\ SumTo(L, M) \in Nat
          BY <1>2, <3>1, <5>1, SumGrows, SumSteps
        <5>5. L[i] = Len(ss[i]) /\ L[i] \in Nat
          BY <1>1, <5>1
        <5>6. SumTo(L, i - 1) + j \in 1..Len(t)
          BY <3>6, <5>3, <5>4, <5>5
        <5> QED
          BY <3>5, <5>2, <5>6
      <4> QED
        BY <4>1, <4>2
    <3>8. Flattened(ss, u, M + 1)
      BY <3>4, <3>5, <3>6, <3>7 DEF Flattened, L
    <3> QED
      BY <1>1, <3>1, <3>5, <3>8 DEF M, u
  <2> HIDE DEF Good
  <2>4. n - 1 \in Good
    <3>1. n - 1 \in Nat /\ n - 1 \in 0..(n - 1)
      BY <1>1, <1>4
    <3> QED
      BY <2>2, <2>3, <3>1, Turns
  <2>5. FlattenSeq(ss) = Flats(ss)[n]
    BY <1>4, Zenon DEF FlattenSeq, Flats
  <2>6. (n - 1) + 1 = n
    BY <1>1
  <2> QED
    BY <2>4, <2>5, <2>6 DEF Good
<1> QED
  BY <1>3, <1>4

-----------------------------------------------------------------------------
(* Tables: what mdlRTW() flattens, the pointers of the generated arrays    *)
(* unfold again.                                                           *)

Entries == [index : Nat, subindex : Nat, bitlen : Nat]
PdoCells == [cells : Nat, index : Int, columns : Nat, entry : Seq(Entries)]
Pdos == [index : Int, entry : Seq(Entries)]

PdosOf(sm) == [i \in DOMAIN sm |-> GetSyncManager(sm[i]).pdo]
AllPdos(sm) == FlattenSeq(PdosOf(sm))
EntriesOf(sm) == [i \in DOMAIN AllPdos(sm) |-> AllPdos(sm)[i].entry]

LEMMA SyncManagerParts ==
  ASSUME NEW sm \in SyncManagers
  PROVE  /\ Len(sm) \in Nat /\ DOMAIN sm = 1..Len(sm)
         /\ \A i \in DOMAIN sm :
              /\ sm[i].pdo \in Seq(PdoCells) /\ sm[i].index \in Int
              /\ Len(sm[i].pdo) \in Nat /\ DOMAIN sm[i].pdo = 1..Len(sm[i].pdo)
              /\ \A k \in DOMAIN sm[i].pdo :
                   /\ sm[i].pdo[k].index \in Int
                   /\ sm[i].pdo[k].entry \in Seq(Entries)
<1> DEFINE R == [cells : Nat, index : Int, direction : Int,
                 pdo : Seq(PdoCells)]
<1>1. sm \in Seq(R)
  BY DEF SyncManagers, PdoCells, Entries
<1>2. ASSUME NEW i \in DOMAIN sm
      PROVE  sm[i].pdo \in Seq(PdoCells) /\ sm[i].index \in Int
  <2>1. sm[i] \in R
    <3> HIDE DEF R
    <3> QED
      BY <1>1, ElementOfSeq
  <2> QED
    BY <2>1
<1>3. ASSUME NEW q \in Seq(PdoCells), NEW k \in DOMAIN q
      PROVE  q[k].index \in Int /\ q[k].entry \in Seq(Entries)
  <2>1. q[k] \in PdoCells
    BY ElementOfSeq
  <2> QED
    BY <2>1 DEF PdoCells
<1>4. \A i \in DOMAIN sm :
        /\ Len(sm[i].pdo) \in Nat /\ DOMAIN sm[i].pdo = 1..Len(sm[i].pdo)
        /\ \A k \in DOMAIN sm[i].pdo : /\ sm[i].pdo[k].index \in Int
                                      /\ sm[i].pdo[k].entry \in Seq(Entries)
  BY <1>2, <1>3
<1> HIDE DEF R
<1> QED
  BY <1>1, <1>2, <1>4

LEMMA PdosParts ==
  ASSUME NEW sm \in SyncManagers
  PROVE  /\ PdosOf(sm) \in Seq(Seq(Pdos)) /\ Len(PdosOf(sm)) = Len(sm)
         /\ \A i \in DOMAIN sm :
              /\ Len(PdosOf(sm)[i]) = Len(sm[i].pdo)
              /\ \A k \in DOMAIN sm[i].pdo :
                   PdosOf(sm)[i][k] = [index |-> sm[i].pdo[k].index,
                                       entry |-> sm[i].pdo[k].entry]
<1>1. ASSUME NEW i \in DOMAIN sm
      PROVE  /\ PdosOf(sm)[i] = [k \in 1..Len(sm[i].pdo) |->
                                   [index |-> sm[i].pdo[k].index,
                                    entry |-> sm[i].pdo[k].entry]]
             /\ PdosOf(sm)[i] \in Seq(Pdos)
             /\ Len(PdosOf(sm)[i]) = Len(sm[i].pdo)
  <2>1. PdosOf(sm)[i] = [k \in 1..Len(sm[i].pdo) |->
                           [index |-> sm[i].pdo[k].index,
                            entry |-> sm[i].pdo[k].entry]]
    BY SyncManagerParts DEF PdosOf, GetSyncManager
  <2>2. \A k \in 1..Len(sm[i].pdo) : [index |-> sm[i].pdo[k].index,
                                      entry |-> sm[i].pdo[k].entry] \in Pdos
    BY SyncManagerParts DEF Pdos
  <2>3. Len(sm[i].pdo) \in Nat
    BY SyncManagerParts
  <2> QED
    BY <2>1, <2>2, <2>3
<1>2. PdosOf(sm) = [i \in 1..Len(sm) |-> PdosOf(sm)[i]]
  BY SyncManagerParts DEF PdosOf
<1>3. Len(sm) \in Nat /\ \A i \in 1..Len(sm) : PdosOf(sm)[i] \in Seq(Pdos)
  BY <1>1, SyncManagerParts
<1>4. PdosOf(sm) \in Seq(Seq(Pdos)) /\ Len(PdosOf(sm)) = Len(sm)
  BY <1>2, <1>3
<1>5. ASSUME NEW i \in DOMAIN sm, NEW k \in DOMAIN sm[i].pdo
      PROVE  PdosOf(sm)[i][k] = [index |-> sm[i].pdo[k].index,
                                 entry |-> sm[i].pdo[k].entry]
  BY <1>1, SyncManagerParts
<1> QED
  BY <1>1, <1>4, <1>5

LEMMA AllPdosParts ==
  ASSUME NEW sm \in SyncManagers
  PROVE  /\ AllPdos(sm) \in Seq(Pdos)
         /\ Flattened(PdosOf(sm), AllPdos(sm), Len(sm))
         /\ EntriesOf(sm) \in Seq(Seq(Entries))
         /\ Len(EntriesOf(sm)) = Len(AllPdos(sm))
         /\ Flattened(EntriesOf(sm), FlattenSeq(EntriesOf(sm)),
                      Len(AllPdos(sm)))
<1>1. AllPdos(sm) \in Seq(Pdos) /\ Flattened(PdosOf(sm), AllPdos(sm), Len(sm))
  BY PdosParts, FlattenFacts DEF AllPdos
<1>2. \A k \in DOMAIN AllPdos(sm) : AllPdos(sm)[k].entry \in Seq(Entries)
  <2>1. \A k \in DOMAIN AllPdos(sm) : AllPdos(sm)[k] \in Pdos
    BY <1>1, ElementOfSeq
  <2> QED
    BY <2>1 DEF Pdos
<1>3. EntriesOf(sm) \in Seq(Seq(Entries)) /\ Len(EntriesOf(sm)) = Len(AllPdos(sm))
  BY <1>1, <1>2 DEF EntriesOf
<1> QED
  BY <1>1, <1>3, FlattenFacts

\* The tables and the arrays in these terms.
LEMMA ArraysParts ==
  ASSUME NEW sm \in SyncManagers
  PROVE  LET a == Arrays(Tables(sm))
         IN  /\ a.entry = FlattenSeq(EntriesOf(sm))
             /\ \A k \in DOMAIN AllPdos(sm) :
                  a.pdo[k] = [index |-> AllPdos(sm)[k].index,
                              n_entries |-> Lens(EntriesOf(sm))[k],
                              entries |-> SumTo(Lens(EntriesOf(sm)), k - 1)]
             /\ DOMAIN a.sync = DOMAIN sm
             /\ \A i \in DOMAIN sm :
                  /\ a.sync[i].index = sm[i].index
                  /\ a.sync[i].input = (sm[i].direction # 0)
                  /\ a.sync[i].n_pdos = Lens(PdosOf(sm))[i]
                  /\ a.sync[i].pdos = SumTo(Lens(PdosOf(sm)), i - 1)
<1> DEFINE t == Tables(sm)
           a == Arrays(t)
           s == [i \in DOMAIN sm |-> GetSyncManager(sm[i])]
<1>1. [i \in DOMAIN s |-> s[i].pdo] = PdosOf(sm)
  BY DEF PdosOf
<1>2. t = [SyncManager |-> [i \in DOMAIN s |->
              [index |-> s[i].index, input |-> s[i].input,
               PdoCount |-> Len(s[i].pdo)]],
           PdoInfo |-> [i \in DOMAIN AllPdos(sm) |->
              [index |-> AllPdos(sm)[i].index,
               PdoEntryCount |-> Len(AllPdos(sm)[i].entry)]],
           PdoEntryInfo |-> FlattenSeq(EntriesOf(sm))]
  BY <1>1, Zenon DEF Tables, AllPdos, EntriesOf
<1>3. /\ DOMAIN t.SyncManager = DOMAIN sm
      /\ \A i \in DOMAIN sm :
           /\ t.SyncManager[i].index = sm[i].index
           /\ t.SyncManager[i].input = (sm[i].direction # 0)
           /\ t.SyncManager[i].PdoCount = Len(PdosOf(sm)[i])
  BY <1>2 DEF GetSyncManager, PdosOf
<1>4. /\ DOMAIN t.PdoInfo = DOMAIN AllPdos(sm)
      /\ \A k \in DOMAIN AllPdos(sm) :
           /\ t.PdoInfo[k].index = AllPdos(sm)[k].index
           /\ t.PdoInfo[k].PdoEntryCount = Len(EntriesOf(sm)[k])
      /\ t.PdoEntryInfo = FlattenSeq(EntriesOf(sm))
  BY <1>2 DEF EntriesOf
<1>5. t.PdoInfo = <<>> => \A i \in DOMAIN sm : Len(PdosOf(sm)[i]) = 0
  <2> DEFINE L == Lens(PdosOf(sm))
  <2> SUFFICES ASSUME t.PdoInfo = <<>>, NEW i \in DOMAIN sm
               PROVE  Len(PdosOf(sm)[i]) = 0
    OBVIOUS
  <2>1. L \in Seq(Nat) /\ Len(L) = Len(sm) /\ i \in 1..Len(sm)
    BY PdosParts, LensType, SyncManagerParts
  <2>2. Len(AllPdos(sm)) = 0
    BY <1>4, AllPdosParts
  <2>3. SumTo(L, Len(sm)) = 0
    BY <2>2, AllPdosParts DEF Flattened
  <2>4. L[i] = Len(PdosOf(sm)[i]) /\ L[i] \in Nat
    <3>1. i \in DOMAIN PdosOf(sm) /\ PdosOf(sm)[i] \in Seq(Pdos)
      BY PdosParts, ElementOfSeq, <2>1
    <3> QED
      BY <3>1 DEF Lens
  <2> HIDE DEF L
  <2>5. /\ i \in 0..Len(L) /\ i - 1 \in 0..Len(L) /\ Len(L) \in 0..Len(L)
        /\ i <= Len(L) /\ i \in 1..Len(L)
    BY <2>1, SyncManagerParts
  <2>6. /\ SumTo(L, i) <= SumTo(L, Len(L)) /\ SumTo(L, i) = SumTo(L, i - 1) + L[i]
        /\ SumTo(L, i - 1) \in Nat
    BY <2>1, <2>5, SumGrows, SumSteps
  <2> QED
    BY <2>1, <2>3, <2>4, <2>6
<1> DEFINE entries == [i \in DOMAIN t.PdoInfo |-> t.PdoInfo[i].PdoEntryCount]
           pdos == [i \in DOMAIN t.SyncManager |-> t.SyncManager[i].PdoCount]
<1>6. entries = Lens(EntriesOf(sm))
  <2>1. DOMAIN EntriesOf(sm) = DOMAIN AllPdos(sm)
    BY DEF EntriesOf
  <2>2. \A k \in DOMAIN AllPdos(sm) :
          t.PdoInfo[k].PdoEntryCount = Len(EntriesOf(sm)[k])
    BY <1>4
  <2> HIDE DEF t
  <2> QED
    BY <1>4, <2>1, <2>2 DEF Lens
<1>7. pdos = Lens(PdosOf(sm))
  <2>1. DOMAIN PdosOf(sm) = DOMAIN sm
    BY DEF PdosOf
  <2>2. \A i \in DOMAIN sm : t.SyncManager[i].PdoCount = Len(PdosOf(sm)[i])
    BY <1>3
  <2> HIDE DEF t
  <2> QED
    BY <1>3, <2>1, <2>2 DEF Lens
<1>8. a = [entry |-> t.PdoEntryInfo,
           pdo |-> [i \in DOMAIN t.PdoInfo |->
              [index |-> t.PdoInfo[i].index, n_entries |-> entries[i],
               entries |-> SumTo(entries, i - 1)]],
           sync |-> [i \in DOMAIN t.SyncManager |->
              [index |-> t.SyncManager[i].index,
               input |-> t.SyncManager[i].input,
               n_pdos |-> IF t.PdoInfo = <<>> THEN 0 ELSE pdos[i],
               pdos |-> SumTo(pdos, i - 1)]]]
  BY Zenon DEF Arrays
<1> HIDE DEF t, a, entries, pdos
<1>9. \A i \in DOMAIN sm : pdos[i] = Len(PdosOf(sm)[i])
  BY <1>7 DEF Lens, PdosOf
<1>10. /\ a.entry = FlattenSeq(EntriesOf(sm))
       /\ \A k \in DOMAIN AllPdos(sm) :
            a.pdo[k] = [index |-> AllPdos(sm)[k].index,
                        n_entries |-> entries[k],
                        entries |-> SumTo(entries, k - 1)]
  <2>1. \A k \in DOMAIN t.PdoInfo :
          a.pdo[k] = [index |-> t.PdoInfo[k].index, n_entries |-> entries[k],
                      entries |-> SumTo(entries, k - 1)]
    BY <1>8
  <2>3. a.entry = t.PdoEntryInfo
    BY <1>8
  <2> QED
    BY <1>4, <2>1, <2>3
<1>11. /\ DOMAIN a.sync = DOMAIN sm
       /\ \A i \in DOMAIN sm :
            /\ a.sync[i].index = sm[i].index
            /\ a.sync[i].input = (sm[i].direction # 0)
            /\ a.sync[i].n_pdos = pdos[i]
            /\ a.sync[i].pdos = SumTo(pdos, i - 1)
  <2>1. /\ DOMAIN a.sync = DOMAIN t.SyncManager
        /\ \A i \in DOMAIN t.SyncManager :
             /\ a.sync[i].index = t.SyncManager[i].index
             /\ a.sync[i].input = t.SyncManager[i].input
             /\ a.sync[i].n_pdos = IF t.PdoInfo = <<>> THEN 0 ELSE pdos[i]
             /\ a.sync[i].pdos = SumTo(pdos, i - 1)
    BY <1>8
  <2> QED
    BY <1>3, <1>5, <1>9, <2>1
<1> QED
  BY <1>6, <1>7, <1>10, <1>11 DEF a, t

LEMMA ReadBackTables ==
  ASSUME NEW sm \in SyncManagers
  PROVE  ReadBack(Arrays(Tables(sm))) = Meant(sm)
<1> DEFINE a == Arrays(Tables(sm))
           P == Lens(PdosOf(sm))
           Q == Lens(EntriesOf(sm))
<1>1. /\ a.entry = FlattenSeq(EntriesOf(sm))
      /\ \A k \in DOMAIN AllPdos(sm) :
           a.pdo[k] = [index |-> AllPdos(sm)[k].index, n_entries |-> Q[k],
                       entries |-> SumTo(Q, k - 1)]
      /\ DOMAIN a.sync = DOMAIN sm
      /\ \A i \in DOMAIN sm :
           /\ a.sync[i].index = sm[i].index
           /\ a.sync[i].input = (sm[i].direction # 0)
           /\ a.sync[i].n_pdos = P[i]
           /\ a.sync[i].pdos = SumTo(P, i - 1)
  BY ArraysParts
<1> DEFINE Pdo(i) ==
             [k \in 1..a.sync[i].n_pdos |->
                [index |-> a.pdo[a.sync[i].pdos + k].index,
                 entry |-> [m \in 1..a.pdo[a.sync[i].pdos + k].n_entries |->
                   a.entry[a.pdo[a.sync[i].pdos + k].entries + m]]]]
           PdoMeant(i) ==
             [k \in DOMAIN sm[i].pdo |->
                [index |-> sm[i].pdo[k].index, entry |-> sm[i].pdo[k].entry]]
<1>2. ASSUME NEW i \in DOMAIN sm PROVE Pdo(i) = PdoMeant(i)
  <2>1. i \in 1..Len(sm) /\ Len(P) = Len(sm) /\ P \in Seq(Nat)
        /\ P[i] = Len(sm[i].pdo) /\ Len(sm) \in Nat
    BY PdosParts, LensType, SyncManagerParts DEF Lens
  <2>2. a.sync[i].n_pdos = Len(sm[i].pdo)
    BY <1>1, <2>1
  <2>3. ASSUME NEW k \in 1..Len(sm[i].pdo)
        PROVE  /\ a.pdo[a.sync[i].pdos + k].index = sm[i].pdo[k].index
               /\ [m \in 1..a.pdo[a.sync[i].pdos + k].n_entries |->
                     a.entry[a.pdo[a.sync[i].pdos + k].entries + m]]
                    = sm[i].pdo[k].entry
    <3> DEFINE n == SumTo(P, i - 1) + k
               e == sm[i].pdo[k].entry
    <3>1. a.sync[i].pdos + k = n
      BY <1>1
    <3>2. k \in DOMAIN sm[i].pdo /\ k \in 1..Len(PdosOf(sm)[i])
      BY SyncManagerParts, PdosParts
    <3>3. AllPdos(sm)[n] = PdosOf(sm)[i][k] /\ Len(AllPdos(sm)) = SumTo(P, Len(sm))
      BY <2>1, <3>2, AllPdosParts DEF Flattened
    <3>4. AllPdos(sm)[n].index = sm[i].pdo[k].index /\ AllPdos(sm)[n].entry = e
      <4>1. PdosOf(sm)[i][k] = [index |-> sm[i].pdo[k].index, entry |-> e]
        BY <3>2, PdosParts
      <4> HIDE DEF n, e
      <4> QED
        BY <3>3, <4>1
    <3> HIDE DEF P
    <3>5. n \in 1..Len(AllPdos(sm))
      <4>1. /\ i \in 0..Len(P) /\ i - 1 \in 0..Len(P) /\ Len(P) \in 0..Len(P)
            /\ i <= Len(P) /\ i \in 1..Len(P)
        BY <2>1
      <4>2. /\ SumTo(P, i) <= SumTo(P, Len(P))
            /\ SumTo(P, i) = SumTo(P, i - 1) + P[i]
            /\ SumTo(P, i - 1) \in Nat /\ SumTo(P, Len(P)) \in Nat
        BY <2>1, <4>1, SumGrows, SumSteps
      <4>3. P[i] \in Nat /\ k \in Nat /\ k >= 1 /\ k <= P[i]
        BY <2>1, SyncManagerParts
      <4> QED
        BY <2>1, <3>3, <4>2, <4>3
    <3>6. DOMAIN AllPdos(sm) = 1..Len(AllPdos(sm)) /\ Len(AllPdos(sm)) \in Nat
      BY AllPdosParts
    <3> HIDE DEF n
    <3>7. a.pdo[n] = [index |-> AllPdos(sm)[n].index, n_entries |-> Q[n],
                      entries |-> SumTo(Q, n - 1)]
      BY <1>1, <3>5, <3>6
    <3>8. EntriesOf(sm)[n] = e /\ Q[n] = Len(e)
      BY <3>4, <3>5, <3>6 DEF EntriesOf, Lens
    <3>9. e \in Seq(Entries)
      BY <3>2, SyncManagerParts
    <3>10. \A m \in 1..Len(e) : a.entry[SumTo(Q, n - 1) + m] = e[m]
      <4>1. \A j \in 1..Len(AllPdos(sm)) : \A m \in 1..Len(EntriesOf(sm)[j]) :
              FlattenSeq(EntriesOf(sm))[SumTo(Q, j - 1) + m]
                = EntriesOf(sm)[j][m]
        BY AllPdosParts DEF Flattened
      <4> HIDE DEF Q, e, a
      <4>2. a.entry = FlattenSeq(EntriesOf(sm))
        BY <1>1
      <4> QED
        BY <3>5, <3>8, <4>1, <4>2
    <3> HIDE DEF Q, e, a
    <3>11. [m \in 1..Len(e) |-> a.entry[SumTo(Q, n - 1) + m]] = e
      BY <3>9, <3>10
    <3>12. a.pdo[n].index = sm[i].pdo[k].index /\ a.pdo[n].n_entries = Len(e)
           /\ a.pdo[n].entries = SumTo(Q, n - 1)
      BY <3>4, <3>7, <3>8
    <3> QED
      BY <3>1, <3>11, <3>12 DEF e
  <2>4. DOMAIN sm[i].pdo = 1..Len(sm[i].pdo)
    BY SyncManagerParts
  <2> HIDE DEF a
  <2> QED
    BY <2>2, <2>3, <2>4
<1>3. ReadBack(a) = [i \in DOMAIN a.sync |->
                       [index |-> a.sync[i].index, input |-> a.sync[i].input,
                        pdo |-> Pdo(i)]]
  BY Zenon DEF ReadBack
<1>4. Meant(sm) = [i \in DOMAIN sm |->
                     [index |-> sm[i].index, input |-> sm[i].direction # 0,
                      pdo |-> PdoMeant(i)]]
  BY Zenon DEF Meant
<1> HIDE DEF a, P, Q, Pdo, PdoMeant
<1>5. ReadBack(a) = Meant(sm)
  BY <1>1, <1>2, <1>3, <1>4
<1> QED
  BY <1>5 DEF a

-----------------------------------------------------------------------------
(* Arrays.                                                                 *)

LEMMA ArrayOf ==
  ASSUME NEW R, NEW s \in Seq(R)
  PROVE  Array(s) /\ Len(s) \in Nat /\ DOMAIN s = 1..Len(s)
<1>1. Len(s) \in Nat /\ DOMAIN s = 1..Len(s) /\ s = [i \in 1..Len(s) |-> s[i]]
  OBVIOUS
<1>2. \A i \in 1..Len(s) : s[i] \in Range(s)
  BY <1>1 DEF Range
<1> QED
  BY <1>1, <1>2 DEF Array

LEMMA AppendArray ==
  ASSUME NEW s, Array(s), NEW e
  PROVE  /\ Array(Append(s, e)) /\ Len(s) \in Nat
         /\ DOMAIN s = 1..Len(s) /\ DOMAIN Append(s, e) = 1..(Len(s) + 1)
         /\ Len(Append(s, e)) = Len(s) + 1
         /\ Append(s, e)[Len(s) + 1] = e
         /\ \A i \in 1..Len(s) : Append(s, e)[i] = s[i]
<1> DEFINE R == Range(s) \cup {e}
<1>1. s \in Seq(Range(s))
  BY DEF Array
<1> HIDE DEF R
<1>2. s \in Seq(R) /\ e \in R
  <2>1. Range(s) \subseteq R /\ e \in R
    BY DEF R
  <2> QED
    BY <1>1, <2>1
<1>3. /\ Append(s, e) \in Seq(R) /\ Len(s) \in Nat /\ DOMAIN s = 1..Len(s)
      /\ Len(Append(s, e)) = Len(s) + 1
      /\ Append(s, e)[Len(s) + 1] = e
      /\ \A i \in 1..Len(s) : Append(s, e)[i] = s[i]
  BY <1>2
<1>4. /\ Array(Append(s, e))
      /\ DOMAIN Append(s, e) = 1..Len(Append(s, e))
  BY <1>3, ArrayOf
<1> QED
  BY <1>3, <1>4

-----------------------------------------------------------------------------
(* mdlRTW(): records that are written stay, under their numbers.           *)

Lists == {"SdoConfig", "SoeConfig", "OutputPortIdx", "InputPortIdx"}
RtwFields == Lists \cup {"settings", "param_idx", "param", "DcOpMode",
                         "FilterCount", "tables"}

RtwOK(w) ==
  /\ DOMAIN w = RtwFields
  /\ Array(w.settings) /\ w.param_idx = Len(w.settings)
  /\ \A list \in Lists : Array(w[list])

\* From w to v records were added, and the fields in F have changed.
Grown(w, v, F) ==
  /\ RtwOK(w) /\ RtwOK(v)
  /\ Len(w.settings) <= Len(v.settings)
  /\ \A n \in 0..(Len(w.settings) - 1) : v.settings[n + 1] = w.settings[n + 1]
  /\ \A f \in RtwFields \ (F \cup {"settings", "param_idx", "param"}) :
       v[f] = w[f]

\* The record with number n.
Noted(w, n, r) == n \in 0..(Len(w.settings) - 1) /\ w.settings[n + 1] = r

LEMMA Lengths ==
  ASSUME NEW w, RtwOK(w)
  PROVE  /\ Len(w.settings) \in Nat
         /\ \A list \in Lists : Len(w[list]) \in Nat
                                /\ DOMAIN w[list] = 1..Len(w[list])
<1>1. Array(w.settings) /\ \A list \in Lists : Array(w[list])
  BY DEF RtwOK
<1> QED
  BY <1>1, AppendArray

LEMMA GrownNoted ==
  ASSUME NEW w, NEW v, NEW F, Grown(w, v, F), NEW n, NEW r, Noted(w, n, r)
  PROVE  Noted(v, n, r)
<1>1. Len(w.settings) \in Nat /\ Len(v.settings) \in Nat
  BY Lengths DEF Grown
<1> QED
  BY <1>1 DEF Grown, Noted

LEMMA GrownTwice ==
  ASSUME NEW w, NEW v, NEW u, NEW F, NEW G, Grown(w, v, F), Grown(v, u, G)
  PROVE  Grown(w, u, F \cup G)
<1>1. /\ Len(w.settings) \in Nat /\ Len(v.settings) \in Nat
      /\ Len(u.settings) \in Nat
  BY Lengths DEF Grown
<1>2. ASSUME NEW n \in 0..(Len(w.settings) - 1)
      PROVE  u.settings[n + 1] = w.settings[n + 1]
  <2>1. n \in 0..(Len(v.settings) - 1)
    BY <1>1 DEF Grown
  <2> QED
    BY <2>1 DEF Grown
<1> QED
  BY <1>1, <1>2 DEF Grown

LEMMA GrownNot ==
  ASSUME NEW w, RtwOK(w), NEW F
  PROVE  Grown(w, w, F)
<1>1. Len(w.settings) \in Nat
  BY Lengths
<1> QED
  BY <1>1 DEF Grown

LEMMA WriteListedFacts ==
  ASSUME NEW w, RtwOK(w), NEW list \in Lists, NEW r
  PROVE  LET v == WriteListed(w, list, r)
         IN  /\ Grown(w, v, {list}) /\ v.param = w.param
             /\ v[list] = Append(w[list], Len(w.settings))
             /\ Noted(v, Len(w.settings), r)
<1> DEFINE v == WriteListed(w, list, r)
<1>1. /\ DOMAIN w = RtwFields /\ w.param_idx = Len(w.settings)
      /\ Array(w.settings) /\ Array(w[list])
  BY DEF RtwOK
<1>2. /\ list \notin {"settings", "param_idx", "param", "DcOpMode",
                      "FilterCount", "tables"}
      /\ {list, "settings", "param_idx"} \subseteq RtwFields
  BY DEF Lists, RtwFields
<1>3. /\ DOMAIN v = RtwFields
      /\ v.settings = Append(w.settings, r)
      /\ v[list] = Append(w[list], w.param_idx)
      /\ v.param_idx = w.param_idx + 1
      /\ \A f \in RtwFields \ {list, "settings", "param_idx"} : v[f] = w[f]
  BY <1>1, <1>2 DEF WriteListed
<1> HIDE DEF v
<1>4. /\ Array(v.settings) /\ Len(w.settings) \in Nat
      /\ Len(v.settings) = Len(w.settings) + 1
      /\ v.settings[Len(w.settings) + 1] = r
      /\ \A i \in 1..Len(w.settings) : v.settings[i] = w.settings[i]
      /\ Array(v[list])
  BY <1>1, <1>3, AppendArray
<1>5. \A l \in Lists : Array(v[l])
  <2>1. \A l \in Lists : l = list \/ l \in RtwFields \ {list, "settings", "param_idx"}
    BY DEF Lists, RtwFields
  <2>2. \A l \in Lists : Array(w[l])
    BY DEF RtwOK
  <2> QED
    BY <1>3, <1>4, <2>1, <2>2
<1>6. RtwOK(v)
  BY <1>1, <1>3, <1>4, <1>5 DEF RtwOK
<1>7. Grown(w, v, {list})
  BY <1>3, <1>4, <1>6 DEF Grown
<1>8. v.param = w.param
  BY <1>2, <1>3 DEF RtwFields
<1> QED
  BY <1>1, <1>3, <1>4, <1>7, <1>8 DEF Noted, v

\* A list of records: the i-th number leads to the i-th record.
Listed(v, list, records, k) ==
  /\ Len(v[list]) = k
  /\ \A i \in 1..k : Noted(v, v[list][i], records[i])

Writes(w, list, records) ==
  LET write[k \in 0..Len(records)] ==
        IF k = 0 THEN w ELSE WriteListed(write[k - 1], list, records[k])
  IN  write

LEMMA WritesUnrolled ==
  ASSUME NEW w, NEW list, NEW s, Len(s) \in Nat
  PROVE  /\ Writes(w, list, s)[0] = w
         /\ \A k \in 1..Len(s) : Writes(w, list, s)[k] =
              WriteListed(Writes(w, list, s)[k - 1], list, s[k])
<1> DEFINE n == Len(s)
           Takes(f, m) ==
             f = [k \in 0..m |-> IF k = 0 THEN w
                                 ELSE WriteListed(f[k - 1], list, s[k])]
           Reached == {m \in 0..n : \E f : Takes(f, m)}
<1>0. n \in Nat
  OBVIOUS
<1> HIDE DEF n
<1>1. 0 \in Reached
  <2>1. Takes([k \in 0..0 |-> w], 0)
    OBVIOUS
  <2>2. \E f : Takes(f, 0)
    <3> HIDE DEF Takes
    <3> QED
      BY <2>1, Zenon
  <2> QED
    BY <1>0, <2>2
<1>2. ASSUME NEW m \in 0..(n - 1), m \in Reached PROVE m + 1 \in Reached
  <2>1. PICK f : Takes(f, m)
    BY <1>2
  <2> DEFINE g == [k \in 0..(m + 1) |->
                     IF k = m + 1 THEN WriteListed(f[m], list, s[m + 1])
                     ELSE f[k]]
  <2>2. ASSUME NEW k \in 0..(m + 1)
        PROVE  g[k] = IF k = 0 THEN w ELSE WriteListed(g[k - 1], list, s[k])
    <3>1. CASE k = 0
      BY <2>1, <3>1
    <3>2. CASE k = m + 1
      <4>1. k - 1 = m /\ g[k - 1] = f[m]
        BY <3>2
      <4> QED
        BY <3>2, <4>1
    <3>3. CASE k \in 1..m
      <4>1. k - 1 \in 0..m /\ g[k - 1] = f[k - 1] /\ g[k] = f[k]
        BY <3>3
      <4> QED
        BY <2>1, <3>3, <4>1
    <3> QED
      BY <3>1, <3>2, <3>3
  <2>3. Takes(g, m + 1)
    BY <2>2
  <2>4. \E h : Takes(h, m + 1)
    <3> HIDE DEF Takes, g
    <3> QED
      BY <2>3, Zenon
  <2> QED
    BY <1>0, <2>4
<1>3. \E f : Takes(f, n)
  <2> HIDE DEF Reached
  <2>1. \A m \in 0..n : m \in Reached
    BY <1>0, <1>1, <1>2, Turns
  <2>2. n \in Reached
    BY <1>0, <2>1
  <2> HIDE DEF Takes
  <2> QED
    BY <2>2 DEF Reached
<1>4. Takes(Writes(w, list, s), n)
  BY <1>3, Zenon DEF Writes, n
<1> QED
  BY <1>0, <1>4 DEF n

LEMMA WriteAllFacts ==
  ASSUME NEW w, RtwOK(w), NEW list \in Lists, w[list] = <<>>,
         NEW s, Len(s) \in Nat
  PROVE  /\ Grown(w, WriteAll(w, list, s), {list})
         /\ Listed(WriteAll(w, list, s), list, s, Len(s))
<1> DEFINE f == Writes(w, list, s)
           Good == {k \in 0..Len(s) : Grown(w, f[k], {list})
                                      /\ Listed(f[k], list, s, k)}
<1>1. /\ f[0] = w
      /\ \A k \in 1..Len(s) : f[k] = WriteListed(f[k - 1], list, s[k])
  BY WritesUnrolled
<1> HIDE DEF f
<1>2. 0 \in Good
  <2>1. Grown(w, w, {list})
    BY GrownNot
  <2> QED
    BY <1>1, <2>1 DEF Listed
<1>3. ASSUME NEW k \in 0..(Len(s) - 1), k \in Good PROVE k + 1 \in Good
  <2> DEFINE u == f[k]
             v == f[k + 1]
  <2>1. k + 1 \in 1..Len(s) /\ (k + 1) - 1 = k /\ k \in Nat
    OBVIOUS
  <2>2. Grown(w, u, {list}) /\ Listed(u, list, s, k) /\ RtwOK(u)
    BY <1>3 DEF Grown
  <2>3. v = WriteListed(u, list, s[k + 1])
    BY <1>1, <2>1
  <2> HIDE DEF u, v
  <2>4. /\ Grown(u, v, {list}) /\ v[list] = Append(u[list], Len(u.settings))
        /\ Noted(v, Len(u.settings), s[k + 1])
    BY <2>2, <2>3, WriteListedFacts
  <2>5. Grown(w, v, {list})
    <3>1. Grown(w, v, {list} \cup {list})
      BY <2>2, <2>4, GrownTwice
    <3>2. {list} \cup {list} = {list}
      OBVIOUS
    <3> QED
      BY <3>1, <3>2
  <2>6. /\ Len(v[list]) = k + 1 /\ v[list][k + 1] = Len(u.settings)
        /\ \A i \in 1..k : v[list][i] = u[list][i]
    <3>1. Array(u[list]) /\ Len(u[list]) = k
      BY <2>2 DEF RtwOK, Listed
    <3> QED
      BY <2>4, <3>1, AppendArray
  <2>7. ASSUME NEW i \in 1..(k + 1) PROVE Noted(v, v[list][i], s[i])
    <3>1. CASE i = k + 1
      BY <2>4, <2>6, <3>1
    <3>2. CASE i # k + 1
      <4>1. i \in 1..k /\ Noted(u, u[list][i], s[i])
        BY <2>1, <2>2, <3>2 DEF Listed
      <4>2. Noted(v, u[list][i], s[i])
        BY <2>4, <4>1, GrownNoted
      <4> QED
        BY <2>6, <4>1, <4>2
    <3> QED
      BY <3>1, <3>2
  <2> QED
    BY <2>1, <2>5, <2>6, <2>7 DEF Listed, v
<1> HIDE DEF Good
<1>4. \A k \in 0..Len(s) : k \in Good
  BY <1>2, <1>3, Turns
<1>5. WriteAll(w, list, s) = f[Len(s)]
  BY Zenon DEF WriteAll, Writes, f
<1>6. Len(s) \in Good
  BY <1>4
<1> QED
  BY <1>5, <1>6 DEF Good

\* The record of a port and those of its parameters.
ParamNoted(w, n, p) ==
  IF IsSet(p) THEN Noted(w, n, ParamRecord(p)) ELSE n = Untold

PortRecord(w, r, port) ==
  /\ r.Pdo = [j \in DOMAIN port.pdo |->
                <<port.pdo[j].entry.index, port.pdo[j].entry.subindex,
                  port.pdo[j].element_idx>>]
  /\ r.PdoDataTypeId = port.data_type /\ r.BigEndian = port.big_endian
  /\ r.FullScale = port.fullscale /\ r.DWorkIndex = port.dwork_idx
  /\ ParamNoted(w, r.Param[1], port.gain)
  /\ ParamNoted(w, r.Param[2], port.offset)
  /\ ParamNoted(w, r.Param[3], port.filter)

PortNoted(w, n, port) ==
  n \in 0..(Len(w.settings) - 1) /\ PortRecord(w, w.settings[n + 1], port)

LEMMA GrownParam ==
  ASSUME NEW w, NEW v, NEW F, Grown(w, v, F), NEW n, NEW p, ParamNoted(w, n, p)
  PROVE  ParamNoted(v, n, p)
BY GrownNoted DEF ParamNoted

LEMMA GrownPort ==
  ASSUME NEW w, NEW v, NEW F, Grown(w, v, F), NEW n, NEW port,
         PortNoted(w, n, port)
  PROVE  PortNoted(v, n, port)
<1> DEFINE r == w.settings[n + 1]
<1>1. Noted(w, n, r) /\ PortRecord(w, r, port)
  BY DEF PortNoted, Noted
<1> HIDE DEF r
<1>2. Noted(v, n, r)
  BY <1>1, GrownNoted
<1>3. /\ ParamNoted(v, r.Param[1], port.gain)
      /\ ParamNoted(v, r.Param[2], port.offset)
      /\ ParamNoted(v, r.Param[3], port.filter)
  BY <1>1, GrownParam DEF PortRecord
<1> QED
  BY <1>1, <1>2, <1>3 DEF PortNoted, PortRecord, Noted

LEMMA WriteParameterFacts ==
  ASSUME NEW w, RtwOK(w), DOMAIN w.param = 1..3, NEW k \in 1..3, NEW p
  PROVE  LET v == WritePortParameter(w, k, p)
         IN  /\ Grown(w, v, {}) /\ DOMAIN v.param = 1..3
             /\ \A m \in 1..3 : m # k => v.param[m] = w.param[m]
             /\ IF IsSet(p) THEN Noted(v, v.param[k], ParamRecord(p))
                ELSE v.param[k] = w.param[k]
<1> DEFINE v == WritePortParameter(w, k, p)
<1>1. CASE ~IsSet(p)
  <2>1. v = w
    BY <1>1 DEF WritePortParameter
  <2> QED
    BY <1>1, <2>1, GrownNot
<1>2. CASE IsSet(p)
  <2>1. /\ DOMAIN w = RtwFields /\ w.param_idx = Len(w.settings)
        /\ Array(w.settings)
    BY DEF RtwOK
  <2>2. {"settings", "param_idx", "param"} \subseteq RtwFields
    BY DEF RtwFields
  <2>3. /\ DOMAIN v = RtwFields
        /\ v.settings = Append(w.settings, ParamRecord(p))
        /\ v.param = [w.param EXCEPT ![k] = w.param_idx]
        /\ v.param_idx = w.param_idx + 1
        /\ \A f \in RtwFields \ {"param", "settings", "param_idx"} : v[f] = w[f]
    BY <1>2, <2>1, <2>2 DEF WritePortParameter
  <2> HIDE DEF v
  <2>4. /\ Array(v.settings) /\ Len(w.settings) \in Nat
        /\ Len(v.settings) = Len(w.settings) + 1
        /\ v.settings[Len(w.settings) + 1] = ParamRecord(p)
        /\ \A i \in 1..Len(w.settings) : v.settings[i] = w.settings[i]
    BY <2>1, <2>3, AppendArray
  <2>5. \A l \in Lists : Array(v[l])
    <3>1. Lists \subseteq RtwFields \ {"param", "settings", "param_idx"}
      BY DEF Lists, RtwFields
    <3>2. \A l \in Lists : Array(w[l])
      BY DEF RtwOK
    <3> QED
      BY <2>3, <3>1, <3>2
  <2>6. RtwOK(v)
    BY <2>1, <2>3, <2>4, <2>5 DEF RtwOK
  <2>7. Grown(w, v, {})
    BY <2>3, <2>4, <2>6 DEF Grown
  <2>8. v.param[k] = Len(w.settings) /\ DOMAIN v.param = 1..3
        /\ \A m \in 1..3 : m # k => v.param[m] = w.param[m]
    BY <2>1, <2>3
  <2>9. Noted(v, v.param[k], ParamRecord(p))
    BY <2>4, <2>8 DEF Noted
  <2> QED
    BY <1>2, <2>7, <2>8, <2>9 DEF v
<1> QED
  BY <1>1, <1>2

LEMMA WritePortFacts ==
  ASSUME NEW w, RtwOK(w), NEW list \in Lists, NEW port
  PROVE  LET v == WritePort(w, list, port)
         IN  /\ Grown(w, v, {list})
             /\ \E n : v[list] = Append(w[list], n) /\ PortNoted(v, n, port)
<1> DEFINE w0 == [w EXCEPT !.param = <<Untold, Untold, Untold>>]
           w1 == WritePortParameter(w0, 1, port.gain)
           w2 == WritePortParameter(w1, 2, port.offset)
           w3 == WritePortParameter(w2, 3, port.filter)
           r == [Pdo |-> [j \in DOMAIN port.pdo |->
                   <<port.pdo[j].entry.index, port.pdo[j].entry.subindex,
                     port.pdo[j].element_idx>>],
                 PdoDataTypeId |-> port.data_type,
                 BigEndian |-> port.big_endian, Param |-> w3.param,
                 FullScale |-> port.fullscale, DWorkIndex |-> port.dwork_idx]
           v == WriteListed(w3, list, r)
<1>1. WritePort(w, list, port) = v
  BY Zenon DEF WritePort
<1>2. /\ Grown(w, w0, {}) /\ DOMAIN w0.param = 1..3
      /\ \A k \in 1..3 : w0.param[k] = Untold
  <2>1. DOMAIN w = RtwFields /\ "param" \in RtwFields
    BY DEF RtwOK, RtwFields
  <2>2. /\ DOMAIN w0 = RtwFields
        /\ \A f \in RtwFields \ {"param"} : w0[f] = w[f]
        /\ w0.param = <<Untold, Untold, Untold>>
    BY <2>1
  <2> HIDE DEF w0
  <2>3. Lists \cup {"settings", "param_idx"} \subseteq RtwFields \ {"param"}
    BY DEF Lists, RtwFields
  <2>4. RtwOK(w0) /\ w0.settings = w.settings
    <3>1. /\ \A l \in Lists : w0[l] = w[l]
          /\ w0["settings"] = w["settings"] /\ w0["param_idx"] = w["param_idx"]
      BY <2>2, <2>3
    <3> QED
      BY <2>2, <3>1 DEF RtwOK
  <2>5. Len(w.settings) \in Nat
    BY Lengths
  <2> QED
    BY <2>2, <2>4, <2>5 DEF Grown
<1> HIDE DEF w0
<1>3. /\ Grown(w0, w1, {}) /\ DOMAIN w1.param = 1..3
      /\ \A m \in {2, 3} : w1.param[m] = Untold
      /\ ParamNoted(w1, w1.param[1], port.gain)
  <2>1. RtwOK(w0)
    BY <1>2 DEF Grown
  <2> QED
    BY <1>2, <2>1, WriteParameterFacts DEF ParamNoted
<1> HIDE DEF w1
<1>4. /\ Grown(w1, w2, {}) /\ DOMAIN w2.param = 1..3
      /\ w2.param[3] = Untold /\ w2.param[1] = w1.param[1]
      /\ ParamNoted(w2, w2.param[2], port.offset)
  <2>1. RtwOK(w1)
    BY <1>3 DEF Grown
  <2> QED
    BY <1>3, <2>1, WriteParameterFacts DEF ParamNoted
<1> HIDE DEF w2
<1>5. /\ Grown(w2, w3, {}) /\ DOMAIN w3.param = 1..3
      /\ w3.param[1] = w2.param[1] /\ w3.param[2] = w2.param[2]
      /\ ParamNoted(w3, w3.param[3], port.filter)
  <2>1. RtwOK(w2)
    BY <1>4 DEF Grown
  <2> QED
    BY <1>4, <2>1, WriteParameterFacts DEF ParamNoted
<1> HIDE DEF w3, r
<1>6. /\ Grown(w3, v, {list}) /\ v[list] = Append(w3[list], Len(w3.settings))
      /\ Noted(v, Len(w3.settings), r)
  <2>1. RtwOK(w3)
    BY <1>5 DEF Grown
  <2> QED
    BY <2>1, WriteListedFacts
<1> HIDE DEF v
<1>7. /\ ParamNoted(v, w3.param[1], port.gain)
      /\ ParamNoted(v, w3.param[2], port.offset)
      /\ ParamNoted(v, w3.param[3], port.filter)
  <2>1. ParamNoted(w3, w3.param[2], port.offset)
    BY <1>4, <1>5, GrownParam
  <2>2. ParamNoted(w2, w1.param[1], port.gain)
    BY <1>3, <1>4, GrownParam
  <2>3. ParamNoted(w3, w3.param[1], port.gain)
    BY <1>4, <1>5, <2>2, GrownParam
  <2> QED
    BY <1>5, <1>6, <2>1, <2>3, GrownParam
<1>8. PortNoted(v, Len(w3.settings), port)
  <2>1. PortRecord(v, r, port)
    BY <1>7 DEF PortRecord, r
  <2> QED
    BY <1>6, <2>1 DEF PortNoted, Noted
<1>9. Grown(w, w3, {})
  <2>1. {} \cup {} = {}
    OBVIOUS
  <2>2. Grown(w, w1, {})
    BY <1>2, <1>3, <2>1, GrownTwice
  <2>3. Grown(w, w2, {})
    BY <1>4, <2>1, <2>2, GrownTwice
  <2> QED
    BY <1>5, <2>1, <2>3, GrownTwice
<1>10. Grown(w, v, {list})
  <2>1. {} \cup {list} = {list}
    OBVIOUS
  <2>2. Grown(w, v, {} \cup {list})
    BY <1>6, <1>9, GrownTwice
  <2> QED
    BY <2>1, <2>2
<1>11. w3[list] = w[list]
  <2>1. list \in RtwFields \ ({} \cup {"settings", "param_idx", "param"})
    BY DEF Lists, RtwFields
  <2> QED
    BY <1>9, <2>1 DEF Grown
<1> QED
  BY <1>1, <1>6, <1>8, <1>10, <1>11

PortsListed(v, list, ports, k) ==
  /\ Len(v[list]) = k
  /\ \A i \in 1..k : PortNoted(v, v[list][i], ports[i])

PortWrites(w, list, ports) ==
  LET write[k \in 0..Len(ports)] ==
        IF k = 0 THEN w ELSE WritePort(write[k - 1], list, ports[k])
  IN  write

LEMMA PortWritesUnrolled ==
  ASSUME NEW w, NEW list, NEW s, Len(s) \in Nat
  PROVE  /\ PortWrites(w, list, s)[0] = w
         /\ \A k \in 1..Len(s) : PortWrites(w, list, s)[k] =
              WritePort(PortWrites(w, list, s)[k - 1], list, s[k])
<1> DEFINE n == Len(s)
           Takes(f, m) ==
             f = [k \in 0..m |-> IF k = 0 THEN w
                                 ELSE WritePort(f[k - 1], list, s[k])]
           Reached == {m \in 0..n : \E f : Takes(f, m)}
<1>0. n \in Nat
  OBVIOUS
<1> HIDE DEF n
<1>1. 0 \in Reached
  <2>1. Takes([k \in 0..0 |-> w], 0)
    OBVIOUS
  <2>2. \E f : Takes(f, 0)
    <3> HIDE DEF Takes
    <3> QED
      BY <2>1, Zenon
  <2> QED
    BY <1>0, <2>2
<1>2. ASSUME NEW m \in 0..(n - 1), m \in Reached PROVE m + 1 \in Reached
  <2>1. PICK f : Takes(f, m)
    BY <1>2
  <2> DEFINE g == [k \in 0..(m + 1) |->
                     IF k = m + 1 THEN WritePort(f[m], list, s[m + 1])
                     ELSE f[k]]
  <2>2. ASSUME NEW k \in 0..(m + 1)
        PROVE  g[k] = IF k = 0 THEN w ELSE WritePort(g[k - 1], list, s[k])
    <3>1. CASE k = 0
      BY <2>1, <3>1
    <3>2. CASE k = m + 1
      <4>1. k - 1 = m /\ g[k - 1] = f[m]
        BY <3>2
      <4> QED
        BY <3>2, <4>1
    <3>3. CASE k \in 1..m
      <4>1. k - 1 \in 0..m /\ g[k - 1] = f[k - 1] /\ g[k] = f[k]
        BY <3>3
      <4> QED
        BY <2>1, <3>3, <4>1
    <3> QED
      BY <3>1, <3>2, <3>3
  <2>3. Takes(g, m + 1)
    BY <2>2
  <2>4. \E h : Takes(h, m + 1)
    <3> HIDE DEF Takes, g
    <3> QED
      BY <2>3, Zenon
  <2> QED
    BY <1>0, <2>4
<1>3. \E f : Takes(f, n)
  <2> HIDE DEF Reached
  <2>1. \A m \in 0..n : m \in Reached
    BY <1>0, <1>1, <1>2, Turns
  <2>2. n \in Reached
    BY <1>0, <2>1
  <2> HIDE DEF Takes
  <2> QED
    BY <2>2 DEF Reached
<1>4. Takes(PortWrites(w, list, s), n)
  BY <1>3, Zenon DEF PortWrites, n
<1> QED
  BY <1>0, <1>4 DEF n

LEMMA WritePortsFacts ==
  ASSUME NEW w, RtwOK(w), NEW list \in Lists, w[list] = <<>>,
         NEW s, Len(s) \in Nat
  PROVE  /\ Grown(w, WritePorts(w, list, s), {list})
         /\ PortsListed(WritePorts(w, list, s), list, s, Len(s))
<1> DEFINE f == PortWrites(w, list, s)
           Good == {k \in 0..Len(s) : Grown(w, f[k], {list})
                                      /\ PortsListed(f[k], list, s, k)}
<1>1. /\ f[0] = w
      /\ \A k \in 1..Len(s) : f[k] = WritePort(f[k - 1], list, s[k])
  BY PortWritesUnrolled
<1> HIDE DEF f
<1>2. 0 \in Good
  <2>1. Grown(w, w, {list})
    BY GrownNot
  <2> QED
    BY <1>1, <2>1 DEF PortsListed
<1>3. ASSUME NEW k \in 0..(Len(s) - 1), k \in Good PROVE k + 1 \in Good
  <2> DEFINE u == f[k]
             v == f[k + 1]
  <2>1. k + 1 \in 1..Len(s) /\ (k + 1) - 1 = k /\ k \in Nat
    OBVIOUS
  <2>2. Grown(w, u, {list}) /\ PortsListed(u, list, s, k) /\ RtwOK(u)
    BY <1>3 DEF Grown
  <2>3. v = WritePort(u, list, s[k + 1])
    BY <1>1, <2>1
  <2> HIDE DEF u, v
  <2>4. Grown(u, v, {list})
        /\ \E n : v[list] = Append(u[list], n) /\ PortNoted(v, n, s[k + 1])
    BY <2>2, <2>3, WritePortFacts
  <2>5. Grown(w, v, {list})
    <3>1. Grown(w, v, {list} \cup {list})
      BY <2>2, <2>4, GrownTwice
    <3>2. {list} \cup {list} = {list}
      OBVIOUS
    <3> QED
      BY <3>1, <3>2
  <2>6. /\ Len(v[list]) = k + 1 /\ PortNoted(v, v[list][k + 1], s[k + 1])
        /\ \A i \in 1..k : v[list][i] = u[list][i]
    <3>1. Array(u[list]) /\ Len(u[list]) = k
      BY <2>2 DEF RtwOK, PortsListed
    <3>2. PICK n : v[list] = Append(u[list], n) /\ PortNoted(v, n, s[k + 1])
      BY <2>4
    <3> QED
      BY <3>1, <3>2, AppendArray
  <2>7. ASSUME NEW i \in 1..(k + 1) PROVE PortNoted(v, v[list][i], s[i])
    <3>1. CASE i = k + 1
      BY <2>4, <2>6, <3>1
    <3>2. CASE i # k + 1
      <4>1. i \in 1..k /\ PortNoted(u, u[list][i], s[i])
        BY <2>1, <2>2, <3>2 DEF PortsListed
      <4>2. PortNoted(v, u[list][i], s[i])
        BY <2>4, <4>1, GrownPort
      <4> QED
        BY <2>6, <4>1, <4>2
    <3> QED
      BY <3>1, <3>2
  <2> QED
    BY <2>1, <2>5, <2>6, <2>7 DEF PortsListed, v
<1> HIDE DEF Good
<1>4. \A k \in 0..Len(s) : k \in Good
  BY <1>2, <1>3, Turns
<1>5. WritePorts(w, list, s) = f[Len(s)]
  BY Zenon DEF WritePorts, PortWrites, f
<1>6. Len(s) \in Good
  BY <1>4
<1> QED
  BY <1>5, <1>6 DEF Good

\* What a block's records say.
NoClockMode == GetSlaveDc(cfg.dc).AssignActivate = 0 \/ cfg.sm = <<>>
SdoRecords == [i \in DOMAIN cfg.sdo |-> GetSlaveSdo(cfg.sdo[i])]
SoeRecords == [i \in DOMAIN cfg.soe |-> GetSlaveSoe(cfg.soe[i])]

RecordsRight(w) ==
  /\ RtwOK(w)
  /\ Listed(w, "SdoConfig", SdoRecords, Len(cfg.sdo))
  /\ Listed(w, "SoeConfig", SoeRecords, Len(cfg.soe))
  /\ IF NoClockMode THEN w.DcOpMode = Untold
     ELSE Noted(w, w.DcOpMode, GetSlaveDc(cfg.dc))
  /\ PortsListed(w, "OutputPortIdx", slave.o_port, Len(slave.o_port))
  /\ PortsListed(w, "InputPortIdx", slave.i_port, Len(slave.i_port))
  /\ w.FilterCount = slave.filter_count
  /\ w.tables = IF cfg.sm = <<>> THEN <<>> ELSE Tables(cfg.sm)

LEMMA WriteDcFacts ==
  ASSUME NEW w, RtwOK(w), w.DcOpMode = Untold
  PROVE  LET v == WriteDc(w)
         IN  /\ Grown(w, v, {"DcOpMode"})
             /\ IF NoClockMode THEN v.DcOpMode = Untold
                ELSE Noted(v, v.DcOpMode, GetSlaveDc(cfg.dc))
<1> DEFINE v == WriteDc(w)
           dc == GetSlaveDc(cfg.dc)
<1>1. CASE NoClockMode
  <2>1. v = w
    BY <1>1 DEF WriteDc, NoClockMode
  <2> QED
    BY <1>1, <2>1, GrownNot
<1>2. CASE ~NoClockMode
  <2>1. /\ DOMAIN w = RtwFields /\ w.param_idx = Len(w.settings)
        /\ Array(w.settings)
        /\ {"settings", "param_idx", "DcOpMode"} \subseteq RtwFields
    BY DEF RtwOK, RtwFields
  <2> HIDE DEF dc
  <2>2. v = [w EXCEPT !.settings = Append(@, dc), !.DcOpMode = w.param_idx,
                      !.param_idx = @ + 1]
    BY <1>2, Zenon DEF WriteDc, NoClockMode, dc
  <2> HIDE DEF v
  <2>3. /\ DOMAIN v = RtwFields
        /\ v.settings = Append(w.settings, dc)
        /\ v.DcOpMode = w.param_idx
        /\ v.param_idx = w.param_idx + 1
        /\ \A f \in RtwFields \ {"DcOpMode", "settings", "param_idx"} :
             v[f] = w[f]
    BY <2>1, <2>2
  <2>4. /\ Array(v.settings) /\ Len(w.settings) \in Nat
        /\ Len(v.settings) = Len(w.settings) + 1
        /\ v.settings[Len(w.settings) + 1] = dc
        /\ \A i \in 1..Len(w.settings) : v.settings[i] = w.settings[i]
    BY <2>1, <2>3, AppendArray
  <2>5. \A l \in Lists : Array(v[l])
    <3>1. Lists \subseteq RtwFields \ {"DcOpMode", "settings", "param_idx"}
      BY DEF Lists, RtwFields
    <3>2. \A l \in Lists : Array(w[l])
      BY DEF RtwOK
    <3> QED
      BY <2>3, <3>1, <3>2
  <2>6. RtwOK(v)
    BY <2>1, <2>3, <2>4, <2>5 DEF RtwOK
  <2>7. Grown(w, v, {"DcOpMode"})
    BY <2>3, <2>4, <2>6 DEF Grown
  <2>8. Noted(v, v.DcOpMode, dc)
    BY <2>1, <2>3, <2>4 DEF Noted
  <2> QED
    BY <1>2, <2>7, <2>8 DEF v, dc
<1> QED
  BY <1>1, <1>2

LEMMA GrownListed ==
  ASSUME NEW w, NEW v, NEW F, Grown(w, v, F), NEW list \in Lists,
         list \notin F, NEW s, NEW n, Listed(w, list, s, n)
  PROVE  Listed(v, list, s, n)
<1>1. v[list] = w[list]
  BY DEF Grown, Lists, RtwFields
<1>2. ASSUME NEW i \in 1..n PROVE Noted(v, v[list][i], s[i])
  <2>1. Noted(w, w[list][i], s[i])
    BY DEF Listed
  <2> QED
    BY <1>1, <2>1, GrownNoted
<1> QED
  BY <1>1, <1>2 DEF Listed

LEMMA GrownPortsListed ==
  ASSUME NEW w, NEW v, NEW F, Grown(w, v, F), NEW list \in Lists,
         list \notin F, NEW s, NEW n, PortsListed(w, list, s, n)
  PROVE  PortsListed(v, list, s, n)
<1>1. v[list] = w[list]
  BY DEF Grown, Lists, RtwFields
<1>2. ASSUME NEW i \in 1..n PROVE PortNoted(v, v[list][i], s[i])
  <2>1. PortNoted(w, w[list][i], s[i])
    BY DEF PortsListed
  <2> QED
    BY <1>1, <2>1, GrownPort
<1> QED
  BY <1>1, <1>2 DEF PortsListed

LEMMA RtwFacts ==
  ASSUME Array(cfg.sdo), Array(cfg.soe), Len(slave.o_port) \in Nat,
         Len(slave.i_port) \in Nat
  PROVE  RecordsRight(Rtw)
<1> DEFINE w1 == WriteAll(NoRtw, "SdoConfig", SdoRecords)
           w2 == WriteAll(w1, "SoeConfig", SoeRecords)
           wd == WriteDc(w2)
           w3 == WritePorts(wd, "OutputPortIdx", slave.o_port)
           w4 == WritePorts(w3, "InputPortIdx", slave.i_port)
           v == [w4 EXCEPT !.FilterCount = slave.filter_count,
                           !.tables = IF cfg.sm = <<>> THEN @ ELSE Tables(cfg.sm)]
<1>1. Rtw = v
  BY Zenon DEF Rtw, SdoRecords, SoeRecords
<1>2. /\ Len(SdoRecords) \in Nat /\ Len(SdoRecords) = Len(cfg.sdo)
      /\ Len(SoeRecords) \in Nat /\ Len(SoeRecords) = Len(cfg.soe)
  <2>1. /\ DOMAIN cfg.sdo = 1..Len(cfg.sdo) /\ Len(cfg.sdo) \in Nat
        /\ DOMAIN cfg.soe = 1..Len(cfg.soe) /\ Len(cfg.soe) \in Nat
    BY AppendArray
  <2> QED
    BY <2>1 DEF SdoRecords, SoeRecords
<1>3. /\ RtwOK(NoRtw) /\ \A list \in Lists : NoRtw[list] = <<>>
      /\ NoRtw.DcOpMode = Untold /\ NoRtw.tables = <<>>
  <2>1. Array(<<>>) /\ Len(<<>>) = 0
    <3>1. <<>> \in Seq({})
      OBVIOUS
    <3> QED
      BY <3>1, ArrayOf
  <2> QED
    BY <2>1 DEF RtwOK, NoRtw, RtwFields, Lists
<1>4. Lists = {"SdoConfig", "SoeConfig", "OutputPortIdx", "InputPortIdx"}
  BY DEF Lists
<1>5. Grown(NoRtw, w1, {"SdoConfig"})
      /\ Listed(w1, "SdoConfig", SdoRecords, Len(cfg.sdo))
  BY <1>2, <1>3, <1>4, WriteAllFacts
<1> HIDE DEF w1
<1>6. /\ RtwOK(w1) /\ w1.SoeConfig = <<>> /\ w1.OutputPortIdx = <<>>
      /\ w1.InputPortIdx = <<>> /\ w1.DcOpMode = Untold /\ w1.tables = <<>>
  BY <1>3, <1>5 DEF Grown, RtwFields, Lists
<1>7. Grown(w1, w2, {"SoeConfig"})
      /\ Listed(w2, "SoeConfig", SoeRecords, Len(cfg.soe))
  BY <1>2, <1>4, <1>6, WriteAllFacts
<1> HIDE DEF w2
<1>8. /\ RtwOK(w2) /\ w2.OutputPortIdx = <<>>
      /\ w2.InputPortIdx = <<>> /\ w2.DcOpMode = Untold /\ w2.tables = <<>>
  BY <1>6, <1>7 DEF Grown, RtwFields, Lists
<1>9. /\ Grown(w2, wd, {"DcOpMode"})
      /\ IF NoClockMode THEN wd.DcOpMode = Untold
         ELSE Noted(wd, wd.DcOpMode, GetSlaveDc(cfg.dc))
  BY <1>8, WriteDcFacts
<1> HIDE DEF wd
<1>10. /\ RtwOK(wd) /\ wd.OutputPortIdx = <<>> /\ wd.InputPortIdx = <<>>
       /\ wd.tables = <<>>
  BY <1>8, <1>9 DEF Grown, RtwFields, Lists
<1>11. /\ Grown(wd, w3, {"OutputPortIdx"})
       /\ PortsListed(w3, "OutputPortIdx", slave.o_port, Len(slave.o_port))
  BY <1>4, <1>10, WritePortsFacts
<1> HIDE DEF w3
<1>12. /\ RtwOK(w3) /\ w3.InputPortIdx = <<>> /\ w3.tables = <<>>
       /\ w3.DcOpMode = wd.DcOpMode
  BY <1>10, <1>11 DEF Grown, RtwFields, Lists
<1>13. /\ Grown(w3, w4, {"InputPortIdx"})
       /\ PortsListed(w4, "InputPortIdx", slave.i_port, Len(slave.i_port))
  BY <1>4, <1>12, WritePortsFacts
<1> HIDE DEF w4
<1>14. /\ RtwOK(w4) /\ w4.tables = <<>> /\ w4.DcOpMode = wd.DcOpMode
  BY <1>12, <1>13 DEF Grown, RtwFields, Lists
<1>15. /\ Grown(w4, v, {"FilterCount", "tables"})
       /\ v.FilterCount = slave.filter_count
       /\ v.tables = (IF cfg.sm = <<>> THEN <<>> ELSE Tables(cfg.sm))
       /\ v.DcOpMode = wd.DcOpMode
  <2>1. DOMAIN w4 = RtwFields
        /\ {"FilterCount", "tables", "DcOpMode"} \subseteq RtwFields
    BY <1>14 DEF RtwOK, RtwFields
  <2>2. /\ DOMAIN v = RtwFields
        /\ \A f \in RtwFields \ {"FilterCount", "tables"} : v[f] = w4[f]
        /\ v.FilterCount = slave.filter_count
        /\ v.tables = IF cfg.sm = <<>> THEN w4.tables ELSE Tables(cfg.sm)
    BY <2>1
  <2> HIDE DEF v
  <2>3. Lists \cup {"settings", "param_idx", "DcOpMode"}
          \subseteq RtwFields \ {"FilterCount", "tables"}
    BY DEF Lists, RtwFields
  <2>4. /\ \A l \in Lists : v[l] = w4[l]
        /\ v["settings"] = w4["settings"] /\ v["param_idx"] = w4["param_idx"]
        /\ v["DcOpMode"] = w4["DcOpMode"]
    BY <2>2, <2>3
  <2>5. RtwOK(v)
    BY <1>14, <2>2, <2>4 DEF RtwOK
  <2>6. Len(w4.settings) \in Nat
    BY <1>14, Lengths
  <2> QED
    BY <1>14, <2>2, <2>4, <2>5, <2>6 DEF Grown
<1> HIDE DEF v
<1>16. RtwOK(v)
  BY <1>15 DEF Grown
<1>17. Listed(v, "SdoConfig", SdoRecords, Len(cfg.sdo))
  <2>1. Listed(w2, "SdoConfig", SdoRecords, Len(cfg.sdo))
    BY <1>4, <1>5, <1>7, GrownListed
  <2>2. Listed(wd, "SdoConfig", SdoRecords, Len(cfg.sdo))
    BY <1>4, <1>9, <2>1, GrownListed
  <2>3. Listed(w3, "SdoConfig", SdoRecords, Len(cfg.sdo))
    BY <1>4, <1>11, <2>2, GrownListed
  <2>4. Listed(w4, "SdoConfig", SdoRecords, Len(cfg.sdo))
    BY <1>4, <1>13, <2>3, GrownListed
  <2> QED
    BY <1>4, <1>15, <2>4, GrownListed
<1>18. Listed(v, "SoeConfig", SoeRecords, Len(cfg.soe))
  <2>1. Listed(wd, "SoeConfig", SoeRecords, Len(cfg.soe))
    BY <1>4, <1>7, <1>9, GrownListed
  <2>2. Listed(w3, "SoeConfig", SoeRecords, Len(cfg.soe))
    BY <1>4, <1>11, <2>1, GrownListed
  <2>3. Listed(w4, "SoeConfig", SoeRecords, Len(cfg.soe))
    BY <1>4, <1>13, <2>2, GrownListed
  <2> QED
    BY <1>4, <1>15, <2>3, GrownListed
<1>19. PortsListed(v, "OutputPortIdx", slave.o_port, Len(slave.o_port))
  <2>1. PortsListed(w4, "OutputPortIdx", slave.o_port, Len(slave.o_port))
    BY <1>4, <1>11, <1>13, GrownPortsListed
  <2> QED
    BY <1>4, <1>15, <2>1, GrownPortsListed
<1>20. PortsListed(v, "InputPortIdx", slave.i_port, Len(slave.i_port))
  BY <1>4, <1>13, <1>15, GrownPortsListed
<1>21. IF NoClockMode THEN v.DcOpMode = Untold
       ELSE Noted(v, v.DcOpMode, GetSlaveDc(cfg.dc))
  <2>1. CASE NoClockMode
    BY <1>9, <1>15, <2>1
  <2>2. CASE ~NoClockMode
    <3>1. Noted(w3, wd.DcOpMode, GetSlaveDc(cfg.dc))
      BY <1>9, <1>11, <2>2, GrownNoted
    <3>2. Noted(w4, wd.DcOpMode, GetSlaveDc(cfg.dc))
      BY <1>13, <3>1, GrownNoted
    <3> QED
      BY <1>15, <2>2, <3>2, GrownNoted
  <2> QED
    BY <2>1, <2>2
<1> QED
  BY <1>1, <1>15, <1>16, <1>17, <1>18, <1>19, <1>20, <1>21 DEF RecordsRight

-----------------------------------------------------------------------------
(* get_port_config(): a port as it is read.                                *)

NewPort(c, spec, dir, n) ==
  IF spec.form = "raw" THEN RawPort(c, spec) ELSE PdoPort(c, spec, dir, n)

\* A parameter of a port with so many elements: a reference is to one of the
\* block's parameters, and to an element of it.
ParamMade(c, p, width) ==
  /\ Array(p.value)
  /\ IF p.is_ref
     THEN \E k \in DOMAIN c.parameter :
            /\ p.name = c.parameter[k].name /\ p.value = c.parameter[k].value
            /\ p.element_idx \in Untold..(Len(p.value) - 1)
     ELSE p.element_idx = Untold
  /\ FitsWidth(p, width)

PortFields == {"pdo", "data_type", "big_endian", "gain", "offset", "filter",
               "fullscale", "dwork_idx", "sl_port_data_type"}

\* What a port keeps when its data type is settled,
PortSound(c, port, dir) ==
  /\ DOMAIN port = PortFields
  /\ Array(port.pdo) /\ port.data_type \in DataTypeIds
  /\ dir = "out" => ~IsSet(port.filter)
  /\ IsSet(port.filter) => Len(port.pdo) # 0
  /\ ParamMade(c, port.gain, Len(port.pdo))
  /\ ParamMade(c, port.offset, Len(port.pdo))
  /\ ParamMade(c, port.filter, Len(port.pdo))

\* and as it is read: a work vector is taken for a conversion.
PortMade(c, port, dir) ==
  /\ PortSound(c, port, dir)
  /\ IF Converted(port)
     THEN port.dwork_idx # 0 /\ port.sl_port_data_type = "double"
     ELSE /\ port.dwork_idx = 0
          /\ \/ port.sl_port_data_type = SlType(port.data_type)
             \/ dir = "out" /\ port.sl_port_data_type = DynamicType

LEMMA NoParamFacts ==
  /\ ~IsSet(NoParam)
  /\ \A c, n : ParamMade(c, NoParam, n)
<1>1. /\ NoParam.value = <<>> /\ ~NoParam.is_ref
      /\ NoParam.element_idx = Untold
  BY DEF NoParam
<1>2. Len(<<>>) = 0 /\ Array(<<>>)
  BY DEF Array
<1> QED
  BY <1>1, <1>2 DEF IsSet, ParamMade, FitsWidth

LEMMA ParamOfMade ==
  ASSUME NEW c \in Configs, NEW spec, ParamSpecOK(spec), NEW n,
         ParamValid(c, spec, n)
  PROVE  ParamMade(c, ParamOf(c, spec), n)
<1> DEFINE p == ParamOf(c, spec)
<1>0. FitsWidth(p, n)
  BY DEF ParamValid
<1>1. CASE spec.form \in {"vector", "named"} /\ spec.value # <<>>
  <2>1. p = [NoParam EXCEPT !.name = spec.name, !.value = spec.value]
    BY <1>1 DEF ParamOf
  <2>2. p.value = spec.value /\ ~p.is_ref /\ p.element_idx = Untold
    BY <2>1 DEF NoParam
  <2>3. Array(spec.value)
    BY <1>1 DEF ParamSpecOK
  <2> QED
    BY <1>0, <2>2, <2>3 DEF ParamMade
<1>2. CASE spec.form = "ref"
  <2> DEFINE k == spec.parameter + 1
  <2>1. p = [name |-> c.parameter[k].name, value |-> c.parameter[k].value,
             is_ref |-> TRUE, element_idx |-> spec.element]
    BY <1>2 DEF ParamOf
  <2>2. /\ p.name = c.parameter[k].name /\ p.value = c.parameter[k].value
        /\ p.is_ref /\ p.element_idx = spec.element
    BY <2>1
  <2>3. /\ spec.parameter \in 0..(Len(c.parameter) - 1)
        /\ spec.element \in Untold..(Len(c.parameter[k].value) - 1)
    BY <1>2 DEF ParamValid
  <2>4. Array(c.parameter) /\ \A i \in DOMAIN c.parameter : Array(c.parameter[i].value)
    BY ConfigsAssumption
  <2>5. DOMAIN c.parameter = 1..Len(c.parameter) /\ Len(c.parameter) \in Nat
    BY <2>4, AppendArray
  <2>6. k \in DOMAIN c.parameter
    BY <2>3, <2>5
  <2> HIDE DEF p, k
  <2> QED
    BY <1>0, <2>2, <2>3, <2>4, <2>6 DEF ParamMade, p
<1>3. CASE ~(spec.form \in {"vector", "named"} /\ spec.value # <<>>)
           /\ spec.form # "ref"
  <2>1. p = NoParam
    BY <1>3 DEF ParamOf
  <2> QED
    BY <2>1, NoParamFacts
<1> QED
  BY <1>1, <1>2, <1>3

LEMMA RowEntry ==
  ASSUME NEW c \in Configs, NEW s \in Nat, NEW k \in Nat,
         s < Len(c.sm), k < Len(c.sm[s + 1].pdo)
  PROVE  c.sm[s + 1].pdo[k + 1].entry \in Seq(Entries)
<1>1. c.sm \in SyncManagers
  BY ConfigsAssumption
<1>2. s + 1 \in DOMAIN c.sm
  BY <1>1, SyncManagerParts
<1>3. k + 1 \in DOMAIN c.sm[s + 1].pdo
  BY <1>1, <1>2, SyncManagerParts
<1> QED
  BY <1>1, <1>2, <1>3, SyncManagerParts

LEMMA RawBits ==
  ASSUME NEW c \in Configs, NEW spec, PortSpecOK(spec), spec.form = "raw",
         NEW dir, PortValid(c, spec, dir)
  PROVE  LET entry == PdoOf(c, spec.pdo).entry
         IN  Sum([i \in DOMAIN entry |-> entry[i].bitlen]) \in Nat
<1> DEFINE entry == PdoOf(c, spec.pdo).entry
           widths == [i \in DOMAIN entry |-> entry[i].bitlen]
           bits == Sum(widths)
<1>1. entry \in Seq(Entries)
  <2>1. spec.pdo[1] \in Nat /\ spec.pdo[2] \in Nat
    BY DEF PortSpecOK
  <2>2. spec.pdo[1] < Len(c.sm) /\ spec.pdo[2] < Len(c.sm[spec.pdo[1] + 1].pdo)
    BY DEF PortValid
  <2> QED
    BY <2>1, <2>2, RowEntry DEF PdoOf
<1>2. bits \in Nat
  <2>1. \A i \in 1..Len(entry) : entry[i] \in Entries
    BY <1>1, ElementOfSeq
  <2> HIDE DEF entry
  <2>2. \A i \in 1..Len(entry) : entry[i].bitlen \in Nat
    BY <2>1 DEF Entries
  <2>3. widths \in Seq(Nat)
    BY <1>1, <2>2
  <2> HIDE DEF widths
  <2>4. Len(widths) \in Nat
    BY <2>3
  <2> QED
    BY <2>3, <2>4, SumSteps DEF Sum
<1> QED
  BY <1>2

LEMMA RawMade ==
  ASSUME NEW c \in Configs, NEW spec, PortSpecOK(spec), spec.form = "raw",
         NEW dir, PortValid(c, spec, dir), NEW n \in Nat
  PROVE  PortMade(c, RawPort(c, spec), dir) /\ RawPort(c, spec).dwork_idx = 0
<1> DEFINE entry == PdoOf(c, spec.pdo).entry
           widths == [i \in DOMAIN entry |-> entry[i].bitlen]
           bits == Sum(widths)
           pdo == [j \in 1..((bits + 7) \div 8) |->
                     [entry |-> entry[1], element_idx |-> j - 1]]
           port == RawPort(c, spec)
<1>2. bits \in Nat
  BY RawBits
<1>3. /\ port.pdo = pdo /\ port.data_type = 1008 /\ port.gain = NoParam
      /\ port.offset = NoParam /\ port.filter = NoParam /\ port.fullscale = 0
      /\ port.dwork_idx = 0 /\ port.sl_port_data_type = "uint8"
      /\ DOMAIN port = PortFields
  BY DEF RawPort, PortFields
<1> HIDE DEF bits, port
<1>4. Array(pdo)
  <2>1. (bits + 7) \div 8 \in Nat
    BY <1>2
  <2> DEFINE m == (bits + 7) \div 8
             R == {[entry |-> entry[1], element_idx |-> j - 1] : j \in 1..m}
  <2>2. pdo \in Seq(R)
    <3> HIDE DEF entry
    <3>1. m \in Nat /\ \A j \in 1..m : [entry |-> entry[1], element_idx |-> j - 1] \in R
      BY <2>1
    <3> HIDE DEF m, R
    <3>2. pdo = [j \in 1..m |-> [entry |-> entry[1], element_idx |-> j - 1]]
      BY DEF m
    <3> HIDE DEF pdo
    <3> QED
      BY <3>1, <3>2
  <2> HIDE DEF R
  <2> QED
    BY <2>2, ArrayOf
<1>5. SlType(1008) = "uint8" /\ 1008 \in DataTypeIds
  BY DEF SlType, DataTypeIds
<1>6. ~Converted(port)
  BY <1>3, NoParamFacts DEF Converted
<1>7. /\ ~IsSet(port.filter) /\ ParamMade(c, port.gain, Len(port.pdo))
      /\ ParamMade(c, port.offset, Len(port.pdo))
      /\ ParamMade(c, port.filter, Len(port.pdo))
  BY <1>3, NoParamFacts
<1> HIDE DEF pdo
<1>8. Array(port.pdo) /\ port.data_type \in DataTypeIds
      /\ port.sl_port_data_type = SlType(port.data_type) /\ port.dwork_idx = 0
  BY <1>3, <1>4, <1>5
<1>9. PortMade(c, port, dir)
  BY <1>3, <1>6, <1>7, <1>8 DEF PortMade, PortSound
<1> QED
  BY <1>8, <1>9 DEF port

LEMMA EntriesMade ==
  ASSUME NEW c \in Configs, NEW spec, PortSpecOK(spec), spec.form = "entries",
         NEW dir \in {"in", "out"}, PortValid(c, spec, dir), NEW n \in Nat
  PROVE  /\ PortMade(c, PdoPort(c, spec, dir, n), dir)
         /\ PdoPort(c, spec, dir, n).dwork_idx \in {0, n + 1}
<1> DEFINE id == GetDataType(spec.pdo_data_type)
           pdo == [j \in DOMAIN spec.pdo |->
                     [entry |-> PdoOf(c, spec.pdo[j]).entry[spec.pdo[j][3] + 1],
                      element_idx |-> spec.pdo[j][4]]]
           plain ==
             [pdo |-> pdo, data_type |-> id, big_endian |-> spec.big_endian,
              gain |-> ParamOf(c, spec.gain), offset |-> ParamOf(c, spec.offset),
              filter |-> IF dir = "in" THEN ParamOf(c, spec.filter)
                         ELSE NoParam,
              fullscale |-> spec.full_scale, dwork_idx |-> 0,
              sl_port_data_type |-> IF dir = "out" THEN DynamicType
                                    ELSE SlType(id)]
           port == PdoPort(c, spec, dir, n)
<1>1. port = IF Converted(plain)
             THEN [plain EXCEPT !.dwork_idx = NextDwork(n),
                                !.sl_port_data_type = "double"]
             ELSE plain
  BY Zenon DEF PdoPort
<1>2. /\ plain.pdo = pdo /\ plain.data_type = id /\ plain.dwork_idx = 0
      /\ plain.gain = ParamOf(c, spec.gain)
      /\ plain.offset = ParamOf(c, spec.offset)
      /\ plain.filter = IF dir = "in" THEN ParamOf(c, spec.filter) ELSE NoParam
      /\ plain.sl_port_data_type = IF dir = "out" THEN DynamicType
                                   ELSE SlType(id)
      /\ DOMAIN plain = PortFields
  BY DEF PortFields
<1> HIDE DEF plain, port, pdo
<1>3. /\ port.pdo = plain.pdo /\ port.data_type = plain.data_type
      /\ port.gain = plain.gain /\ port.offset = plain.offset
      /\ port.filter = plain.filter /\ port.fullscale = plain.fullscale
      /\ port.dwork_idx = (IF Converted(plain) THEN n + 1 ELSE 0)
      /\ port.sl_port_data_type = (IF Converted(plain) THEN "double"
                                   ELSE plain.sl_port_data_type)
      /\ DOMAIN port = PortFields
  BY <1>1, <1>2 DEF NextDwork, PortFields
<1>4. Converted(port) <=> Converted(plain)
  BY <1>3 DEF Converted
<1>5. /\ id # 0 /\ ParamValid(c, spec.gain, Len(spec.pdo))
      /\ ParamValid(c, spec.offset, Len(spec.pdo))
      /\ dir = "in" => ParamValid(c, spec.filter, Len(spec.pdo))
  BY DEF PortValid
<1>6. id \in DataTypeIds
  BY <1>5 DEF GetDataType
<1>7. spec.pdo \in Seq(Nat \X Nat \X Nat \X Nat) /\ spec.pdo # <<>>
  BY DEF PortSpecOK
<1>8. Array(pdo) /\ Len(pdo) = Len(spec.pdo) /\ Len(pdo) # 0
  <2>1. Len(spec.pdo) \in Nat /\ DOMAIN spec.pdo = 1..Len(spec.pdo)
        /\ Len(spec.pdo) # 0
    BY <1>7, EmptySeq
  <2> DEFINE At(j) ==
               [entry |-> PdoOf(c, spec.pdo[j]).entry[spec.pdo[j][3] + 1],
                element_idx |-> spec.pdo[j][4]]
             R == {At(j) : j \in 1..Len(spec.pdo)}
  <2>2. pdo = [j \in 1..Len(spec.pdo) |-> At(j)]
    BY <2>1 DEF pdo
  <2> HIDE DEF At
  <2>3. \A j \in 1..Len(spec.pdo) : At(j) \in R
    OBVIOUS
  <2> HIDE DEF R
  <2>4. pdo \in Seq(R) /\ Len(pdo) = Len(spec.pdo)
    BY <2>1, <2>2, <2>3
  <2> QED
    BY <2>1, <2>4, ArrayOf
<1>9. /\ ParamMade(c, port.gain, Len(port.pdo))
      /\ ParamMade(c, port.offset, Len(port.pdo))
      /\ ParamMade(c, port.filter, Len(port.pdo))
  <2>1. /\ ParamSpecOK(spec.gain) /\ ParamSpecOK(spec.offset)
        /\ ParamSpecOK(spec.filter)
    BY DEF PortSpecOK
  <2> QED
    BY <1>2, <1>3, <1>5, <1>8, <2>1, NoParamFacts, ParamOfMade
<1>10. dir = "out" => ~IsSet(port.filter)
  BY <1>2, <1>3, NoParamFacts
<1>11. /\ Array(port.pdo) /\ Len(port.pdo) # 0 /\ port.data_type \in DataTypeIds
       /\ DOMAIN port = PortFields
  BY <1>2, <1>3, <1>6, <1>8
<1>12. PortSound(c, port, dir)
  BY <1>9, <1>10, <1>11 DEF PortSound
<1>13. /\ IF Converted(port)
          THEN port.dwork_idx # 0 /\ port.sl_port_data_type = "double"
          ELSE /\ port.dwork_idx = 0
               /\ \/ port.sl_port_data_type = SlType(port.data_type)
                  \/ dir = "out" /\ port.sl_port_data_type = DynamicType
       /\ port.dwork_idx \in {0, n + 1}
  BY <1>2, <1>3, <1>4
<1> QED
  BY <1>12, <1>13 DEF PortMade, port

LEMMA NewPortMade ==
  ASSUME NEW c \in Configs, NEW spec, PortSpecOK(spec), spec.form # "none",
         NEW dir \in {"in", "out"}, PortValid(c, spec, dir), NEW n \in Nat
  PROVE  /\ PortMade(c, NewPort(c, spec, dir, n), dir)
         /\ NewPort(c, spec, dir, n).dwork_idx \in {0, n + 1}
<1>1. spec.form \in {"raw", "entries"}
  BY DEF PortValid
<1> QED
  BY <1>1, RawMade, EntriesMade DEF NewPort

-----------------------------------------------------------------------------
(* Work vectors and counts, as ports are added.                            *)

LEMMA SumPrefix ==
  ASSUME NEW s \in Seq(Nat), NEW t \in Seq(Nat), NEW n \in Nat,
         n <= Len(s), n <= Len(t), \A i \in 1..n : s[i] = t[i]
  PROVE  SumTo(s, n) = SumTo(t, n)
<1> DEFINE Good == {k \in 0..n : SumTo(s, k) = SumTo(t, k)}
<1>0. Len(s) \in Nat /\ Len(t) \in Nat
  OBVIOUS
<1>1. 0 \in Good
  BY SumSteps
<1>2. ASSUME NEW k \in 0..(n - 1), k \in Good PROVE k + 1 \in Good
  <2>1. /\ k + 1 \in 1..n /\ (k + 1) - 1 = k /\ k + 1 \in 1..Len(s)
        /\ k + 1 \in 1..Len(t)
    BY <1>0
  <2>2. /\ SumTo(s, k + 1) = SumTo(s, k) + s[k + 1]
        /\ SumTo(t, k + 1) = SumTo(t, k) + t[k + 1]
    BY <2>1, SumSteps
  <2> QED
    BY <1>2, <2>1, <2>2
<1> HIDE DEF Good
<1>3. \A k \in 0..n : k \in Good
  BY <1>1, <1>2, Turns
<1>4. n \in Good
  BY <1>3
<1> QED
  BY <1>4 DEF Good

LEMMA SumAppend ==
  ASSUME NEW s \in Seq(Nat), NEW x \in Nat
  PROVE  Append(s, x) \in Seq(Nat) /\ Sum(Append(s, x)) = Sum(s) + x
<1> DEFINE t == Append(s, x)
           n == Len(s)
<1>1. /\ t \in Seq(Nat) /\ Len(t) = n + 1 /\ n \in Nat /\ t[n + 1] = x
      /\ \A i \in 1..n : s[i] = t[i]
  OBVIOUS
<1> HIDE DEF t, n
<1>2. n <= Len(s) /\ n <= Len(t) /\ n + 1 \in 1..Len(t) /\ (n + 1) - 1 = n
  BY <1>1 DEF n
<1>3. SumTo(t, n + 1) = SumTo(t, n) + t[n + 1]
  BY <1>1, <1>2, SumSteps
<1>4. SumTo(s, n) = SumTo(t, n)
  BY <1>1, <1>2, SumPrefix
<1> QED
  BY <1>1, <1>3, <1>4 DEF Sum, t, n

LEMMA AppendedIs ==
  ASSUME NEW s \in Seq(Nat), NEW x \in Nat, NEW t \in Seq(Nat),
         Len(t) = Len(s) + 1, t[Len(s) + 1] = x,
         \A i \in 1..Len(s) : t[i] = s[i]
  PROVE  t = Append(s, x)
<1> DEFINE a == Append(s, x)
           n == Len(s)
<1>1. /\ a \in Seq(Nat) /\ Len(a) = n + 1 /\ a[n + 1] = x /\ n \in Nat
      /\ \A i \in 1..n : a[i] = s[i]
  OBVIOUS
<1>2. Len(t) = n + 1 /\ t[n + 1] = x /\ \A i \in 1..n : t[i] = s[i]
  OBVIOUS
<1> HIDE DEF a, n
<1>3. ASSUME NEW i \in 1..(n + 1) PROVE t[i] = a[i]
  <2>1. i \in 1..n \/ i = n + 1
    BY <1>1
  <2> QED
    BY <1>1, <1>2, <2>1
<1>4. t = a
  BY <1>1, <1>2, <1>3, SeqEqual
<1> QED
  BY <1>4 DEF a

LEMMA ConcatAppend ==
  ASSUME NEW a, Array(a), NEW b, Array(b), NEW e
  PROVE  /\ Array(a \o b) /\ Len(a \o b) = Len(a) + Len(b)
         /\ \A i \in 1..Len(a) : (a \o b)[i] = a[i]
         /\ \A i \in 1..Len(b) : (a \o b)[Len(a) + i] = b[i]
         /\ b = <<>> => Append(a, e) \o b = Append(a \o b, e)
         /\ a \o Append(b, e) = Append(a \o b, e)
<1> DEFINE R == Range(a) \cup Range(b) \cup {e}
<1>1. a \in Seq(Range(a)) /\ b \in Seq(Range(b))
  BY DEF Array
<1> HIDE DEF R
<1>2. a \in Seq(R) /\ b \in Seq(R) /\ e \in R
  <2>1. Range(a) \subseteq R /\ Range(b) \subseteq R /\ e \in R
    BY DEF R
  <2> QED
    BY <1>1, <2>1
<1>3. a \o b \in Seq(R)
  BY <1>2
<1>4. Array(a \o b)
  BY <1>3, ArrayOf
<1>5. /\ Len(a \o b) = Len(a) + Len(b)
      /\ \A i \in 1..Len(a) : (a \o b)[i] = a[i]
      /\ \A i \in 1..Len(b) : (a \o b)[Len(a) + i] = b[i]
  BY <1>2
<1>6. b = <<>> => Append(a, e) \o b = Append(a \o b, e)
  <2>1. a \o <<>> = a /\ Append(a, e) \o <<>> = Append(a, e)
    BY <1>2, ConcatEmptySeq
  <2> QED
    BY <2>1
<1>7. a \o Append(b, e) = Append(a \o b, e)
  BY <1>2
<1> QED
  BY <1>4, <1>5, <1>6, <1>7

WorkOwn(P, n) ==
  /\ \A i \in DOMAIN P : P[i].dwork_idx \in 0..n
  /\ \A m \in 1..n : \E i \in DOMAIN P : P[i].dwork_idx = m
  /\ \A i, k \in DOMAIN P :
       P[i].dwork_idx = P[k].dwork_idx /\ i # k => P[i].dwork_idx = 0

LEMMA WorkAppend ==
  ASSUME NEW P, Array(P), NEW n \in Nat, WorkOwn(P, n), NEW port,
         port.dwork_idx \in {0, n + 1}
  PROVE  WorkOwn(Append(P, port), n + (IF port.dwork_idx # 0 THEN 1 ELSE 0))
<1> DEFINE u == Append(P, port)
           L == Len(P)
           m == n + (IF port.dwork_idx # 0 THEN 1 ELSE 0)
<1>1. /\ L \in Nat /\ DOMAIN P = 1..L /\ DOMAIN u = 1..(L + 1)
      /\ u[L + 1] = port /\ \A i \in 1..L : u[i] = P[i]
  BY AppendArray
<1>2. m \in {n, n + 1} /\ (port.dwork_idx = 0 => m = n)
      /\ (port.dwork_idx # 0 => m = n + 1 /\ port.dwork_idx = n + 1)
  OBVIOUS
<1> HIDE DEF u, L, m
<1>3. \A i \in DOMAIN u : u[i].dwork_idx \in 0..m
  BY <1>1, <1>2 DEF WorkOwn
<1>4. ASSUME NEW j \in 1..m PROVE \E i \in DOMAIN u : u[i].dwork_idx = j
  <2>1. CASE j \in 1..n
    <3>1. PICK i \in DOMAIN P : P[i].dwork_idx = j
      BY <2>1 DEF WorkOwn
    <3>2. i \in DOMAIN u /\ u[i].dwork_idx = j
      BY <1>1, <3>1
    <3> QED
      BY <3>2
  <2>2. CASE j \notin 1..n
    <3>1. port.dwork_idx = j /\ L + 1 \in DOMAIN u
      BY <1>1, <1>2, <2>2
    <3> QED
      BY <1>1, <3>1
  <2> QED
    BY <2>1, <2>2
<1>5. ASSUME NEW i \in DOMAIN u, NEW k \in DOMAIN u,
             u[i].dwork_idx = u[k].dwork_idx, i # k
      PROVE  u[i].dwork_idx = 0
  <2>1. CASE i \in 1..L /\ k \in 1..L
    BY <1>1, <1>5, <2>1 DEF WorkOwn
  <2>2. CASE i = L + 1 /\ k \in 1..L
    <3>1. P[k].dwork_idx \in 0..n
      BY <1>1, <2>2 DEF WorkOwn
    <3> QED
      BY <1>1, <1>5, <2>2, <3>1
  <2>3. CASE i \in 1..L /\ k = L + 1
    <3>1. P[i].dwork_idx \in 0..n
      BY <1>1, <2>3 DEF WorkOwn
    <3> QED
      BY <1>1, <1>5, <2>3, <3>1
  <2> QED
    BY <1>1, <1>5, <2>1, <2>2, <2>3
<1> QED
  BY <1>3, <1>4, <1>5 DEF WorkOwn, u, m

FilterWidths(P) ==
  [i \in DOMAIN P |-> IF IsSet(P[i].filter) THEN Len(P[i].pdo) ELSE 0]

CountedOf(port) ==
  Counted(port.gain) + Counted(port.offset) + Counted(port.filter)

CountedIn(P) == [i \in DOMAIN P |-> CountedOf(P[i])]

LEMMA CountedNat ==
  ASSUME NEW port
  PROVE  CountedOf(port) \in Nat
BY DEF CountedOf, Counted

LEMMA CountedInType ==
  ASSUME NEW P, Array(P)
  PROVE  CountedIn(P) \in Seq(Nat) /\ Len(CountedIn(P)) = Len(P)
<1>1. DOMAIN P = 1..Len(P) /\ Len(P) \in Nat
  BY AppendArray
<1>2. \A i \in 1..Len(P) : CountedOf(P[i]) \in Nat
  BY CountedNat
<1> QED
  BY <1>1, <1>2 DEF CountedIn

LEMMA FilterWidthsType ==
  ASSUME NEW P, Array(P), \A i \in DOMAIN P : Array(P[i].pdo)
  PROVE  FilterWidths(P) \in Seq(Nat) /\ Len(FilterWidths(P)) = Len(P)
<1>1. DOMAIN P = 1..Len(P) /\ Len(P) \in Nat
  BY AppendArray
<1>2. \A i \in 1..Len(P) : Len(P[i].pdo) \in Nat
  BY <1>1, AppendArray
<1> QED
  BY <1>1, <1>2 DEF FilterWidths

LEMMA CountedAppend ==
  ASSUME NEW P, Array(P), NEW port
  PROVE  Sum(CountedIn(Append(P, port))) = Sum(CountedIn(P)) + CountedOf(port)
<1> DEFINE s == CountedIn(P)
           x == CountedOf(port)
           t == CountedIn(Append(P, port))
<1>1. /\ Len(P) \in Nat /\ DOMAIN P = 1..Len(P)
      /\ DOMAIN Append(P, port) = 1..(Len(P) + 1)
      /\ Append(P, port)[Len(P) + 1] = port
      /\ \A i \in 1..Len(P) : Append(P, port)[i] = P[i]
  BY AppendArray
<1>2. s \in Seq(Nat) /\ Len(s) = Len(P) /\ x \in Nat
  BY CountedInType, CountedNat
<1>3. DOMAIN t = 1..(Len(P) + 1) /\ t[Len(P) + 1] = x
      /\ \A i \in 1..Len(P) : t[i] = s[i]
  BY <1>1 DEF CountedIn
<1>4. t \in Seq(Nat) /\ Len(t) = Len(s) + 1
  BY <1>1, <1>2, CountedInType, AppendArray
<1> HIDE DEF s, x, t
<1>5. t = Append(s, x)
  BY <1>2, <1>3, <1>4, AppendedIs
<1> QED
  BY <1>2, <1>5, SumAppend DEF s, x, t

LEMMA FilterAppend ==
  ASSUME NEW P, Array(P), \A i \in DOMAIN P : Array(P[i].pdo), NEW port,
         Array(port.pdo)
  PROVE  Sum(FilterWidths(Append(P, port)))
           = Sum(FilterWidths(P))
               + (IF IsSet(port.filter) THEN Len(port.pdo) ELSE 0)
<1> DEFINE s == FilterWidths(P)
           x == IF IsSet(port.filter) THEN Len(port.pdo) ELSE 0
           t == FilterWidths(Append(P, port))
<1>1. /\ Len(P) \in Nat /\ DOMAIN P = 1..Len(P)
      /\ DOMAIN Append(P, port) = 1..(Len(P) + 1)
      /\ Append(P, port)[Len(P) + 1] = port
      /\ \A i \in 1..Len(P) : Append(P, port)[i] = P[i]
  BY AppendArray
<1>2. s \in Seq(Nat) /\ Len(s) = Len(P) /\ x \in Nat
  BY FilterWidthsType, AppendArray
<1>3. DOMAIN t = 1..(Len(P) + 1) /\ t[Len(P) + 1] = x
      /\ \A i \in 1..Len(P) : t[i] = s[i]
  BY <1>1 DEF FilterWidths
<1>4. t \in Seq(Nat) /\ Len(t) = Len(s) + 1
  <2>1. Array(Append(P, port)) /\ Len(Append(P, port)) = Len(P) + 1
    BY AppendArray
  <2>2. \A i \in DOMAIN Append(P, port) : Array(Append(P, port)[i].pdo)
    BY <1>1
  <2> QED
    BY <1>2, <2>1, <2>2, FilterWidthsType
<1> HIDE DEF s, x, t
<1>5. t = Append(s, x)
  BY <1>2, <1>3, <1>4, AppendedIs
<1> QED
  BY <1>2, <1>5, SumAppend DEF s, x, t

-----------------------------------------------------------------------------
(* get_ioport_config(): the ports that are read.                           *)

SlaveFields == {"o_port", "i_port", "filter_count", "runtime_param_count",
                "dwork_count"}

\* What the numbers of the slave count.
SlaveCounts(c, s) ==
  /\ DOMAIN s = SlaveFields
  /\ Array(s.o_port) /\ Array(s.i_port) /\ s.dwork_count \in Nat
  /\ WorkOwn(s.o_port \o s.i_port, s.dwork_count)
  /\ s.filter_count = Sum(FilterWidths(s.o_port))
  /\ s.runtime_param_count
       = Len(c.parameter) + Sum(CountedIn(s.o_port \o s.i_port))

OutputsMade(c, s) ==
  \A i \in DOMAIN s.o_port : PortMade(c, s.o_port[i], "in")

InputsMade(c, s) ==
  \A i \in DOMAIN s.i_port : PortMade(c, s.i_port[i], "out")

SlaveMade(c, s) == SlaveCounts(c, s) /\ OutputsMade(c, s) /\ InputsMade(c, s)

LEMMA PortsMadeAppend ==
  ASSUME NEW c, NEW P, Array(P), NEW port, NEW dir,
         \A i \in DOMAIN P : PortMade(c, P[i], dir), PortMade(c, port, dir)
  PROVE  \A i \in DOMAIN Append(P, port) : PortMade(c, Append(P, port)[i], dir)
<1> DEFINE u == Append(P, port)
<1>1. /\ Len(P) \in Nat /\ DOMAIN P = 1..Len(P) /\ DOMAIN u = 1..(Len(P) + 1)
      /\ u[Len(P) + 1] = port /\ \A i \in 1..Len(P) : u[i] = P[i]
  BY AppendArray
<1> HIDE DEF u
<1>2. ASSUME NEW i \in DOMAIN u PROVE PortMade(c, u[i], dir)
  <2>1. CASE i = Len(P) + 1
    BY <1>1, <2>1
  <2>2. CASE i \in 1..Len(P)
    BY <1>1, <2>2
  <2> QED
    BY <1>1, <2>1, <2>2
<1> QED
  BY <1>2 DEF u

LEMMA AddPortMade ==
  ASSUME NEW c \in Configs, NEW s, SlaveMade(c, s), NEW spec, PortSpecOK(spec),
         NEW dir \in {"in", "out"}, PortValid(c, spec, dir),
         dir = "in" => s.i_port = <<>>
  PROVE  /\ SlaveMade(c, AddPort(c, s, spec, dir))
         /\ dir = "in" => AddPort(c, s, spec, dir).i_port = <<>>
<1> DEFINE t == AddPort(c, s, spec, dir)
           port == NewPort(c, spec, dir, s.dwork_count)
           taken == IF port.dwork_idx # 0 THEN 1 ELSE 0
           width == IF IsSet(port.filter) THEN Len(port.pdo) ELSE 0
           all == s.o_port \o s.i_port
<1>1. CASE spec.form = "none"
  <2>1. t = s
    BY <1>1 DEF AddPort
  <2> QED
    BY <2>1
<1>2. CASE spec.form # "none"
  <2>1. /\ DOMAIN t = SlaveFields
        /\ t.o_port = (IF dir = "in" THEN Append(s.o_port, port) ELSE s.o_port)
        /\ t.i_port = (IF dir = "in" THEN s.i_port ELSE Append(s.i_port, port))
        /\ t.filter_count = s.filter_count + width
        /\ t.runtime_param_count = s.runtime_param_count
             + Counted(port.gain) + Counted(port.offset) + Counted(port.filter)
        /\ t.dwork_count = s.dwork_count + taken
    BY <1>2 DEF AddPort, NewPort, SlaveFields
  <2>2. /\ Array(s.o_port) /\ Array(s.i_port) /\ s.dwork_count \in Nat
        /\ WorkOwn(all, s.dwork_count)
        /\ s.filter_count = Sum(FilterWidths(s.o_port))
        /\ s.runtime_param_count = Len(c.parameter) + Sum(CountedIn(all))
        /\ OutputsMade(c, s) /\ InputsMade(c, s)
    BY DEF SlaveMade, SlaveCounts
  <2>3. /\ PortMade(c, port, dir)
        /\ port.dwork_idx \in {0, s.dwork_count + 1}
    BY <1>2, <2>2, NewPortMade
  <2> HIDE DEF t, port, taken, width
  <2>4. Array(all)
    BY <2>2, ConcatAppend
  <2>5. t.o_port \o t.i_port = Append(all, port)
    <3> DEFINE P == s.o_port
               Q == s.i_port
    <3>1. Array(P) /\ Array(Q) /\ (dir = "in" => Q = <<>>) /\ all = P \o Q
          /\ t.o_port = (IF dir = "in" THEN Append(P, port) ELSE P)
          /\ t.i_port = (IF dir = "in" THEN Q ELSE Append(Q, port))
      BY <2>1, <2>2
    <3> HIDE DEF P, Q, all
    <3> QED
      BY <3>1, ConcatAppend
  <2> HIDE DEF all
  <2>6. WorkOwn(t.o_port \o t.i_port, t.dwork_count) /\ t.dwork_count \in Nat
    <3> DEFINE n == s.dwork_count
               m == t.dwork_count
    <3>1. /\ n \in Nat /\ WorkOwn(all, n) /\ port.dwork_idx \in {0, n + 1}
          /\ m = n + (IF port.dwork_idx # 0 THEN 1 ELSE 0)
      BY <2>1, <2>2, <2>3 DEF taken
    <3> HIDE DEF n, m
    <3>2. WorkOwn(Append(all, port), m)
      BY <2>4, <3>1, WorkAppend
    <3>3. m \in Nat
      BY <3>1
    <3> QED
      BY <2>5, <3>2, <3>3 DEF m
  <2>7. Array(t.o_port) /\ Array(t.i_port)
    BY <2>1, <2>2, AppendArray
  <2>8. OutputsMade(c, t) /\ InputsMade(c, t)
    BY <2>1, <2>2, <2>3, PortsMadeAppend DEF OutputsMade, InputsMade
  <2>9. t.runtime_param_count
          = Len(c.parameter) + Sum(CountedIn(t.o_port \o t.i_port))
    <3>1. Sum(CountedIn(Append(all, port))) = Sum(CountedIn(all)) + CountedOf(port)
      BY <2>4, CountedAppend
    <3>2. CountedIn(all) \in Seq(Nat)
      BY <2>4, CountedInType
    <3>3. Sum(CountedIn(all)) \in Nat
      BY <3>2, SumSteps DEF Sum
    <3>4. Len(c.parameter) \in Nat
      BY ConfigsAssumption, AppendArray
    <3>5. /\ Counted(port.gain) \in Nat /\ Counted(port.offset) \in Nat
          /\ Counted(port.filter) \in Nat
          /\ CountedOf(port) = Counted(port.gain) + Counted(port.offset)
                                 + Counted(port.filter)
      BY DEF Counted, CountedOf
    <3> DEFINE a == Counted(port.gain)
               b == Counted(port.offset)
               d == Counted(port.filter)
               l == Len(c.parameter)
               m == Sum(CountedIn(all))
    <3>6. /\ a \in Nat /\ b \in Nat /\ d \in Nat /\ l \in Nat /\ m \in Nat
          /\ t.runtime_param_count = (l + m) + a + b + d
          /\ Sum(CountedIn(Append(all, port))) = m + (a + b + d)
      BY <2>1, <2>2, <3>1, <3>3, <3>4, <3>5
    <3> HIDE DEF a, b, d, l, m
    <3>7. (l + m) + a + b + d = l + (m + (a + b + d))
      BY <3>6
    <3> QED
      BY <2>5, <3>6, <3>7 DEF l
  <2>10. t.filter_count = Sum(FilterWidths(t.o_port))
    <3>1. \A i \in DOMAIN s.o_port : Array(s.o_port[i].pdo)
      BY <2>2 DEF OutputsMade, PortMade, PortSound
    <3>2. Array(port.pdo)
      BY <2>3 DEF PortMade, PortSound
    <3>3. CASE dir = "in"
      BY <2>1, <2>2, <3>1, <3>2, <3>3, FilterAppend DEF width
    <3>4. CASE dir = "out"
      <4>1. ~IsSet(port.filter)
        BY <2>3, <3>4 DEF PortMade, PortSound
      <4>2. FilterWidths(s.o_port) \in Seq(Nat)
        BY <2>2, <3>1, FilterWidthsType
      <4>3. Sum(FilterWidths(s.o_port)) \in Nat
        BY <4>2, SumSteps DEF Sum
      <4> QED
        BY <2>1, <2>2, <3>4, <4>1, <4>3 DEF width
    <3> QED
      BY <3>3, <3>4
  <2>11. SlaveMade(c, t)
    BY <2>1, <2>6, <2>7, <2>8, <2>9, <2>10 DEF SlaveMade, SlaveCounts
  <2>12. dir = "in" => t.i_port = <<>>
    BY <2>1
  <2> QED
    BY <2>11, <2>12 DEF t
<1> QED
  BY <1>1, <1>2

Reads(c) ==
  LET none == [NoSlave EXCEPT !.runtime_param_count = Len(c.parameter)]
      count == Len(c.output) + Len(c.input)
      read[k \in 0..count] ==
        IF k = 0 THEN none ELSE ReadPort(c, read[k - 1], k)
  IN  read

LEMMA ReadsUnrolled ==
  ASSUME NEW c, Len(c.output) \in Nat, Len(c.input) \in Nat
  PROVE  /\ Reads(c)[0]
              = [NoSlave EXCEPT !.runtime_param_count = Len(c.parameter)]
         /\ \A k \in 1..(Len(c.output) + Len(c.input)) :
              Reads(c)[k] = ReadPort(c, Reads(c)[k - 1], k)
<1> DEFINE o == Len(c.output)
           i == Len(c.input)
           n == o + i
           none == [NoSlave EXCEPT !.runtime_param_count = Len(c.parameter)]
           Takes(f, m) ==
             f = [k \in 0..m |-> IF k = 0 THEN none
                                 ELSE ReadPort(c, f[k - 1], k)]
           Reached == {m \in 0..n : \E f : Takes(f, m)}
<1>0. n \in Nat
  <2>1. o \in Nat /\ i \in Nat
    OBVIOUS
  <2> HIDE DEF o, i
  <2> QED
    BY <2>1
<1> HIDE DEF n, none
<1>1. 0 \in Reached
  <2>1. Takes([k \in 0..0 |-> none], 0)
    OBVIOUS
  <2>2. \E f : Takes(f, 0)
    <3> HIDE DEF Takes
    <3> QED
      BY <2>1, Zenon
  <2> QED
    BY <1>0, <2>2
<1>2. ASSUME NEW m \in 0..(n - 1), m \in Reached PROVE m + 1 \in Reached
  <2>1. PICK f : Takes(f, m)
    BY <1>2
  <2> DEFINE g == [k \in 0..(m + 1) |->
                     IF k = m + 1 THEN ReadPort(c, f[m], m + 1) ELSE f[k]]
  <2>2. ASSUME NEW k \in 0..(m + 1)
        PROVE  g[k] = IF k = 0 THEN none ELSE ReadPort(c, g[k - 1], k)
    <3>1. CASE k = 0
      BY <2>1, <3>1
    <3>2. CASE k = m + 1
      <4>1. k - 1 = m /\ g[k - 1] = f[m]
        BY <3>2
      <4> QED
        BY <3>2, <4>1
    <3>3. CASE k \in 1..m
      <4>1. k - 1 \in 0..m /\ g[k - 1] = f[k - 1] /\ g[k] = f[k]
        BY <3>3
      <4> QED
        BY <2>1, <3>3, <4>1
    <3> QED
      BY <3>1, <3>2, <3>3
  <2>3. Takes(g, m + 1)
    BY <2>2
  <2>4. \E h : Takes(h, m + 1)
    <3> HIDE DEF Takes, g
    <3> QED
      BY <2>3, Zenon
  <2> QED
    BY <1>0, <2>4
<1>3. \E f : Takes(f, n)
  <2> HIDE DEF Reached
  <2>1. \A m \in 0..n : m \in Reached
    BY <1>0, <1>1, <1>2, Turns
  <2>2. n \in Reached
    BY <1>0, <2>1
  <2> HIDE DEF Takes
  <2> QED
    BY <2>2 DEF Reached
<1>4. Takes(Reads(c), n)
  BY <1>3, Zenon DEF Reads, n, none, o, i
<1>5. Reads(c)[0] = none
      /\ \A k \in 1..n : Reads(c)[k] = ReadPort(c, Reads(c)[k - 1], k)
  BY <1>0, <1>4
<1> QED
  BY <1>5, Zenon DEF n, none

LEMMA NoneMade ==
  ASSUME NEW c \in Configs
  PROVE  LET none == [NoSlave EXCEPT !.runtime_param_count = Len(c.parameter)]
         IN  SlaveMade(c, none) /\ none.i_port = <<>>
<1> DEFINE s == [NoSlave EXCEPT !.runtime_param_count = Len(c.parameter)]
<1>1. /\ DOMAIN s = SlaveFields /\ s.o_port = <<>> /\ s.i_port = <<>>
      /\ s.dwork_count = 0 /\ s.filter_count = 0
      /\ s.runtime_param_count = Len(c.parameter)
  BY DEF NoSlave, SlaveFields
<1> HIDE DEF s
<1>2. Array(<<>>) /\ <<>> \o <<>> = <<>> /\ DOMAIN <<>> = {}
  BY DEF Array
<1>3. CountedIn(<<>>) = <<>> /\ FilterWidths(<<>>) = <<>>
  BY <1>2 DEF CountedIn, FilterWidths
<1>4. Sum(<<>>) = 0
  <2>1. <<>> \in Seq(Nat) /\ Len(<<>>) = 0
    OBVIOUS
  <2> QED
    BY <2>1, SumSteps DEF Sum
<1>5. Len(c.parameter) \in Nat
  BY ConfigsAssumption, AppendArray
<1>6. WorkOwn(<<>>, 0)
  BY <1>2 DEF WorkOwn
<1>7. SlaveCounts(c, s)
  BY <1>1, <1>2, <1>3, <1>4, <1>5, <1>6 DEF SlaveCounts
<1>8. OutputsMade(c, s) /\ InputsMade(c, s)
  BY <1>1, <1>2 DEF OutputsMade, InputsMade
<1> QED
  BY <1>1, <1>7, <1>8 DEF SlaveMade, s

LEMMA GetIoportConfigMade ==
  ASSUME NEW c \in Configs, PortsValid(c)
  PROVE  SlaveMade(c, GetIoportConfig(c))
<1> DEFINE f == Reads(c)
           o == Len(c.output)
           l == Len(c.input)
           n == o + l
           Good == {k \in 0..n : SlaveMade(c, f[k])
                                 /\ (k <= o => f[k].i_port = <<>>)}
<1>1. /\ o \in Nat /\ l \in Nat
      /\ DOMAIN c.output = 1..o /\ DOMAIN c.input = 1..l
      /\ \A i \in DOMAIN c.output : PortSpecOK(c.output[i])
      /\ \A i \in DOMAIN c.input : PortSpecOK(c.input[i])
  BY ConfigsAssumption, AppendArray
<1>2. /\ f[0] = [NoSlave EXCEPT !.runtime_param_count = Len(c.parameter)]
      /\ \A k \in 1..n : f[k] = ReadPort(c, f[k - 1], k)
  BY <1>1, ReadsUnrolled
<1>3. n \in Nat /\ o \in Nat /\ l \in Nat
  <2>1. o \in Nat /\ l \in Nat
    BY <1>1
  <2> HIDE DEF o, l
  <2> QED
    BY <2>1
<1> HIDE DEF f, o, l
<1>4. 0 \in Good
  <2>1. SlaveMade(c, f[0]) /\ f[0].i_port = <<>>
    BY <1>2, NoneMade
  <2> QED
    BY <1>3, <2>1
<1>5. ASSUME NEW k \in 0..(n - 1), k \in Good PROVE k + 1 \in Good
  <2>1. k + 1 \in 1..n /\ (k + 1) - 1 = k
    BY <1>3 DEF n
  <2>2. SlaveMade(c, f[k]) /\ f[k + 1] = ReadPort(c, f[k], k + 1)
    BY <1>2, <1>5, <2>1
  <2>3. CASE k + 1 <= o
    <3>1. k + 1 \in DOMAIN c.output /\ f[k].i_port = <<>>
      BY <1>1, <1>5, <2>1, <2>3
    <3>2. f[k + 1] = AddPort(c, f[k], c.output[k + 1], "in")
      BY <2>2, <2>3 DEF ReadPort, o
    <3>3. PortSpecOK(c.output[k + 1]) /\ PortValid(c, c.output[k + 1], "in")
      BY <1>1, <3>1 DEF PortsValid
    <3>4. SlaveMade(c, f[k + 1]) /\ f[k + 1].i_port = <<>>
      BY <2>2, <3>1, <3>2, <3>3, AddPortMade
    <3> QED
      BY <1>3, <2>1, <3>4
  <2>4. CASE ~(k + 1 <= o)
    <3> DEFINE m == (k + 1) - o
    <3>1. m \in DOMAIN c.input
      BY <1>1, <1>3, <2>1, <2>4
    <3>2. f[k + 1] = AddPort(c, f[k], c.input[m], "out")
      BY <2>2, <2>4 DEF ReadPort, o
    <3>3. PortSpecOK(c.input[m]) /\ PortValid(c, c.input[m], "out")
      BY <1>1, <3>1 DEF PortsValid
    <3> HIDE DEF m
    <3>4. SlaveMade(c, f[k + 1])
      BY <2>2, <3>2, <3>3, AddPortMade
    <3> QED
      BY <1>3, <2>1, <2>4, <3>4
  <2> QED
    BY <2>3, <2>4
<1> HIDE DEF Good
<1>6. \A k \in 0..n : k \in Good
  BY <1>3, <1>4, <1>5, Turns
<1>7. GetIoportConfig(c) = f[n]
  BY Zenon DEF GetIoportConfig, Reads, f, n, o, l
<1>8. n \in Good
  BY <1>3, <1>6
<1> QED
  BY <1>7, <1>8 DEF Good

-----------------------------------------------------------------------------
(* The block settles its inputs with Simulink.                             *)

\* An input has a work vector if and only if there is a conversion to make.
TypeRight(port, type) ==
  IF type = DynamicType THEN port.dwork_idx = 0 /\ ~Converted(port)
  ELSE port.dwork_idx # 0
         <=> (type # SlType(port.data_type) \/ Converted(port))

SizesRight ==
  /\ SlaveCounts(cfg, slave) /\ OutputsMade(cfg, slave)
  /\ DOMAIN inType = DOMAIN slave.i_port
  /\ inWidth \in Seq(Int) /\ Len(inWidth) = Len(slave.i_port)
  /\ connected \in SUBSET DOMAIN slave.i_port
  /\ \A i \in DOMAIN slave.i_port :
       /\ PortSound(cfg, slave.i_port[i], "out")
       /\ TypeRight(slave.i_port[i], inType[i])
       /\ inWidth[i] \in Dynamic..Len(slave.i_port[i].pdo)

\* In every state, the ones after an error included.
Counting ==
  /\ Array(slave.o_port) /\ Array(slave.i_port) /\ slave.dwork_count \in Nat
  /\ WorkOwn(Ports, slave.dwork_count)

Sized == pc \in {"settle", "rtw", "start", "outputs", "update", "done"}

SizesInv ==
  /\ cfg \in Configs
  /\ Counting
  /\ Sized => SizesRight

LEMMA SlTypeSettled ==
  ASSUME NEW id
  PROVE  SlType(id) # DynamicType
<1>1. CASE id = 1001
  BY <1>1 DEF SlType, DynamicType
<1>2. CASE id \in 1002..1008
  BY <1>2 DEF SlType, DynamicType
<1>3. CASE id \in {1016, 1024, 1032, 2008, 2016, 2032, 3032}
  BY <1>3 DEF SlType, DynamicType
<1>4. CASE id \notin {1001, 1016, 1024, 1032, 2008, 2016, 2032, 3032}
           /\ id \notin 1002..1008
  BY <1>4 DEF SlType, DynamicType
<1> QED
  BY <1>1, <1>2, <1>3, <1>4

LEMMA PortMadeRight ==
  ASSUME NEW c, NEW port, PortMade(c, port, "out")
  PROVE  PortSound(c, port, "out") /\ TypeRight(port, port.sl_port_data_type)
<1>1. SlType(port.data_type) # DynamicType /\ DynamicType # "double"
  BY SlTypeSettled DEF DynamicType
<1> QED
  BY <1>1 DEF PortMade, TypeRight

\* Q is P with y for x in the place k.
SetAt(P, Q, k, x, y) ==
  /\ Array(P) /\ Array(Q) /\ Len(Q) = Len(P) /\ k \in DOMAIN P
  /\ P[k] = x /\ Q[k] = y
  /\ \A i \in DOMAIN P \ {k} : Q[i] = P[i]

LEMMA WorkSet ==
  ASSUME NEW P, NEW Q, NEW k, NEW x, NEW y, SetAt(P, Q, k, x, y),
         NEW n \in Nat, WorkOwn(P, n), x.dwork_idx = 0, y.dwork_idx = n + 1
  PROVE  WorkOwn(Q, n + 1)
<1>1. /\ DOMAIN P = 1..Len(P) /\ DOMAIN Q = DOMAIN P /\ k \in DOMAIN P
      /\ \A i \in DOMAIN P \ {k} : Q[i].dwork_idx = P[i].dwork_idx
      /\ P[k].dwork_idx = 0 /\ Q[k].dwork_idx = n + 1
  BY AppendArray DEF SetAt
<1>2. \A i \in DOMAIN Q : Q[i].dwork_idx \in 0..(n + 1)
  BY <1>1 DEF WorkOwn
<1>3. ASSUME NEW m \in 1..(n + 1) PROVE \E i \in DOMAIN Q : Q[i].dwork_idx = m
  <2>1. CASE m = n + 1
    BY <1>1, <2>1
  <2>2. CASE m \in 1..n
    <3>1. PICK i \in DOMAIN P : P[i].dwork_idx = m
      BY <2>2 DEF WorkOwn
    <3>2. i # k
      BY <1>1, <2>2, <3>1
    <3> QED
      BY <1>1, <3>1, <3>2
  <2> QED
    BY <2>1, <2>2
<1>4. ASSUME NEW i \in DOMAIN Q, NEW j \in DOMAIN Q,
             Q[i].dwork_idx = Q[j].dwork_idx, i # j
      PROVE  Q[i].dwork_idx = 0
  <2>1. \A l \in DOMAIN P : P[l].dwork_idx \in 0..n
    BY DEF WorkOwn
  <2>2. CASE i = k
    <3>1. Q[j].dwork_idx = P[j].dwork_idx
      BY <1>1, <1>4, <2>2
    <3> QED
      BY <1>1, <1>4, <2>1, <2>2, <3>1
  <2>3. CASE j = k
    <3>1. Q[i].dwork_idx = P[i].dwork_idx
      BY <1>1, <1>4, <2>3
    <3> QED
      BY <1>1, <1>4, <2>1, <2>3, <3>1
  <2>4. CASE i # k /\ j # k
    BY <1>1, <1>4, <2>4 DEF WorkOwn
  <2> QED
    BY <2>2, <2>3, <2>4
<1> QED
  BY <1>2, <1>3, <1>4 DEF WorkOwn

LEMMA CountedSet ==
  ASSUME NEW P, NEW Q, NEW k, NEW x, NEW y, SetAt(P, Q, k, x, y),
         CountedOf(y) = CountedOf(x)
  PROVE  CountedIn(Q) = CountedIn(P)
<1>1. /\ DOMAIN P = 1..Len(P) /\ DOMAIN Q = DOMAIN P
      /\ \A i \in DOMAIN P : CountedOf(Q[i]) = CountedOf(P[i])
  BY AppendArray DEF SetAt
<1> QED
  BY <1>1, Zenon DEF CountedIn

\* The i-th port of the block is an output or an input.
LEMMA PortsParts ==
  ASSUME NEW P, Array(P), NEW Q, Array(Q), NEW A, A = P \o Q
  PROVE  /\ Array(A) /\ DOMAIN A = 1..(Len(P) + Len(Q))
         /\ Len(P) \in Nat /\ Len(Q) \in Nat
         /\ DOMAIN P = 1..Len(P) /\ DOMAIN Q = 1..Len(Q)
         /\ Len(A) = Len(P) + Len(Q)
         /\ \A i \in 1..Len(P) : A[i] = P[i]
         /\ \A i \in 1..Len(Q) : A[Len(P) + i] = Q[i]
<1>1. /\ Array(A) /\ Len(A) = Len(P) + Len(Q)
      /\ \A i \in 1..Len(P) : A[i] = P[i]
      /\ \A i \in 1..Len(Q) : A[Len(P) + i] = Q[i]
  BY ConcatAppend
<1>2. /\ DOMAIN A = 1..Len(A)
      /\ Len(P) \in Nat /\ Len(Q) \in Nat
      /\ DOMAIN P = 1..Len(P) /\ DOMAIN Q = 1..Len(Q)
  BY <1>1, AppendArray
<1> QED
  BY <1>1, <1>2

LEMMA ConcatSet ==
  ASSUME NEW O, Array(O), NEW I, NEW Q, NEW p, NEW x, NEW y,
         SetAt(I, Q, p, x, y)
  PROVE  \E k : SetAt(O \o I, O \o Q, k, x, y)
<1> DEFINE A == O \o I
           B == O \o Q
<1>9. /\ A = O \o I /\ B = O \o Q /\ Array(I) /\ Array(Q) /\ Len(Q) = Len(I)
      /\ p \in DOMAIN I /\ I[p] = x /\ Q[p] = y
      /\ \A i \in DOMAIN I \ {p} : Q[i] = I[i]
  BY DEF SetAt
<1> HIDE DEF A, B
<1>1. /\ Array(A) /\ DOMAIN A = 1..(Len(O) + Len(I)) /\ Len(O) \in Nat
      /\ Len(I) \in Nat /\ DOMAIN I = 1..Len(I)
      /\ Len(A) = Len(O) + Len(I)
      /\ \A i \in 1..Len(O) : A[i] = O[i]
      /\ \A i \in 1..Len(I) : A[Len(O) + i] = I[i]
  <2>1. Array(A)
    BY <1>9, PortsParts
  <2>2. Len(O) \in Nat /\ Len(I) \in Nat /\ DOMAIN I = 1..Len(I)
    BY <1>9, AppendArray
  <2>3. Len(A) = Len(O) + Len(I)
    BY <1>9, PortsParts
  <2>4. \A i \in 1..Len(O) : A[i] = O[i]
    BY <1>9, PortsParts
  <2>5. \A i \in 1..Len(I) : A[Len(O) + i] = I[i]
    BY <1>9, PortsParts
  <2>6. DOMAIN A = 1..Len(A)
    BY <2>1, AppendArray
  <2> QED
    BY <2>1, <2>2, <2>3, <2>4, <2>5, <2>6
<1>2. /\ Array(B) /\ Len(B) = Len(O) + Len(I)
      /\ \A i \in 1..Len(O) : B[i] = O[i]
      /\ \A i \in 1..Len(I) : B[Len(O) + i] = Q[i]
  <2>1. Array(B)
    BY <1>9, PortsParts
  <2>2. Len(B) = Len(O) + Len(Q)
    BY <1>9, PortsParts
  <2>3. \A i \in 1..Len(O) : B[i] = O[i]
    BY <1>9, PortsParts
  <2>4. \A i \in 1..Len(Q) : B[Len(O) + i] = Q[i]
    BY <1>9, PortsParts
  <2> QED
    BY <1>9, <2>1, <2>2, <2>3, <2>4
<1>3. p \in 1..Len(I)
  BY <1>1, <1>9
<1>4. ASSUME NEW i \in 1..(Len(O) + Len(I)), i # Len(O) + p
      PROVE  B[i] = A[i]
  <2>1. CASE i \in 1..Len(O)
    BY <1>1, <1>2, <2>1
  <2>2. CASE i \notin 1..Len(O)
    <3> DEFINE j == i - Len(O)
    <3>1. j \in 1..Len(I) /\ i = Len(O) + j /\ j # p
      BY <1>1, <1>3, <1>4, <2>2
    <3>2. Q[j] = I[j] /\ A[i] = I[j] /\ B[i] = Q[j]
      BY <1>1, <1>2, <1>9, <3>1
    <3> QED
      BY <3>2
  <2> QED
    BY <2>1, <2>2
<1> DEFINE k == Len(O) + p
<1>5. k \in DOMAIN A /\ A[k] = I[p] /\ B[k] = Q[p]
  BY <1>1, <1>2, <1>3
<1>6. \A i \in DOMAIN A \ {k} : B[i] = A[i]
  BY <1>1, <1>4
<1>7. Len(B) = Len(A)
  BY <1>1, <1>2
<1> HIDE DEF k
<1>8. SetAt(A, B, k, x, y)
  BY <1>1, <1>2, <1>5, <1>6, <1>7, <1>9 DEF SetAt
<1> QED
  BY <1>8 DEF A, B

LEMMA ConcatWork ==
  ASSUME NEW O, Array(O), NEW I, NEW Q, NEW p, NEW x, NEW y,
         SetAt(I, Q, p, x, y), NEW n \in Nat, WorkOwn(O \o I, n),
         x.dwork_idx = 0, y.dwork_idx = n + 1, CountedOf(y) = CountedOf(x)
  PROVE  WorkOwn(O \o Q, n + 1) /\ CountedIn(O \o Q) = CountedIn(O \o I)
<1> DEFINE A == O \o I
           B == O \o Q
<1>1. PICK k : SetAt(A, B, k, x, y)
  BY ConcatSet
<1>2. WorkOwn(A, n)
  OBVIOUS
<1> HIDE DEF A, B
<1>3. WorkOwn(B, n + 1)
  BY <1>1, <1>2, WorkSet
<1>4. CountedIn(B) = CountedIn(A)
  BY <1>1, CountedSet
<1> QED
  BY <1>3, <1>4 DEF A, B

\* A further work vector for the input p, whose type is now id.
Taken(s, p, id) ==
  [s EXCEPT !.dwork_count = @ + 1,
            !.i_port[p].dwork_idx = NextDwork(s.dwork_count),
            !.i_port[p].sl_port_data_type = id]

LEMMA TakeDwork ==
  ASSUME NEW c, NEW s, SlaveCounts(c, s), NEW p \in DOMAIN s.i_port, NEW id,
         s.i_port[p].dwork_idx = 0, DOMAIN s.i_port[p] = PortFields,
         NEW t, t = Taken(s, p, id)
  PROVE  /\ SlaveCounts(c, t) /\ t.o_port = s.o_port
         /\ Len(t.i_port) = Len(s.i_port) /\ DOMAIN t.i_port = DOMAIN s.i_port
         /\ \A i \in DOMAIN s.i_port \ {p} : t.i_port[i] = s.i_port[i]
         /\ t.i_port[p].dwork_idx = s.dwork_count + 1
         /\ DOMAIN t.i_port[p] = PortFields
         /\ \A f \in PortFields \ {"dwork_idx", "sl_port_data_type"} :
              t.i_port[p][f] = s.i_port[p][f]
<1> DEFINE q == [s.i_port[p] EXCEPT !.dwork_idx = s.dwork_count + 1,
                                    !.sl_port_data_type = id]
           I == s.i_port
           O == s.o_port
           Q == [I EXCEPT ![p] = q]
           n == s.dwork_count
<1>1. /\ DOMAIN s = SlaveFields /\ Array(O) /\ Array(I)
      /\ n \in Nat /\ WorkOwn(O \o I, n)
      /\ s.filter_count = Sum(FilterWidths(O))
      /\ s.runtime_param_count = Len(c.parameter) + Sum(CountedIn(O \o I))
  BY DEF SlaveCounts
<1>2. /\ t.i_port = Q /\ t.o_port = O /\ t.dwork_count = n + 1
      /\ t.filter_count = s.filter_count
      /\ t.runtime_param_count = s.runtime_param_count
      /\ DOMAIN t = SlaveFields
  BY <1>1 DEF SlaveFields, NextDwork, Taken
<1>3. /\ DOMAIN q = PortFields /\ q.dwork_idx = n + 1
      /\ \A f \in PortFields \ {"dwork_idx", "sl_port_data_type"} :
           q[f] = s.i_port[p][f]
  BY DEF PortFields
<1>4. CountedOf(q) = CountedOf(I[p])
  BY <1>3 DEF CountedOf, PortFields
<1> HIDE DEF q
<1>5. /\ DOMAIN Q = DOMAIN I /\ Q[p] = q
      /\ \A i \in DOMAIN I \ {p} : Q[i] = I[i]
  OBVIOUS
<1>6. Array(Q) /\ Len(Q) = Len(I)
  <2> DEFINE R == Range(I) \cup {q}
  <2>1. I \in Seq(Range(I)) /\ p \in 1..Len(I)
    BY <1>1, AppendArray DEF Array
  <2>2. Range(I) \subseteq R /\ q \in R
    OBVIOUS
  <2> HIDE DEF R, I
  <2>3. I \in Seq(R)
    BY <2>1, <2>2
  <2>4. Q \in Seq(R) /\ Len(Q) = Len(I)
    BY <2>1, <2>2, <2>3, ExceptSeq
  <2> QED
    BY <2>4, ArrayOf
<1> HIDE DEF Q, I, O, n
<1>7. WorkOwn(O \o Q, n + 1) /\ CountedIn(O \o Q) = CountedIn(O \o I)
  <2>1. SetAt(I, Q, p, I[p], q)
    BY <1>1, <1>5, <1>6 DEF I, SetAt
  <2>2. /\ I[p].dwork_idx = 0 /\ q.dwork_idx = n + 1
        /\ CountedOf(q) = CountedOf(I[p])
    BY <1>3, <1>4 DEF I
  <2> QED
    BY <1>1, <2>1, <2>2, ConcatWork
<1>8. SlaveCounts(c, t)
  BY <1>1, <1>2, <1>6, <1>7 DEF SlaveCounts
<1> QED
  BY <1>1, <1>2, <1>3, <1>5, <1>6, <1>8 DEF I, O, n
LEMMA SizesInit == Init => SizesInv
<1> SUFFICES ASSUME Init PROVE SizesInv
  OBVIOUS
<1>1. cfg \in Configs /\ ~Sized
  BY DEF Init, Sized
<1>2. /\ slave.o_port = <<>> /\ slave.i_port = <<>> /\ slave.dwork_count = 0
  BY DEF Init, NoSlave
<1>3. Ports = <<>>
  BY <1>2 DEF Ports
<1>4. Array(<<>>) /\ DOMAIN <<>> = {}
  BY DEF Array
<1>5. WorkOwn(<<>>, 0)
  BY <1>4 DEF WorkOwn
<1> QED
  BY <1>1, <1>2, <1>3, <1>4, <1>5 DEF SizesInv, Counting

\* What the action leaves alone when it is not about the inputs.
LEMMA SizesKept ==
  ASSUME SizesInv, UNCHANGED <<cfg, slave, sizes>>, Sized' => Sized
  PROVE  SizesInv'
<1>1. UNCHANGED <<cfg, slave, connected, inType, inWidth>>
  BY DEF sizes
<1>2. Counting'
  BY <1>1 DEF SizesInv, Counting, Ports
<1>3. SizesRight => SizesRight'
  BY <1>1 DEF SizesRight, OutputsMade
<1> QED
  BY <1>1, <1>2, <1>3 DEF SizesInv

LEMMA SizesInitialized ==
  ASSUME SizesInv, mdlInitializeSizes
  PROVE  SizesInv'
<1> DEFINE n == Len(slave'.i_port)
<1>1. /\ cfg \in Configs /\ cfg' = cfg /\ PortsValid(cfg)
      /\ slave' = GetIoportConfig(cfg)
      /\ connected' \in SUBSET DOMAIN slave'.i_port
      /\ inWidth' = [i \in DOMAIN slave'.i_port |-> Dynamic]
      /\ inType' = [i \in DOMAIN slave'.i_port |->
                      slave'.i_port[i].sl_port_data_type]
  BY DEF SizesInv, mdlInitializeSizes
<1>2. SlaveCounts(cfg, slave') /\ OutputsMade(cfg, slave') /\ InputsMade(cfg, slave')
  BY <1>1, GetIoportConfigMade DEF SlaveMade
<1>3. /\ Array(slave'.o_port) /\ Array(slave'.i_port) /\ slave'.dwork_count \in Nat
      /\ WorkOwn(slave'.o_port \o slave'.i_port, slave'.dwork_count)
  BY <1>2 DEF SlaveCounts
<1>4. n \in Nat /\ DOMAIN slave'.i_port = 1..n
  BY <1>3, AppendArray
<1>5. inWidth' \in Seq(Int) /\ Len(inWidth') = n
  <2>1. inWidth' = [i \in 1..n |-> Dynamic] /\ Dynamic \in Int
    BY <1>1, <1>4 DEF Dynamic
  <2> HIDE DEF n
  <2> QED
    BY <1>4, <2>1
<1>6. ASSUME NEW i \in DOMAIN slave'.i_port
      PROVE  /\ PortSound(cfg, slave'.i_port[i], "out")
             /\ TypeRight(slave'.i_port[i], inType'[i])
             /\ inWidth'[i] \in Dynamic..Len(slave'.i_port[i].pdo)
  <2> DEFINE port == slave'.i_port[i]
  <2>1. PortMade(cfg, port, "out")
    BY <1>2 DEF InputsMade
  <2>2. inType'[i] = port.sl_port_data_type /\ inWidth'[i] = Dynamic
    BY <1>1
  <2> HIDE DEF port
  <2>3. PortSound(cfg, port, "out") /\ TypeRight(port, inType'[i])
    BY <2>1, <2>2, PortMadeRight
  <2>4. Len(port.pdo) \in Nat
    BY <2>3, AppendArray DEF PortSound
  <2>5. inWidth'[i] \in Dynamic..Len(port.pdo)
    BY <2>2, <2>4 DEF Dynamic
  <2> QED
    BY <2>3, <2>5 DEF port
<1>7. DOMAIN inType' = DOMAIN slave'.i_port
  BY <1>1
<1>8. SizesRight'
  BY <1>1, <1>2, <1>5, <1>6, <1>7 DEF SizesRight, OutputsMade
<1>9. Counting'
  BY <1>3 DEF Counting, Ports
<1> QED
  BY <1>1, <1>8, <1>9 DEF SizesInv

LEMMA SizesType ==
  ASSUME SizesInv, NEW p \in DOMAIN inType, NEW id \in InputTypes,
         mdlSetInputPortDataType(p, id)
  PROVE  SizesInv'
<1>1. /\ cfg \in Configs /\ SizesRight
      /\ p \in connected /\ inType[p] = DynamicType
      /\ inType' = [inType EXCEPT ![p] = id]
      /\ UNCHANGED <<cfg, connected, inWidth>>
  BY DEF SizesInv, Sized, mdlSetInputPortDataType
<1>2. /\ SlaveCounts(cfg, slave) /\ OutputsMade(cfg, slave)
      /\ DOMAIN inType = DOMAIN slave.i_port
      /\ inWidth \in Seq(Int) /\ Len(inWidth) = Len(slave.i_port)
      /\ connected \in SUBSET DOMAIN slave.i_port
      /\ \A i \in DOMAIN slave.i_port :
           /\ PortSound(cfg, slave.i_port[i], "out")
           /\ TypeRight(slave.i_port[i], inType[i])
           /\ inWidth[i] \in Dynamic..Len(slave.i_port[i].pdo)
  BY <1>1 DEF SizesRight
<1> DEFINE port == slave.i_port[p]
<1>3. /\ p \in DOMAIN slave.i_port /\ PortSound(cfg, port, "out")
      /\ port.dwork_idx = 0 /\ ~Converted(port) /\ id # DynamicType
      /\ DOMAIN port = PortFields
  BY <1>1, <1>2, TypesAssumption DEF TypeRight, DynamicType, PortSound
<1>4. /\ SlaveCounts(cfg, slave') /\ slave'.o_port = slave.o_port
      /\ Len(slave'.i_port) = Len(slave.i_port)
      /\ DOMAIN slave'.i_port = DOMAIN slave.i_port
      /\ \A i \in DOMAIN slave.i_port \ {p} : slave'.i_port[i] = slave.i_port[i]
      /\ \A f \in PortFields \ {"dwork_idx", "sl_port_data_type"} :
           slave'.i_port[p][f] = slave.i_port[p][f]
      /\ DOMAIN slave'.i_port[p] = PortFields
      /\ slave'.i_port[p].dwork_idx # 0 <=> id # SlType(port.data_type)
  <2>1. CASE SlType(port.data_type) = id
    <3>1. slave' = slave
      BY <2>1 DEF mdlSetInputPortDataType
    <3> QED
      BY <1>2, <1>3, <2>1, <3>1
  <2>2. CASE SlType(port.data_type) # id
    <3>1. slave' = Taken(slave, p, id)
      BY <2>2 DEF mdlSetInputPortDataType, Taken
    <3>2. /\ SlaveCounts(cfg, slave') /\ slave'.o_port = slave.o_port
          /\ Len(slave'.i_port) = Len(slave.i_port)
          /\ DOMAIN slave'.i_port = DOMAIN slave.i_port
          /\ \A i \in DOMAIN slave.i_port \ {p} :
               slave'.i_port[i] = slave.i_port[i]
          /\ slave'.i_port[p].dwork_idx = slave.dwork_count + 1
          /\ DOMAIN slave'.i_port[p] = PortFields
          /\ \A f \in PortFields \ {"dwork_idx", "sl_port_data_type"} :
               slave'.i_port[p][f] = slave.i_port[p][f]
      BY <1>2, <1>3, <3>1, TakeDwork
    <3>3. slave.dwork_count \in Nat
      BY <1>2 DEF SlaveCounts
    <3> QED
      BY <2>2, <3>2, <3>3
  <2> QED
    BY <2>1, <2>2
<1> DEFINE new == slave'.i_port[p]
<1>5. PortSound(cfg, new, "out") /\ (Converted(new) <=> Converted(port))
      /\ new.data_type = port.data_type /\ new.pdo = port.pdo
  <2>1. /\ new.pdo = port.pdo /\ new.data_type = port.data_type
        /\ new.gain = port.gain /\ new.offset = port.offset
        /\ new.filter = port.filter /\ new.fullscale = port.fullscale
        /\ DOMAIN new = PortFields
    BY <1>4 DEF PortFields
  <2> HIDE DEF new, port
  <2> QED
    BY <1>3, <2>1 DEF PortSound, Converted
<1>6. ASSUME NEW i \in DOMAIN slave'.i_port
      PROVE  /\ PortSound(cfg, slave'.i_port[i], "out")
             /\ TypeRight(slave'.i_port[i], inType'[i])
             /\ inWidth[i] \in Dynamic..Len(slave'.i_port[i].pdo)
  <2>1. CASE i = p
    <3>1. inType'[p] = id
      BY <1>1, <1>2, <1>3
    <3>2. TypeRight(new, id)
      BY <1>3, <1>4, <1>5 DEF TypeRight
    <3>3. inWidth[p] \in Dynamic..Len(new.pdo)
      BY <1>2, <1>3, <1>5
    <3> QED
      BY <1>5, <2>1, <3>1, <3>2, <3>3
  <2>2. CASE i # p
    <3>1. slave'.i_port[i] = slave.i_port[i] /\ inType'[i] = inType[i]
      BY <1>1, <1>2, <1>4, <2>2
    <3> QED
      BY <1>2, <1>4, <3>1
  <2> QED
    BY <2>1, <2>2
<1>7. DOMAIN inType' = DOMAIN slave'.i_port /\ cfg' = cfg
      /\ connected' = connected /\ inWidth' = inWidth
  BY <1>1, <1>2, <1>4
<1>8. SizesRight'
  BY <1>2, <1>4, <1>6, <1>7 DEF SizesRight, OutputsMade
<1>9. Counting'
  BY <1>4 DEF SlaveCounts, Counting, Ports
<1> QED
  BY <1>1, <1>8, <1>9 DEF SizesInv

\* A step that settles only widths or types that were left.
LEMMA SizesWidths ==
  ASSUME SizesInv, Sized, UNCHANGED <<cfg, slave, connected, inType>>,
         inWidth' \in Seq(Int), Len(inWidth') = Len(inWidth),
         \A i \in DOMAIN slave.i_port :
           inWidth'[i] \in Dynamic..Len(slave.i_port[i].pdo)
  PROVE  SizesInv'
<1>1. Counting'
  BY DEF SizesInv, Counting, Ports
<1>2. SizesRight'
  BY DEF SizesInv, SizesRight, OutputsMade
<1> QED
  BY <1>1, <1>2 DEF SizesInv

LEMMA WidthsType ==
  ASSUME SizesInv, Sized
  PROVE  /\ DOMAIN inWidth = 1..Len(slave.i_port) /\ Len(slave.i_port) \in Nat
         /\ DOMAIN slave.i_port = 1..Len(slave.i_port)
         /\ \A i \in DOMAIN slave.i_port : Len(slave.i_port[i].pdo) \in Nat
<1>1. Array(slave.i_port) /\ inWidth \in Seq(Int)
      /\ Len(inWidth) = Len(slave.i_port)
      /\ \A i \in DOMAIN slave.i_port : Array(slave.i_port[i].pdo)
  BY DEF SizesInv, SizesRight, SlaveCounts, PortSound
<1>2. /\ Len(slave.i_port) \in Nat
      /\ DOMAIN slave.i_port = 1..Len(slave.i_port)
      /\ \A i \in DOMAIN slave.i_port : Len(slave.i_port[i].pdo) \in Nat
  BY <1>1, AppendArray
<1> QED
  BY <1>1, <1>2

LEMMA SizesWidth ==
  ASSUME SizesInv, NEW p \in DOMAIN inType, NEW width \in Nat,
         mdlSetInputPortWidth(p, width)
  PROVE  SizesInv'
<1>1. /\ Sized /\ UNCHANGED <<cfg, slave, connected, inType>>
      /\ inWidth' = [inWidth EXCEPT ![p] = width]
      /\ pc' = IF width > Len(slave.i_port[p].pdo) THEN "error" ELSE pc
      /\ p \in DOMAIN slave.i_port
  BY DEF Sized, mdlSetInputPortWidth, SizesInv, SizesRight
<1>2. /\ DOMAIN inWidth = 1..Len(slave.i_port) /\ Len(slave.i_port) \in Nat
      /\ DOMAIN slave.i_port = 1..Len(slave.i_port)
      /\ \A i \in DOMAIN slave.i_port : Len(slave.i_port[i].pdo) \in Nat
  BY <1>1, WidthsType
<1>3. CASE width > Len(slave.i_port[p].pdo)
  <2>1. ~Sized'
    BY <1>1, <1>3 DEF Sized
  <2>2. Counting'
    BY <1>1 DEF SizesInv, Counting, Ports
  <2> QED
    BY <1>1, <2>1, <2>2 DEF SizesInv
<1>4. CASE ~(width > Len(slave.i_port[p].pdo))
  <2>1. width \in Dynamic..Len(slave.i_port[p].pdo)
    BY <1>1, <1>2, <1>4 DEF Dynamic
  <2>2. /\ inWidth \in Seq(Int) /\ \A i \in DOMAIN slave.i_port :
             inWidth[i] \in Dynamic..Len(slave.i_port[i].pdo)
    BY <1>1 DEF SizesInv, SizesRight
  <2>3. inWidth' \in Seq(Int) /\ Len(inWidth') = Len(inWidth)
    BY <1>1, <1>2, <2>2
  <2>4. \A i \in DOMAIN slave.i_port :
          inWidth'[i] \in Dynamic..Len(slave.i_port[i].pdo)
    BY <1>1, <1>2, <2>1, <2>2
  <2> QED
    BY <1>1, <2>3, <2>4, SizesWidths
<1> QED
  BY <1>3, <1>4

LEMMA SizesDefaultWidths ==
  ASSUME SizesInv, mdlSetDefaultPortDimensionInfo
  PROVE  SizesInv'
<1>1. /\ Sized /\ UNCHANGED <<cfg, slave, connected, inType>>
      /\ inWidth' = [i \in DOMAIN inWidth |->
                       IF inWidth[i] = Dynamic THEN Len(slave.i_port[i].pdo)
                       ELSE inWidth[i]]
  BY DEF Sized, mdlSetDefaultPortDimensionInfo
<1>2. /\ DOMAIN inWidth = 1..Len(slave.i_port) /\ Len(slave.i_port) \in Nat
      /\ DOMAIN slave.i_port = 1..Len(slave.i_port)
      /\ \A i \in DOMAIN slave.i_port : Len(slave.i_port[i].pdo) \in Nat
  BY <1>1, WidthsType
<1>3. /\ inWidth \in Seq(Int) /\ Len(inWidth) = Len(slave.i_port)
      /\ \A i \in DOMAIN slave.i_port :
           inWidth[i] \in Dynamic..Len(slave.i_port[i].pdo)
  BY <1>1 DEF SizesInv, SizesRight
<1>4. \A i \in DOMAIN slave.i_port :
        inWidth'[i] \in Dynamic..Len(slave.i_port[i].pdo)
  BY <1>1, <1>2, <1>3 DEF Dynamic
<1>5. inWidth' \in Seq(Int) /\ Len(inWidth') = Len(inWidth)
  <2> DEFINE n == Len(slave.i_port)
             F(i) == IF inWidth[i] = Dynamic THEN Len(slave.i_port[i].pdo)
                     ELSE inWidth[i]
  <2>1. n \in Nat /\ inWidth' = [i \in 1..n |-> F(i)] /\ Len(inWidth) = n
    BY <1>1, <1>2, <1>3
  <2>2. \A i \in 1..n : F(i) \in Int
    BY <1>2, <1>3
  <2> HIDE DEF n, F
  <2> QED
    BY <2>1, <2>2
<1> QED
  BY <1>1, <1>4, <1>5, SizesWidths

LEMMA SizesDefaultTypes ==
  ASSUME SizesInv, mdlSetDefaultPortDataTypes
  PROVE  SizesInv'
<1>1. /\ Sized /\ UNCHANGED <<cfg, slave, connected, inWidth>> /\ SizesRight
      /\ inType' = [i \in DOMAIN inType |->
                      IF inType[i] = DynamicType
                      THEN SlType(slave.i_port[i].data_type) ELSE inType[i]]
  BY DEF Sized, mdlSetDefaultPortDataTypes, SizesInv
<1>2. Counting'
  BY <1>1 DEF SizesInv, Counting, Ports
<1>3. ASSUME NEW i \in DOMAIN slave.i_port
      PROVE  TypeRight(slave.i_port[i], inType'[i])
  <2>1. TypeRight(slave.i_port[i], inType[i]) /\ i \in DOMAIN inType
    BY <1>1 DEF SizesRight
  <2>2. SlType(slave.i_port[i].data_type) # DynamicType
    BY SlTypeSettled
  <2> QED
    BY <1>1, <2>1, <2>2 DEF TypeRight
<1>4. DOMAIN inType' = DOMAIN inType
  BY <1>1
<1>5. SizesRight'
  BY <1>1, <1>3, <1>4 DEF SizesRight, OutputsMade
<1> QED
  BY <1>1, <1>2, <1>5 DEF SizesInv

LEMMA SizesNext == SizesInv /\ [Next]_vars => SizesInv'
<1> SUFFICES ASSUME SizesInv, [Next]_vars PROVE SizesInv'
  OBVIOUS
<1>1. ASSUME Fail PROVE SizesInv'
  <2>1. UNCHANGED <<cfg, slave, sizes>> /\ ~Sized'
    BY <1>1 DEF Fail, Sized
  <2> QED
    BY <2>1, SizesKept
<1>2. CASE mdlInitializeSizes
  BY <1>2, SizesInitialized
<1>3. CASE mdlInitializeSizesFails
  BY <1>1, <1>3 DEF mdlInitializeSizesFails
<1>4. ASSUME NEW p \in DOMAIN inType, NEW id \in InputTypes,
             mdlSetInputPortDataType(p, id) \/ mdlSetInputPortDataTypeFails(p, id)
      PROVE  SizesInv'
  BY <1>1, <1>4, SizesType DEF mdlSetInputPortDataTypeFails
<1>5. ASSUME NEW p \in DOMAIN inType,
             NEW width \in 1..(Len(slave.i_port[p].pdo) + 1),
             mdlSetInputPortWidth(p, width)
      PROVE  SizesInv'
  <2>1. width \in Nat
    OBVIOUS
  <2> QED
    BY <1>5, <2>1, SizesWidth
<1>6. CASE mdlSetDefaultPortDataTypes
  BY <1>6, SizesDefaultTypes
<1>7. CASE mdlSetDefaultPortDimensionInfo
  BY <1>7, SizesDefaultWidths
<1>8. CASE mdlSetWorkWidths
  <2>1. UNCHANGED <<cfg, slave, sizes>> /\ Sized
    BY <1>8 DEF mdlSetWorkWidths, Sized
  <2> QED
    BY <2>1, SizesKept
<1>9. CASE mdlRTW
  <2>1. UNCHANGED <<cfg, slave, sizes>> /\ Sized
    BY <1>9 DEF mdlRTW, Sized
  <2> QED
    BY <2>1, SizesKept
<1>10. ASSUME NEW o \in Others, StartOther(o) PROVE SizesInv'
  <2>1. UNCHANGED <<cfg, slave, sizes>> /\ Sized
    BY <1>10 DEF StartOther, Sized
  <2> QED
    BY <2>1, SizesKept
<1>11. CASE Start
  <2>1. UNCHANGED <<cfg, slave, sizes>> /\ Sized
    BY <1>11 DEF Start, Sized
  <2> QED
    BY <2>1, SizesKept
<1>12. CASE Outputs
  <2>1. UNCHANGED <<cfg, slave, sizes>> /\ Sized
    BY <1>12 DEF Outputs, Sized
  <2> QED
    BY <2>1, SizesKept
<1>13. CASE Update
  <2>1. UNCHANGED <<cfg, slave, sizes>> /\ Sized
    BY <1>13 DEF Update, Sized
  <2> QED
    BY <2>1, SizesKept
<1>14. CASE UpdateFails
  BY <1>1, <1>14 DEF UpdateFails
<1>15. CASE Ended \/ UNCHANGED vars
  <2>1. UNCHANGED <<cfg, slave, sizes>> /\ (Sized' => Sized)
    BY <1>15 DEF Ended, vars, Sized
  <2> QED
    BY <2>1, SizesKept
<1> QED
  BY <1>2, <1>3, <1>4, <1>5, <1>6, <1>7, <1>8, <1>9, <1>10, <1>11, <1>12,
     <1>13, <1>14, <1>15 DEF Next

-----------------------------------------------------------------------------
(* The sync manager tables of the diagram.                                 *)

\* The arrays say what the tables say, and a block that was given the tables
\* with some number finds its own there.
TablesInv ==
  /\ Array(users)
  /\ \A k \in DOMAIN PDO_Map :
       /\ Array(PDO_Map[k])
       /\ \A i \in DOMAIN PDO_Map[k] :
            PDO_Map[k][i].arrays = Arrays(PDO_Map[k][i].tables)
  /\ \A n \in DOMAIN users :
       /\ users[n].key \in DOMAIN PDO_Map
       /\ users[n].id \in DOMAIN PDO_Map[users[n].key]
       /\ users[n].sm \in SyncManagers
       /\ Same(PDO_Map[users[n].key][users[n].id].tables, Tables(users[n].sm))

LEMMA SameArrays ==
  ASSUME NEW t, NEW u, Same(t, u)
  PROVE  Arrays(t) = Arrays(u)
BY DEF Same, Arrays

LEMMA TablesStep ==
  ASSUME TablesInv, NEW sm \in SyncManagers, NEW key, NEW t,
         sm # <<>> => t = Tables(sm), GetSyncManagerConfigId(sm, key, t)
  PROVE  TablesInv'
<1> DEFINE maps == Known(PDO_Map, key)
           same == {i \in DOMAIN maps : Same(maps[i].tables, t)}
           id == IF same # {} THEN CHOOSE i \in same : \A k \in same : i <= k
                 ELSE Len(maps) + 1
           new == [tables |-> t, arrays |-> Arrays(t)]
           added == IF same # {} THEN maps ELSE Append(maps, new)
           user == [sm |-> sm, key |-> key, id |-> id]
<1>1. CASE sm = <<>>
  <2>1. UNCHANGED <<PDO_Map, users>>
    BY <1>1 DEF GetSyncManagerConfigId
  <2> QED
    BY <2>1 DEF TablesInv
<1>2. CASE sm # <<>>
  <2>1. /\ PDO_Map' = [k \in DOMAIN PDO_Map \cup {key} |->
                         IF k = key THEN added ELSE PDO_Map[k]]
        /\ users' = Append(users, user) /\ t = Tables(sm)
    BY <1>2, Zenon DEF GetSyncManagerConfigId
  <2>2. /\ Array(maps)
        /\ \A i \in DOMAIN maps : maps[i].arrays = Arrays(maps[i].tables)
    <3>1. CASE key \in DOMAIN PDO_Map
      BY <3>1 DEF Known, TablesInv
    <3>2. CASE key \notin DOMAIN PDO_Map
      <4>1. maps = <<>> /\ Array(<<>>) /\ DOMAIN <<>> = {}
        BY <3>2 DEF Known, Array
      <4> QED
        BY <4>1
    <3> QED
      BY <3>1, <3>2
  <2> HIDE DEF maps
  <2>3. Len(maps) \in Nat /\ DOMAIN maps = 1..Len(maps)
    BY <2>2, AppendArray
  <2>4. /\ Array(added) /\ DOMAIN maps \subseteq DOMAIN added
        /\ \A i \in DOMAIN maps : added[i] = maps[i]
        /\ \A i \in DOMAIN added : added[i].arrays = Arrays(added[i].tables)
        /\ id \in DOMAIN added /\ Same(added[id].tables, t)
    <3>1. CASE same # {}
      <4>1. id \in same
        <5>1. same \in SUBSET Nat
          BY <2>3
        <5>2. \E i \in same : \A k \in same : i <= k
          <6> HIDE DEF same
          <6> QED
            BY <3>1, <5>1, LeastElement
        <5> HIDE DEF same
        <5> QED
          BY <3>1, <5>2
      <4>2. added = maps
        BY <3>1
      <4> HIDE DEF id, added
      <4> QED
        BY <2>2, <4>1, <4>2
    <3>2. CASE same = {}
      <4>1. added = Append(maps, new) /\ id = Len(maps) + 1
        BY <3>2
      <4>2. new.tables = t /\ new.arrays = Arrays(t)
        OBVIOUS
      <4> HIDE DEF id, added, new
      <4>3. /\ Array(added) /\ DOMAIN added = 1..(Len(maps) + 1)
            /\ added[Len(maps) + 1] = new
            /\ \A i \in 1..Len(maps) : added[i] = maps[i]
        BY <2>2, <4>1, AppendArray
      <4>4. Same(t, t)
        BY DEF Same
      <4>5. ASSUME NEW i \in DOMAIN added
            PROVE  added[i].arrays = Arrays(added[i].tables)
        <5>1. CASE i \in 1..Len(maps)
          BY <2>2, <2>3, <4>3, <5>1
        <5>2. CASE i = Len(maps) + 1
          BY <4>2, <4>3, <5>2
        <5> QED
          BY <2>3, <4>3, <5>1, <5>2
      <4> QED
        BY <2>2, <2>3, <4>1, <4>2, <4>3, <4>4, <4>5
    <3> QED
      BY <3>1, <3>2
  <2>5. user.sm = sm /\ user.key = key /\ user.id = id
    OBVIOUS
  <2> HIDE DEF id, added, user, same, new
  <2>6. /\ DOMAIN PDO_Map' = DOMAIN PDO_Map \cup {key} /\ PDO_Map'[key] = added
        /\ \A k \in DOMAIN PDO_Map \ {key} : PDO_Map'[k] = PDO_Map[k]
    BY <2>1
  <2>7. ASSUME NEW k \in DOMAIN PDO_Map'
        PROVE  /\ Array(PDO_Map'[k])
               /\ \A i \in DOMAIN PDO_Map'[k] :
                    PDO_Map'[k][i].arrays = Arrays(PDO_Map'[k][i].tables)
    <3>1. CASE k = key
      BY <2>4, <2>6, <3>1
    <3>2. CASE k # key
      BY <2>6, <3>2 DEF TablesInv
    <3> QED
      BY <3>1, <3>2
  <2>8. ASSUME NEW k \in DOMAIN PDO_Map, NEW i \in DOMAIN PDO_Map[k]
        PROVE  i \in DOMAIN PDO_Map'[k] /\ PDO_Map'[k][i] = PDO_Map[k][i]
    <3>1. CASE k = key
      <4>1. maps = PDO_Map[k]
        BY <3>1 DEF maps, Known
      <4> QED
        BY <2>4, <2>6, <3>1, <4>1
    <3>2. CASE k # key
      BY <2>6, <3>2
    <3> QED
      BY <3>1, <3>2
  <2>9. /\ Array(users') /\ DOMAIN users' = 1..(Len(users) + 1)
        /\ users'[Len(users) + 1] = user
        /\ Len(users) \in Nat /\ DOMAIN users = 1..Len(users)
        /\ \A n \in 1..Len(users) : users'[n] = users[n]
    BY <2>1, AppendArray DEF TablesInv
  <2>10. ASSUME NEW n \in DOMAIN users'
         PROVE  /\ users'[n].key \in DOMAIN PDO_Map'
                /\ users'[n].id \in DOMAIN PDO_Map'[users'[n].key]
                /\ users'[n].sm \in SyncManagers
                /\ Same(PDO_Map'[users'[n].key][users'[n].id].tables,
                        Tables(users'[n].sm))
    <3>1. CASE n = Len(users) + 1
      BY <2>1, <2>4, <2>5, <2>6, <2>9, <3>1
    <3>2. CASE n \in 1..Len(users)
      <4>1. /\ users'[n] = users[n] /\ n \in DOMAIN users
        BY <2>9, <3>2
      <4>2. /\ users[n].key \in DOMAIN PDO_Map
            /\ users[n].id \in DOMAIN PDO_Map[users[n].key]
            /\ users[n].sm \in SyncManagers
            /\ Same(PDO_Map[users[n].key][users[n].id].tables,
                    Tables(users[n].sm))
        BY <4>1 DEF TablesInv
      <4>3. /\ users[n].id \in DOMAIN PDO_Map'[users[n].key]
            /\ PDO_Map'[users[n].key][users[n].id]
                 = PDO_Map[users[n].key][users[n].id]
            /\ users[n].key \in DOMAIN PDO_Map'
        BY <2>6, <2>8, <4>2
      <4> QED
        BY <4>1, <4>2, <4>3
    <3> QED
      BY <2>9, <3>1, <3>2
  <2> QED
    BY <2>7, <2>9, <2>10 DEF TablesInv
<1> QED
  BY <1>1, <1>2

-----------------------------------------------------------------------------
(* What the later methods leave behind.                                    *)

AfterSettle == pc \in {"rtw", "start", "outputs", "update", "done"}
AfterRtw == pc \in {"start", "outputs", "update", "done"}
AfterStart == pc \in {"outputs", "update", "done"}

GenFields == {"sdo", "soe", "dc", "map", "outputs", "filters", "inputs"}

WorkWidthsInv ==
  AfterSettle =>
    /\ \A i \in DOMAIN inType : inType[i] # DynamicType /\ inWidth[i] # Dynamic
    /\ dwork = DWorks /\ rtp = RuntimeParams

CodeInv ==
  /\ DOMAIN gen = GenFields
  /\ AfterStart =>
       /\ gen.sdo = GetSdoConfig /\ gen.soe = GetSoeConfig
       /\ gen.dc = GetDcOpModeConfigId /\ gen.map = GetPdoMap
  /\ pc \in {"update", "done"} => gen.outputs = OutputCode
  /\ Done => /\ gen.inputs = InputCode
             /\ gen.filters = IF rtw.FilterCount # 0 THEN FilterCode ELSE {}

LEMMA DWorksKept == UNCHANGED <<slave, inWidth>> => DWorks' = DWorks
BY DEF DWorks, Ports, Widths

LEMMA ParamsKept == UNCHANGED <<cfg, slave>> => RuntimeParams' = RuntimeParams
BY DEF RuntimeParams, Ports

LEMMA WorkWidthsKept ==
  ASSUME WorkWidthsInv, UNCHANGED <<cfg, slave, sizes, dwork, rtp>>,
         AfterSettle' => AfterSettle
  PROVE  WorkWidthsInv'
<1>1. DWorks' = DWorks /\ RuntimeParams' = RuntimeParams
  BY DWorksKept, ParamsKept DEF sizes
<1> QED
  BY <1>1 DEF WorkWidthsInv, sizes

LEMMA SettingsKept ==
  UNCHANGED <<cfg, rtw>> =>
    /\ GetSdoConfig' = GetSdoConfig /\ GetSoeConfig' = GetSoeConfig
    /\ GetDcOpModeConfigId' = GetDcOpModeConfigId
BY DEF GetSdoConfig, GetSoeConfig, GetDcOpModeConfigId, SFcnParamSettings,
       CycleTime0, T1, SampleTime

LEMMA MapKept ==
  UNCHANGED <<slave, inWidth, rtw>> => GetPdoMap' = GetPdoMap
BY DEF GetPdoMap, InputPort, OutputPort, SFcnParamSettings, InputWidth

LEMMA OutputsKept ==
  UNCHANGED <<slave, rtw>> => OutputCode' = OutputCode /\ FilterCode' = FilterCode
BY DEF OutputCode, FilterCode, Filtered, OutputPort, SFcnParamSettings,
       FilterOffset, OutWidth, Statement, Setting

LEMMA InputsKept ==
  UNCHANGED <<connected, dwork, inWidth, rtw>> => InputCode' = InputCode
BY DEF InputCode, InputPort, SFcnParamSettings, InputStatement, InputWidth,
       Statement, Setting

LEMMA RecordsKept ==
  ASSUME UNCHANGED <<cfg, slave>>, NEW w, RecordsRight(w)
  PROVE  RecordsRight(w)'
BY DEF RecordsRight, NoClockMode, SdoRecords, SoeRecords

LEMMA CodeKept ==
  ASSUME CodeInv, UNCHANGED <<cfg, slave, sizes, dwork, rtw, gen>>, pc' = pc
  PROVE  CodeInv'
<1>1. UNCHANGED <<connected, inWidth>>
  BY DEF sizes
<1>2. /\ GetSdoConfig' = GetSdoConfig /\ GetSoeConfig' = GetSoeConfig
      /\ GetDcOpModeConfigId' = GetDcOpModeConfigId /\ GetPdoMap' = GetPdoMap
      /\ OutputCode' = OutputCode /\ FilterCode' = FilterCode
      /\ InputCode' = InputCode
  BY <1>1, SettingsKept, MapKept, OutputsKept, InputsKept
<1> QED
  BY <1>2 DEF CodeInv, AfterStart, Done

LEMMA CodeEarlier ==
  ASSUME CodeInv, gen' = gen, ~AfterStart'
  PROVE  CodeInv'
BY DEF CodeInv, AfterStart, Done

RecordsInv == AfterRtw => RecordsRight(rtw)

LEMMA RecordsInvKept ==
  ASSUME RecordsInv, UNCHANGED <<cfg, slave, rtw>>, AfterRtw' => AfterRtw
  PROVE  RecordsInv'
<1>1. ASSUME AfterRtw PROVE RecordsRight(rtw)'
  <2>1. RecordsRight(rtw)
    BY <1>1 DEF RecordsInv
  <2> QED
    BY <2>1, RecordsKept DEF RecordsRight, NoClockMode, SdoRecords, SoeRecords
<1> QED
  BY <1>1 DEF RecordsInv

LaterInv == WorkWidthsInv /\ RecordsInv /\ CodeInv /\ TablesInv

LEMMA LaterInit == Init => LaterInv
<1> SUFFICES ASSUME Init PROVE LaterInv
  OBVIOUS
<1>1. pc = "sizes" /\ gen = NoGen /\ PDO_Map = <<>> /\ users = <<>>
  BY DEF Init
<1>2. WorkWidthsInv /\ RecordsInv
  BY <1>1 DEF WorkWidthsInv, RecordsInv, AfterSettle, AfterRtw
<1>3. CodeInv
  BY <1>1 DEF CodeInv, AfterStart, Done, NoGen, GenFields
<1>4. TablesInv
  <2>1. Array(<<>>) /\ DOMAIN <<>> = {}
    BY DEF Array
  <2> QED
    BY <1>1, <2>1 DEF TablesInv
<1> QED
  BY <1>2, <1>3, <1>4 DEF LaterInv

LEMMA TablesKept ==
  ASSUME TablesInv, UNCHANGED <<PDO_Map, users>>
  PROVE  TablesInv'
BY DEF TablesInv

\* A step before the code generator, and one to an error.
LEMMA LaterEarlier ==
  ASSUME LaterInv, UNCHANGED <<gen, PDO_Map, users>>, ~AfterSettle'
  PROVE  LaterInv'
<1>1. ~AfterRtw' /\ ~AfterStart'
  BY DEF AfterSettle, AfterRtw, AfterStart
<1> QED
  BY <1>1, CodeEarlier, TablesKept
  DEF LaterInv, WorkWidthsInv, RecordsInv

LEMMA LaterNext ==
  ASSUME SizesInv, LaterInv, [Next]_vars
  PROVE  LaterInv'
<1>0. WorkWidthsInv /\ RecordsInv /\ CodeInv /\ TablesInv
  BY DEF LaterInv
<1>1. ASSUME Fail PROVE LaterInv'
  BY <1>1, LaterEarlier DEF Fail, AfterSettle
<1>2. CASE mdlInitializeSizes
  BY <1>2, LaterEarlier DEF mdlInitializeSizes, AfterSettle
<1>3. CASE mdlInitializeSizesFails
  BY <1>1, <1>3 DEF mdlInitializeSizesFails
<1>4. ASSUME NEW p \in DOMAIN inType, NEW id \in InputTypes,
             mdlSetInputPortDataType(p, id) \/ mdlSetInputPortDataTypeFails(p, id)
      PROVE  LaterInv'
  <2>1. CASE mdlSetInputPortDataType(p, id)
    BY <2>1, LaterEarlier DEF mdlSetInputPortDataType, AfterSettle
  <2> QED
    BY <1>1, <1>4, <2>1 DEF mdlSetInputPortDataTypeFails
<1>5. ASSUME NEW p \in DOMAIN inType,
             NEW width \in 1..(Len(slave.i_port[p].pdo) + 1),
             mdlSetInputPortWidth(p, width)
      PROVE  LaterInv'
  BY <1>5, LaterEarlier DEF mdlSetInputPortWidth, AfterSettle
<1>6. CASE mdlSetDefaultPortDataTypes
  BY <1>6, LaterEarlier DEF mdlSetDefaultPortDataTypes, AfterSettle
<1>7. CASE mdlSetDefaultPortDimensionInfo
  BY <1>7, LaterEarlier DEF mdlSetDefaultPortDimensionInfo, AfterSettle
<1>8. CASE mdlSetWorkWidths
  <2>1. /\ pc' = "rtw" /\ dwork' = DWorks /\ rtp' = RuntimeParams
        /\ UNCHANGED <<cfg, slave, sizes, rtw, gen, PDO_Map, users>>
        /\ \A i \in DOMAIN inType :
             inType[i] # DynamicType /\ inWidth[i] # Dynamic
    BY <1>8 DEF mdlSetWorkWidths
  <2>2. DWorks' = DWorks /\ RuntimeParams' = RuntimeParams
    BY <2>1, DWorksKept, ParamsKept DEF sizes
  <2>3. WorkWidthsInv'
    BY <2>1, <2>2 DEF WorkWidthsInv, sizes
  <2>4. ~AfterRtw' /\ ~AfterStart'
    BY <2>1 DEF AfterRtw, AfterStart
  <2>5. CodeInv' /\ TablesInv'
    BY <1>0, <2>1, <2>4, CodeEarlier, TablesKept
  <2> QED
    BY <2>3, <2>4, <2>5 DEF LaterInv, RecordsInv
<1>9. CASE mdlRTW
  <2>1. /\ pc = "rtw" /\ pc' = "start" /\ rtw' = Rtw
        /\ UNCHANGED <<cfg, slave, sizes, dwork, rtp, gen, PDO_Map, users>>
    BY <1>9 DEF mdlRTW
  <2>2. WorkWidthsInv'
    BY <1>0, <2>1, WorkWidthsKept DEF AfterSettle
  <2>3. CodeInv' /\ TablesInv'
    BY <1>0, <2>1, CodeEarlier, TablesKept DEF AfterStart
  <2>4. RecordsRight(Rtw)
    <3>1. Array(cfg.sdo) /\ Array(cfg.soe)
      BY ConfigsAssumption DEF SizesInv
    <3>2. Len(slave.o_port) \in Nat /\ Len(slave.i_port) \in Nat
      BY AppendArray DEF SizesInv, Counting
    <3> QED
      BY <3>1, <3>2, RtwFacts
  <2>5. RecordsRight(rtw)'
    BY <2>1, <2>4 DEF RecordsRight, NoClockMode, SdoRecords, SoeRecords
  <2> QED
    BY <2>2, <2>3, <2>5 DEF LaterInv, RecordsInv
<1>10. ASSUME NEW o \in Others, StartOther(o) PROVE LaterInv'
  <2>1. /\ GetSyncManagerConfigId(o.sm, o.key, Tables(o.sm))
        /\ pc' = pc /\ UNCHANGED <<cfg, slave, sizes, dwork, rtp, rtw, gen>>
    BY <1>10 DEF StartOther
  <2>2. o.sm \in SyncManagers
    BY OthersAssumption
  <2>3. TablesInv'
    BY <1>0, <2>1, <2>2, TablesStep
  <2>4. WorkWidthsInv' /\ RecordsInv' /\ CodeInv'
    BY <1>0, <2>1, WorkWidthsKept, RecordsInvKept, CodeKept
    DEF AfterSettle, AfterRtw
  <2> QED
    BY <2>3, <2>4 DEF LaterInv
<1>11. CASE Start
  <2>1. /\ pc = "start" /\ pc' = "outputs"
        /\ GetSyncManagerConfigId(cfg.sm, cfg.key, rtw.tables)
        /\ gen' = [gen EXCEPT !.sdo = GetSdoConfig, !.soe = GetSoeConfig,
                              !.dc = GetDcOpModeConfigId, !.map = GetPdoMap]
        /\ UNCHANGED <<cfg, slave, sizes, dwork, rtp, rtw>>
    BY <1>11 DEF Start
  <2>2. WorkWidthsInv' /\ RecordsInv'
    BY <1>0, <2>1, WorkWidthsKept, RecordsInvKept DEF AfterSettle, AfterRtw
  <2>3. TablesInv'
    <3>1. RecordsRight(rtw)
      BY <1>0, <2>1 DEF RecordsInv, AfterRtw
    <3>2. cfg.sm # <<>> => rtw.tables = Tables(cfg.sm)
      BY <3>1 DEF RecordsRight
    <3>3. cfg.sm \in SyncManagers
      BY ConfigsAssumption DEF SizesInv
    <3> QED
      BY <1>0, <2>1, <3>2, <3>3, TablesStep
  <2>4. CodeInv'
    <3>1. UNCHANGED <<cfg, slave, inWidth, rtw>>
      BY <2>1 DEF sizes
    <3>2. /\ GetSdoConfig' = GetSdoConfig /\ GetSoeConfig' = GetSoeConfig
          /\ GetDcOpModeConfigId' = GetDcOpModeConfigId /\ GetPdoMap' = GetPdoMap
      BY <3>1, SettingsKept, MapKept
    <3>3. DOMAIN gen = GenFields
      BY <1>0 DEF CodeInv
    <3>4. /\ DOMAIN gen' = GenFields
          /\ gen'.sdo = GetSdoConfig /\ gen'.soe = GetSoeConfig
          /\ gen'.dc = GetDcOpModeConfigId /\ gen'.map = GetPdoMap
      BY <2>1, <3>3 DEF GenFields
    <3> QED
      BY <2>1, <3>2, <3>4 DEF CodeInv, Done
  <2> QED
    BY <2>2, <2>3, <2>4 DEF LaterInv
<1>12. CASE Outputs
  <2>1. /\ pc = "outputs" /\ pc' = "update"
        /\ gen' = [gen EXCEPT !.outputs = OutputCode]
        /\ UNCHANGED <<cfg, slave, sizes, dwork, rtp, rtw, PDO_Map, users>>
    BY <1>12 DEF Outputs
  <2>2. WorkWidthsInv' /\ RecordsInv' /\ TablesInv'
    BY <1>0, <2>1, WorkWidthsKept, RecordsInvKept, TablesKept
    DEF AfterSettle, AfterRtw
  <2>3. CodeInv'
    <3>1. UNCHANGED <<cfg, slave, inWidth, rtw>>
      BY <2>1 DEF sizes
    <3>2. /\ GetSdoConfig' = GetSdoConfig /\ GetSoeConfig' = GetSoeConfig
          /\ GetDcOpModeConfigId' = GetDcOpModeConfigId /\ GetPdoMap' = GetPdoMap
          /\ OutputCode' = OutputCode
      BY <3>1, SettingsKept, MapKept, OutputsKept
    <3>3. /\ DOMAIN gen = GenFields
          /\ gen.sdo = GetSdoConfig /\ gen.soe = GetSoeConfig
          /\ gen.dc = GetDcOpModeConfigId /\ gen.map = GetPdoMap
      BY <1>0, <2>1 DEF CodeInv, AfterStart
    <3>4. /\ DOMAIN gen' = GenFields /\ gen'.outputs = OutputCode
          /\ gen'.sdo = gen.sdo /\ gen'.soe = gen.soe
          /\ gen'.dc = gen.dc /\ gen'.map = gen.map
      BY <2>1, <3>3 DEF GenFields
    <3> QED
      BY <2>1, <3>2, <3>3, <3>4 DEF CodeInv, Done
  <2> QED
    BY <2>2, <2>3 DEF LaterInv
<1>13. CASE Update
  <2> DEFINE filters == IF rtw.FilterCount # 0 THEN FilterCode ELSE {}
  <2>1. /\ pc = "update" /\ pc' = "done"
        /\ gen' = [gen EXCEPT !.inputs = InputCode, !.filters = filters]
        /\ UNCHANGED <<cfg, slave, sizes, dwork, rtp, rtw, PDO_Map, users>>
    BY <1>13 DEF Update
  <2>2. WorkWidthsInv' /\ RecordsInv' /\ TablesInv'
    BY <1>0, <2>1, WorkWidthsKept, RecordsInvKept, TablesKept
    DEF AfterSettle, AfterRtw
  <2>3. CodeInv'
    <3>1. UNCHANGED <<cfg, slave, connected, dwork, inWidth, rtw>>
      BY <2>1 DEF sizes
    <3>2. /\ GetSdoConfig' = GetSdoConfig /\ GetSoeConfig' = GetSoeConfig
          /\ GetDcOpModeConfigId' = GetDcOpModeConfigId /\ GetPdoMap' = GetPdoMap
          /\ OutputCode' = OutputCode /\ FilterCode' = FilterCode
          /\ InputCode' = InputCode
      BY <3>1, SettingsKept, MapKept, OutputsKept, InputsKept
    <3>3. /\ DOMAIN gen = GenFields
          /\ gen.sdo = GetSdoConfig /\ gen.soe = GetSoeConfig
          /\ gen.dc = GetDcOpModeConfigId /\ gen.map = GetPdoMap
          /\ gen.outputs = OutputCode
      BY <1>0, <2>1 DEF CodeInv, AfterStart
    <3>4. /\ DOMAIN gen' = GenFields /\ gen'.outputs = gen.outputs
          /\ gen'.sdo = gen.sdo /\ gen'.soe = gen.soe
          /\ gen'.dc = gen.dc /\ gen'.map = gen.map
          /\ gen'.inputs = InputCode /\ gen'.filters = filters
      BY <2>1, <3>3 DEF GenFields
    <3> QED
      BY <2>1, <3>2, <3>3, <3>4 DEF CodeInv, Done
  <2> QED
    BY <2>2, <2>3 DEF LaterInv
<1>14. CASE UpdateFails
  BY <1>1, <1>14 DEF UpdateFails
<1>15. CASE Ended \/ UNCHANGED vars
  <2>1. pc' = pc
        /\ UNCHANGED <<cfg, slave, sizes, dwork, rtp, rtw, gen, PDO_Map, users>>
    BY <1>15 DEF Ended, vars
  <2>2. WorkWidthsInv' /\ RecordsInv' /\ CodeInv' /\ TablesInv'
    BY <1>0, <2>1, WorkWidthsKept, RecordsInvKept, CodeKept, TablesKept
    DEF AfterSettle, AfterRtw
  <2> QED
    BY <2>2 DEF LaterInv
<1> QED
  BY <1>2, <1>3, <1>4, <1>5, <1>6, <1>7, <1>8, <1>9, <1>10, <1>11, <1>12,
     <1>13, <1>14, <1>15 DEF Next

\* The two inductive invariants: while the block is settled, and after.
THEOREM InvAlways == Spec => [](SizesInv /\ LaterInv)
<1>1. Init => SizesInv /\ LaterInv
  BY SizesInit, LaterInit
<1>2. SizesInv /\ LaterInv /\ [Next]_vars => (SizesInv /\ LaterInv)'
  BY SizesNext, LaterNext
<1> QED
  BY <1>1, <1>2, PTL DEF Spec

\* Every block of the diagram has sync manager tables that say what it was
\* configured with, however many blocks were generated before it and whichever
\* of them have tables like its own.
THEOREM TablesFaithfulAlways == Spec => []TablesFaithful
<1>1. TablesInv => TablesFaithful
  <2> SUFFICES ASSUME TablesInv, NEW u \in Range(users)
               PROVE  ReadBack(PDO_Map[u.key][u.id].arrays) = Meant(u.sm)
    BY DEF TablesFaithful
  <2>1. PICK n \in DOMAIN users : u = users[n]
    BY DEF Range
  <2> DEFINE m == PDO_Map[u.key][u.id]
  <2>2. /\ m.arrays = Arrays(m.tables) /\ u.sm \in SyncManagers
        /\ Same(m.tables, Tables(u.sm))
    BY <2>1 DEF TablesInv
  <2>3. m.arrays = Arrays(Tables(u.sm))
    BY <2>2, SameArrays
  <2> HIDE DEF m
  <2>4. ReadBack(m.arrays) = Meant(u.sm)
    BY <2>2, <2>3, ReadBackTables
  <2> QED
    BY <2>4 DEF m
<1> QED
  BY <1>1, InvAlways, PTL DEF LaterInv

-----------------------------------------------------------------------------
(* The conversions of the generated program.                               *)

LEMMA Recorded ==
  ASSUME SizesInv, RecordsInv, AfterRtw
  PROVE  /\ RtwOK(rtw)
         /\ DOMAIN rtw.OutputPortIdx = DOMAIN slave.o_port
         /\ DOMAIN rtw.InputPortIdx = DOMAIN slave.i_port
         /\ \A i \in DOMAIN slave.o_port :
              PortRecord(rtw, OutputPort(i), slave.o_port[i])
         /\ \A i \in DOMAIN slave.i_port :
              PortRecord(rtw, InputPort(i), slave.i_port[i])
<1>1. /\ RtwOK(rtw)
      /\ PortsListed(rtw, "OutputPortIdx", slave.o_port, Len(slave.o_port))
      /\ PortsListed(rtw, "InputPortIdx", slave.i_port, Len(slave.i_port))
  BY DEF RecordsInv, RecordsRight
<1>2. /\ Array(rtw["OutputPortIdx"]) /\ Array(rtw["InputPortIdx"])
  BY <1>1 DEF RtwOK, Lists
<1>3. /\ DOMAIN slave.o_port = 1..Len(slave.o_port)
      /\ DOMAIN slave.i_port = 1..Len(slave.i_port)
  BY AppendArray DEF SizesInv, Counting
<1>4. /\ DOMAIN rtw["OutputPortIdx"] = 1..Len(slave.o_port)
      /\ DOMAIN rtw["InputPortIdx"] = 1..Len(slave.i_port)
  BY <1>1, <1>2, AppendArray DEF PortsListed
<1>5. /\ \A i \in 1..Len(slave.o_port) :
           PortRecord(rtw, rtw.settings[rtw["OutputPortIdx"][i] + 1],
                      slave.o_port[i])
      /\ \A i \in 1..Len(slave.i_port) :
           PortRecord(rtw, rtw.settings[rtw["InputPortIdx"][i] + 1],
                      slave.i_port[i])
  BY <1>1 DEF PortsListed, PortNoted
<1> QED
  BY <1>1, <1>3, <1>4, <1>5 DEF OutputPort, InputPort, SFcnParamSettings

\* The number of a parameter leads to what was configured.
LEMMA SettingMeans ==
  ASSUME NEW n, NEW p, RtwOK(rtw), ParamNoted(rtw, n, p)
  PROVE  Means(Setting(n), p) /\ (n # Untold <=> IsSet(p))
<1>1. CASE ~IsSet(p)
  <2>1. n = Untold /\ Setting(n) = NoSetting
    BY <1>1 DEF ParamNoted, Setting
  <2> QED
    BY <1>1, <2>1 DEF Means
<1>2. CASE IsSet(p)
  <2>1. n \in 0..(Len(rtw.settings) - 1) /\ rtw.settings[n + 1] = ParamRecord(p)
    BY <1>2 DEF ParamNoted, Noted
  <2>2. Len(rtw.settings) \in Nat
    BY Lengths
  <2>3. n # Untold
    BY <2>1, <2>2 DEF Untold
  <2>4. Setting(n) = ParamRecord(p)
    BY <2>1, <2>3 DEF Setting, SFcnParamSettings
  <2> QED
    BY <1>2, <2>3, <2>4 DEF Means, ParamRecord
<1> QED
  BY <1>1, <1>2

LEMMA NoParamMeans == Means(NoSetting, NoParam)
BY NoParamFacts DEF Means

\* Applies, or what the statement of a Boolean input has: no parameters.
AppliesTo(s, port, plain) ==
  /\ s.dwork = port.dwork_idx
  /\ Means(s.gain, IF plain THEN NoParam ELSE port.gain)
  /\ Means(s.offset, IF plain THEN NoParam ELSE port.offset)
  /\ Means(s.filter, port.filter)
  /\ s.fullscale = IF plain THEN 0 ELSE port.fullscale

LEMMA AppliesIs ==
  \A s, port : AppliesTo(s, port, FALSE) <=> Applies(s, port)
BY DEF AppliesTo, Applies

\* What the statement for a port says.
StatementRight(s, port, i, width) ==
  /\ s.port = i /\ s.width = width /\ AppliesTo(s, port, FALSE)

LEMMA StatementOf ==
  ASSUME NEW r, NEW port, RtwOK(rtw), PortRecord(rtw, r, port), NEW i, NEW width
  PROVE  /\ StatementRight(Statement(r, i, width), port, i, width)
         /\ Statement(r, i, width).state = Untold
         /\ DOMAIN Statement(r, i, width)
              = {"port", "dwork", "width", "gain", "offset", "filter",
                 "fullscale", "state"}
         /\ r.DWorkIndex = port.dwork_idx
         /\ (r.Param[3] # Untold <=> IsSet(port.filter))
<1> DEFINE s == Statement(r, i, width)
<1>1. /\ s.port = i /\ s.width = width /\ s.dwork = r.DWorkIndex
      /\ s.gain = Setting(r.Param[1]) /\ s.offset = Setting(r.Param[2])
      /\ s.filter = Setting(r.Param[3]) /\ s.fullscale = r.FullScale
      /\ s.state = Untold
      /\ DOMAIN s = {"port", "dwork", "width", "gain", "offset", "filter",
                     "fullscale", "state"}
  BY DEF Statement
<1>2. /\ r.DWorkIndex = port.dwork_idx /\ r.FullScale = port.fullscale
      /\ ParamNoted(rtw, r.Param[1], port.gain)
      /\ ParamNoted(rtw, r.Param[2], port.offset)
      /\ ParamNoted(rtw, r.Param[3], port.filter)
  BY DEF PortRecord
<1>3. /\ Means(s.gain, port.gain) /\ Means(s.offset, port.offset)
      /\ Means(s.filter, port.filter)
      /\ (r.Param[3] # Untold <=> IsSet(port.filter))
  BY <1>1, <1>2, SettingMeans
<1> HIDE DEF s
<1>4. AppliesTo(s, port, FALSE)
  BY <1>1, <1>2, <1>3 DEF AppliesTo
<1> QED
  BY <1>1, <1>2, <1>3, <1>4 DEF StatementRight, s

\* The statements of the outputs and of the filters.
LEMMA FilteredPorts ==
  ASSUME SizesInv, RecordsInv, AfterRtw, NEW i \in DOMAIN slave.o_port
  PROVE  /\ Filtered(i) <=> IsSet(slave.o_port[i].filter)
         /\ OutputPort(i).DWorkIndex = slave.o_port[i].dwork_idx
         /\ OutputPort(i).DWorkIndex # 0 <=> Converted(slave.o_port[i])
<1>1. RtwOK(rtw) /\ PortRecord(rtw, OutputPort(i), slave.o_port[i])
  BY Recorded
<1>2. /\ OutputPort(i).DWorkIndex = slave.o_port[i].dwork_idx
      /\ OutputPort(i).Param[3] # Untold <=> IsSet(slave.o_port[i].filter)
  BY <1>1, StatementOf
<1>3. PortMade(cfg, slave.o_port[i], "in")
  <2>1. Sized
    BY DEF AfterRtw, Sized
  <2> QED
    BY <2>1 DEF SizesInv, SizesRight, OutputsMade
<1>4. slave.o_port[i].dwork_idx # 0 <=> Converted(slave.o_port[i])
  BY <1>3 DEF PortMade
<1> QED
  BY <1>2, <1>4 DEF Filtered

\* Each statement of Outputs is of one port with a conversion, and the other
\* way round; a filtered one is a copy of the states.
LEMMA OutputStatements ==
  ASSUME SizesInv, RecordsInv, AfterRtw
  PROVE  /\ \A s \in OutputCode : \E i \in DOMAIN slave.o_port :
              /\ Converted(slave.o_port[i]) /\ s.port = i /\ s.width = OutWidth(i)
              /\ IF Filtered(i)
                 THEN s = [port |-> i, state |-> FilterOffset(i),
                           width |-> OutWidth(i)]
                 ELSE /\ StatementRight(s, slave.o_port[i], i, OutWidth(i))
                      /\ s.state = Untold
         /\ \A i \in DOMAIN slave.o_port : Converted(slave.o_port[i]) =>
              \E s \in OutputCode :
                s.port = i /\ (Filtered(i) =>
                  s = [port |-> i, state |-> FilterOffset(i),
                       width |-> OutWidth(i)])
<1> DEFINE Copy(i) == [port |-> i, state |-> FilterOffset(i),
                       width |-> OutWidth(i)]
           Code(i) == IF Filtered(i) THEN Copy(i)
                      ELSE Statement(OutputPort(i), i, OutWidth(i))
           Is == {k \in DOMAIN rtw.OutputPortIdx : OutputPort(k).DWorkIndex # 0}
<1>1. OutputCode = {Code(i) : i \in Is}
  BY DEF OutputCode
<1>2. \A i : Copy(i).port = i /\ Copy(i).width = OutWidth(i)
  OBVIOUS
<1>3. /\ Is \subseteq DOMAIN slave.o_port
      /\ \A i \in DOMAIN slave.o_port : i \in Is <=> Converted(slave.o_port[i])
  BY Recorded, FilteredPorts
<1> HIDE DEF Copy, Is
<1>4. ASSUME NEW i \in Is
      PROVE  /\ Code(i).port = i /\ Code(i).width = OutWidth(i)
             /\ IF Filtered(i) THEN Code(i) = Copy(i)
                ELSE /\ StatementRight(Code(i), slave.o_port[i], i, OutWidth(i))
                     /\ Code(i).state = Untold
  <2>1. CASE Filtered(i)
    BY <1>2, <2>1
  <2>2. CASE ~Filtered(i)
    <3> DEFINE t == Statement(OutputPort(i), i, OutWidth(i))
    <3>1. RtwOK(rtw) /\ PortRecord(rtw, OutputPort(i), slave.o_port[i])
      BY <1>3, Recorded
    <3>2. /\ StatementRight(t, slave.o_port[i], i, OutWidth(i))
          /\ t.state = Untold
      BY <3>1, StatementOf
    <3> HIDE DEF t
    <3>3. Code(i) = t
      BY <2>2 DEF t
    <3> QED
      BY <2>2, <3>2, <3>3 DEF StatementRight
  <2> QED
    BY <2>1, <2>2
<1> HIDE DEF Code
<1>5. ASSUME NEW s \in OutputCode
      PROVE  \E i \in DOMAIN slave.o_port :
               /\ Converted(slave.o_port[i])
               /\ s.port = i /\ s.width = OutWidth(i)
               /\ IF Filtered(i) THEN s = Copy(i)
                  ELSE /\ StatementRight(s, slave.o_port[i], i, OutWidth(i))
                       /\ s.state = Untold
  <2>1. PICK i \in Is : s = Code(i)
    BY <1>1
  <2> QED
    BY <1>3, <1>4, <2>1
<1>6. ASSUME NEW i \in DOMAIN slave.o_port, Converted(slave.o_port[i])
      PROVE  \E s \in OutputCode : s.port = i /\ (Filtered(i) => s = Copy(i))
  <2>1. i \in Is /\ Code(i) \in OutputCode
    BY <1>1, <1>3, <1>6
  <2> QED
    BY <1>4, <2>1
<1> QED
  BY <1>5, <1>6 DEF Copy

LEMMA FilterStatements ==
  ASSUME SizesInv, RecordsInv, AfterRtw
  PROVE  /\ \A s \in FilterCode : \E i \in DOMAIN slave.o_port :
              /\ Filtered(i) /\ StatementRight(s, slave.o_port[i], i, OutWidth(i))
              /\ s.state = FilterOffset(i)
         /\ \A i \in DOMAIN slave.o_port : Filtered(i) =>
              \E s \in FilterCode :
                s.port = i /\ s.width = OutWidth(i) /\ s.state = FilterOffset(i)
<1> DEFINE Code(i) == [Statement(OutputPort(i), i, OutWidth(i))
                         EXCEPT !.state = FilterOffset(i)]
           Is == {k \in DOMAIN rtw.OutputPortIdx : Filtered(k)}
<1>1. FilterCode = {Code(i) : i \in Is}
  BY DEF FilterCode
<1>2. Is = {k \in DOMAIN slave.o_port : Filtered(k)}
  BY Recorded
<1> HIDE DEF Is
<1>3. ASSUME NEW i \in Is
      PROVE  /\ StatementRight(Code(i), slave.o_port[i], i, OutWidth(i))
             /\ Code(i).state = FilterOffset(i)
             /\ Code(i).port = i /\ Code(i).width = OutWidth(i)
  <2> DEFINE t == Statement(OutputPort(i), i, OutWidth(i))
             u == Code(i)
  <2>1. RtwOK(rtw) /\ PortRecord(rtw, OutputPort(i), slave.o_port[i])
    BY <1>2, Recorded
  <2>2. /\ StatementRight(t, slave.o_port[i], i, OutWidth(i))
        /\ DOMAIN t = {"port", "dwork", "width", "gain", "offset", "filter",
                       "fullscale", "state"}
    BY <2>1, StatementOf
  <2> HIDE DEF t
  <2>3. u = [t EXCEPT !.state = FilterOffset(i)]
    BY DEF t
  <2> HIDE DEF u
  <2>4. /\ u.state = FilterOffset(i) /\ u.port = t.port /\ u.dwork = t.dwork
        /\ u.width = t.width /\ u.gain = t.gain /\ u.offset = t.offset
        /\ u.filter = t.filter /\ u.fullscale = t.fullscale
    BY <2>2, <2>3
  <2>5. StatementRight(u, slave.o_port[i], i, OutWidth(i))
    BY <2>2, <2>4 DEF StatementRight, AppliesTo
  <2> QED
    BY <2>4, <2>5 DEF u, StatementRight
<1> HIDE DEF Code
<1>4. ASSUME NEW s \in FilterCode
      PROVE  \E i \in DOMAIN slave.o_port :
               /\ Filtered(i)
               /\ StatementRight(s, slave.o_port[i], i, OutWidth(i))
               /\ s.state = FilterOffset(i)
  <2>1. PICK i \in Is : s = Code(i)
    BY <1>1
  <2> QED
    BY <1>2, <1>3, <2>1
<1>5. ASSUME NEW i \in DOMAIN slave.o_port, Filtered(i)
      PROVE  \E s \in FilterCode :
               s.port = i /\ s.width = OutWidth(i) /\ s.state = FilterOffset(i)
  <2>1. i \in Is /\ Code(i) \in FilterCode
    BY <1>1, <1>2, <1>5
  <2> QED
    BY <1>3, <2>1
<1> QED
  BY <1>4, <1>5

LEMMA OutPorts ==
  ASSUME SizesInv, AfterRtw
  PROVE  /\ Len(slave.o_port) \in Nat
         /\ DOMAIN slave.o_port = 1..Len(slave.o_port)
         /\ \A i \in DOMAIN slave.o_port :
              PortMade(cfg, slave.o_port[i], "in") /\ OutWidth(i) \in Nat
         /\ FilterWidths(slave.o_port) \in Seq(Nat)
         /\ Len(FilterWidths(slave.o_port)) = Len(slave.o_port)
         /\ slave.filter_count = Sum(FilterWidths(slave.o_port))
<1>1. SizesRight
  BY DEF SizesInv, Sized, AfterRtw
<1>2. /\ Array(slave.o_port) /\ OutputsMade(cfg, slave)
      /\ slave.filter_count = Sum(FilterWidths(slave.o_port))
  BY <1>1 DEF SizesRight, SlaveCounts
<1>3. \A i \in DOMAIN slave.o_port :
        PortMade(cfg, slave.o_port[i], "in") /\ Array(slave.o_port[i].pdo)
  BY <1>2 DEF OutputsMade, PortMade, PortSound
<1>4. \A i \in DOMAIN slave.o_port : OutWidth(i) \in Nat
  BY <1>3, AppendArray DEF OutWidth
<1> QED
  BY <1>2, <1>3, <1>4, AppendArray, FilterWidthsType

\* The states of a filtered port begin behind those of the ports before.
LEMMA FilterOffsets ==
  ASSUME SizesInv, RecordsInv, AfterRtw
  PROVE  /\ \A i \in DOMAIN slave.o_port : FilterOffset(i) \in Nat
         /\ \A i \in DOMAIN slave.o_port : Filtered(i) =>
              /\ OutWidth(i) \in Nat \ {0}
              /\ FilterOffset(i) + OutWidth(i) <= slave.filter_count
         /\ \A i, k \in DOMAIN slave.o_port : Filtered(i) /\ i < k =>
              FilterOffset(i) + OutWidth(i) <= FilterOffset(k)
<1> DEFINE W == FilterWidths(slave.o_port)
           n == Len(slave.o_port)
<1>1. /\ n \in Nat /\ DOMAIN slave.o_port = 1..n
      /\ \A i \in 1..n : OutWidth(i) \in Nat
      /\ W \in Seq(Nat) /\ Len(W) = n /\ slave.filter_count = Sum(W)
  BY OutPorts
<1>2. \A i \in 1..n : W[i] = IF Filtered(i) THEN OutWidth(i) ELSE 0
  BY <1>1, FilteredPorts DEF FilterWidths, OutWidth
<1>3. W = [k \in DOMAIN rtw.OutputPortIdx |->
             IF Filtered(k) THEN OutWidth(k) ELSE 0]
  <2>1. DOMAIN rtw.OutputPortIdx = DOMAIN slave.o_port
    BY Recorded
  <2>2. \A i \in DOMAIN slave.o_port :
          (IF IsSet(slave.o_port[i].filter) THEN Len(slave.o_port[i].pdo) ELSE 0)
            = IF Filtered(i) THEN OutWidth(i) ELSE 0
    BY FilteredPorts DEF OutWidth
  <2> QED
    BY <2>1, <2>2 DEF FilterWidths
<1>4. \A i : FilterOffset(i) = SumTo(W, i - 1)
  BY <1>3 DEF FilterOffset
<1>5. ASSUME NEW i \in 1..n, Filtered(i) PROVE OutWidth(i) \in Nat \ {0}
  <2>1. IsSet(slave.o_port[i].filter) /\ PortMade(cfg, slave.o_port[i], "in")
    BY <1>1, <1>5, FilteredPorts, OutPorts
  <2> QED
    BY <1>1, <2>1 DEF PortMade, PortSound, OutWidth
<1> HIDE DEF W, n
<1>6. ASSUME NEW i \in 1..n
      PROVE  /\ SumTo(W, i - 1) \in Nat /\ SumTo(W, i) \in Nat
             /\ SumTo(W, i) = SumTo(W, i - 1) + W[i]
             /\ SumTo(W, i) <= Sum(W)
  <2>1. i \in 1..Len(W) /\ i - 1 \in 0..Len(W) /\ i \in 0..Len(W)
        /\ Len(W) \in 0..Len(W) /\ i <= Len(W)
    BY <1>1
  <2> QED
    BY <1>1, <2>1, SumSteps, SumGrows DEF Sum
<1>7. ASSUME NEW i \in 1..n, NEW k \in 1..n, i < k
      PROVE  SumTo(W, i) <= SumTo(W, k - 1)
  <2>1. i \in 0..Len(W) /\ k - 1 \in 0..Len(W) /\ i <= k - 1
    BY <1>1, <1>7
  <2> QED
    BY <1>1, <2>1, SumGrows
<1>8. \A i \in DOMAIN slave.o_port : FilterOffset(i) \in Nat
  BY <1>1, <1>4, <1>6
<1>9. ASSUME NEW i \in DOMAIN slave.o_port, Filtered(i)
      PROVE  /\ OutWidth(i) \in Nat \ {0}
             /\ FilterOffset(i) + OutWidth(i) = SumTo(W, i)
             /\ FilterOffset(i) + OutWidth(i) <= slave.filter_count
  BY <1>1, <1>2, <1>4, <1>5, <1>6, <1>9
<1>10. ASSUME NEW i \in DOMAIN slave.o_port, NEW k \in DOMAIN slave.o_port,
              Filtered(i), i < k
       PROVE  FilterOffset(i) + OutWidth(i) <= FilterOffset(k)
  BY <1>1, <1>4, <1>7, <1>9, <1>10
<1> QED
  BY <1>8, <1>9, <1>10

\* What Update writes: the filters, if any state was declared.
LEMMA FiltersWritten ==
  ASSUME SizesInv, LaterInv, Done
  PROVE  /\ AfterRtw /\ RecordsInv /\ gen.outputs = OutputCode
         /\ gen.inputs = InputCode
         /\ gen.filters \subseteq FilterCode
         /\ \A i \in DOMAIN slave.o_port : Filtered(i) => gen.filters = FilterCode
<1>1. AfterRtw /\ RecordsInv /\ CodeInv
  BY DEF LaterInv, Done, AfterRtw
<1>2. /\ gen.outputs = OutputCode /\ gen.inputs = InputCode
      /\ gen.filters = IF rtw.FilterCount # 0 THEN FilterCode ELSE {}
  BY <1>1 DEF CodeInv, Done
<1>3. rtw.FilterCount = slave.filter_count
  BY <1>1 DEF RecordsInv, RecordsRight
<1>4. ASSUME NEW i \in DOMAIN slave.o_port, Filtered(i) PROVE rtw.FilterCount # 0
  <2>1. /\ OutWidth(i) \in Nat \ {0} /\ FilterOffset(i) \in Nat
        /\ FilterOffset(i) + OutWidth(i) <= slave.filter_count
    BY <1>1, <1>4, FilterOffsets
  <2> QED
    BY <1>3, <2>1
<1> QED
  BY <1>1, <1>2, <1>4

\* Each element of a filtered port has a state of its own among the states the
\* block declared, for any number and widths of the ports, and Outputs reads
\* the states that WriteFilter writes.
THEOREM FilterStatesOwnAlways == Spec => []FilterStatesOwn
<1>1. SizesInv /\ LaterInv => FilterStatesOwn
  <2> SUFFICES ASSUME SizesInv, LaterInv, Done
               PROVE  FilterStatesOwn
    BY DEF FilterStatesOwn
  <2> DEFINE reads == {s \in gen.outputs : s.state # Untold}
             Is == {i \in DOMAIN slave.o_port : Filtered(i)}
  <2>1. /\ AfterRtw /\ RecordsInv /\ gen.outputs = OutputCode
        /\ gen.filters \subseteq FilterCode
        /\ \A i \in Is : gen.filters = FilterCode
    BY FiltersWritten
  <2>2. /\ \A i \in Is : OutWidth(i) \in Nat \ {0} /\ FilterOffset(i) \in Nat
                         /\ FilterOffset(i) + OutWidth(i) <= slave.filter_count
        /\ \A i, k \in Is : i < k => FilterOffset(i) + OutWidth(i) <= FilterOffset(k)
    BY <2>1, FilterOffsets
  <2>3. /\ DOMAIN slave.o_port \subseteq Nat
        /\ slave.filter_count = Sum(FilterWidths(slave.o_port))
        /\ FilterWidths(slave.o_port) \in Seq(Nat)
    BY <2>1, OutPorts
  <2>4. slave.filter_count \in Nat
    <3>1. Len(FilterWidths(slave.o_port)) \in 0..Len(FilterWidths(slave.o_port))
      BY <2>3
    <3> QED
      BY <2>3, <3>1, SumSteps DEF Sum
  <2>5. ASSUME NEW s \in reads
        PROVE  \E i \in Is :
                 /\ s.port = i /\ s.state = FilterOffset(i)
                 /\ s.width = OutWidth(i)
                 /\ s = [port |-> i, state |-> FilterOffset(i),
                         width |-> OutWidth(i)]
    <3>1. s \in OutputCode /\ s.state # Untold
      BY <2>1
    <3>2. PICK i \in DOMAIN slave.o_port :
             IF Filtered(i)
             THEN s = [port |-> i, state |-> FilterOffset(i),
                       width |-> OutWidth(i)]
             ELSE s.state = Untold
      BY <2>1, <3>1, OutputStatements
    <3> QED
      BY <3>1, <3>2
  <2>6. ASSUME NEW i \in Is
        PROVE  \E s \in reads : s.port = i /\ s.state = FilterOffset(i)
                                /\ s.width = OutWidth(i)
    <3>1. Converted(slave.o_port[i])
      BY <2>1, FilteredPorts DEF Converted
    <3>2. PICK s \in OutputCode :
             s = [port |-> i, state |-> FilterOffset(i), width |-> OutWidth(i)]
      BY <2>1, <3>1, OutputStatements
    <3>3. s.state # Untold
      BY <2>2, <3>2 DEF Untold
    <3> QED
      BY <2>1, <3>2, <3>3
  <2>7. /\ \A s \in gen.filters : \E i \in Is :
             s.port = i /\ s.state = FilterOffset(i) /\ s.width = OutWidth(i)
        /\ \A i \in Is : \E s \in gen.filters :
             s.port = i /\ s.state = FilterOffset(i) /\ s.width = OutWidth(i)
    BY <2>1, FilterStatements DEF StatementRight
  <2> HIDE DEF reads, Is
  <2>8. {<<s.port, States(s)>> : s \in reads}
          = {<<s.port, States(s)>> : s \in gen.filters}
    <3> DEFINE At(i) == <<i, FilterOffset(i)..(FilterOffset(i) + OutWidth(i) - 1)>>
    <3>1. {<<s.port, States(s)>> : s \in reads} = {At(i) : i \in Is}
      BY <2>5, <2>6 DEF States
    <3>2. {<<s.port, States(s)>> : s \in gen.filters} = {At(i) : i \in Is}
      BY <2>7 DEF States
    <3> QED
      BY <3>1, <3>2
  <2>9. ASSUME NEW s \in reads
        PROVE  States(s) \subseteq 0..(slave.filter_count - 1)
    <3>1. PICK i \in Is : s.state = FilterOffset(i) /\ s.width = OutWidth(i)
      BY <2>5
    <3> QED
      BY <2>2, <2>4, <3>1 DEF States
  <2>10. ASSUME NEW s \in reads, NEW t \in reads, s # t
         PROVE  States(s) \cap States(t) = {}
    <3>1. PICK i \in Is : /\ s.state = FilterOffset(i) /\ s.width = OutWidth(i)
                          /\ s = [port |-> i, state |-> FilterOffset(i),
                                  width |-> OutWidth(i)]
      BY <2>5
    <3>2. PICK k \in Is : /\ t.state = FilterOffset(k) /\ t.width = OutWidth(k)
                          /\ t = [port |-> k, state |-> FilterOffset(k),
                                  width |-> OutWidth(k)]
      BY <2>5
    <3>3. i # k
      BY <2>10, <3>1, <3>2
    <3>4. i \in Nat /\ k \in Nat
      BY <2>3 DEF Is
    <3>5. CASE i < k
      BY <2>2, <3>1, <3>2, <3>5 DEF States
    <3>6. CASE k < i
      BY <2>2, <3>1, <3>2, <3>6 DEF States
    <3> QED
      BY <3>3, <3>4, <3>5, <3>6
  <2> QED
    BY <2>8, <2>9, <2>10 DEF FilterStatesOwn, reads
<1> QED
  BY <1>1, InvAlways, PTL


-----------------------------------------------------------------------------
(* The work vectors.                                                       *)

LEMMA DWorkOf ==
  ASSUME SizesInv, WorkWidthsInv, AfterSettle, NEW p \in DOMAIN Ports,
         Ports[p].dwork_idx # 0
  PROVE  /\ Ports[p].dwork_idx \in 1..slave.dwork_count
         /\ dwork[Ports[p].dwork_idx].width = Widths[p]
         /\ dwork[Ports[p].dwork_idx].type = SlType(Ports[p].data_type)
<1> DEFINE k == Ports[p].dwork_idx
           with(m) == {i \in DOMAIN Ports : Ports[i].dwork_idx = m}
           D(m) == IF with(m) = {} THEN [width |-> 0, type |-> "none"]
                   ELSE [width |-> Widths[Max(with(m))],
                         type |-> WorkType(Ports[Max(with(m))])]
<1>1. /\ WorkOwn(Ports, slave.dwork_count) /\ slave.dwork_count \in Nat
      /\ dwork = DWorks /\ DOMAIN Ports \subseteq Nat
  <2>1. Array(slave.o_port) /\ Array(slave.i_port)
    BY DEF SizesInv, Counting
  <2>2. Array(Ports)
    BY <2>1, PortsParts DEF Ports
  <2>3. DOMAIN Ports \subseteq Nat
    BY <2>2, AppendArray
  <2> QED
    BY <2>3 DEF SizesInv, Counting, WorkWidthsInv
<1>2. k \in 1..slave.dwork_count
  BY <1>1 DEF WorkOwn
<1>3. DWorks = [m \in 1..slave.dwork_count |-> D(m)]
  BY Zenon DEF DWorks
<1>4. with(k) = {p}
  BY <1>1 DEF WorkOwn
<1>5. Max({p}) = p
  <2>1. \E x \in {p} : \A y \in {p} : x >= y
    BY <1>1
  <2> QED
    BY <2>1 DEF Max
<1>6. dwork[k] = D(k)
  BY <1>1, <1>2, <1>3
<1>7. D(k) = [width |-> Widths[p], type |-> WorkType(Ports[p])]
  BY <1>4, <1>5
<1> HIDE DEF k, D
<1>8. dwork[k].width = Widths[p] /\ dwork[k].type = WorkType(Ports[p])
  BY <1>6, <1>7
<1> QED
  BY <1>2, <1>8 DEF k, WorkType

\* The work vectors of the outputs and of the inputs.
LEMMA DWorkParts ==
  ASSUME SizesInv, WorkWidthsInv, AfterSettle
  PROVE  /\ \A i \in DOMAIN slave.o_port : slave.o_port[i].dwork_idx # 0 =>
              /\ dwork[slave.o_port[i].dwork_idx].width = OutWidth(i)
              /\ dwork[slave.o_port[i].dwork_idx].type
                   = SlType(slave.o_port[i].data_type)
         /\ \A i \in DOMAIN slave.i_port : slave.i_port[i].dwork_idx # 0 =>
              /\ dwork[slave.i_port[i].dwork_idx].width = inWidth[i]
              /\ dwork[slave.i_port[i].dwork_idx].type
                   = SlType(slave.i_port[i].data_type)
<1> DEFINE O == slave.o_port
           I == slave.i_port
           wide == [i \in DOMAIN O |-> Len(O[i].pdo)]
<1>1. /\ Array(O) /\ Array(I) /\ inWidth \in Seq(Int) /\ Len(inWidth) = Len(I)
  BY DEF SizesInv, SizesRight, SlaveCounts, Sized, AfterSettle
<1>2. /\ DOMAIN Ports = 1..(Len(O) + Len(I))
      /\ Len(O) \in Nat /\ Len(I) \in Nat
      /\ DOMAIN O = 1..Len(O) /\ DOMAIN I = 1..Len(I)
      /\ \A i \in 1..Len(O) : Ports[i] = O[i]
      /\ \A i \in 1..Len(I) : Ports[Len(O) + i] = I[i]
  <2>1. Ports = O \o I
    BY DEF Ports
  <2> HIDE DEF O, I
  <2>2. DOMAIN Ports = 1..(Len(O) + Len(I))
    BY <1>1, <2>1, PortsParts
  <2>3. /\ Len(O) \in Nat /\ Len(I) \in Nat
        /\ DOMAIN O = 1..Len(O) /\ DOMAIN I = 1..Len(I)
    BY <1>1, AppendArray
  <2>4. \A i \in 1..Len(O) : Ports[i] = O[i]
    BY <1>1, <2>1, PortsParts
  <2>5. \A i \in 1..Len(I) : Ports[Len(O) + i] = I[i]
    BY <1>1, <2>1, PortsParts
  <2> QED
    BY <2>2, <2>3, <2>4, <2>5
<1>3. /\ \A i \in 1..Len(O) : Widths[i] = OutWidth(i)
      /\ \A i \in 1..Len(I) : Widths[Len(O) + i] = inWidth[i]
  <2>1. Array(wide) /\ Len(wide) = Len(O)
    <3>1. \A i \in 1..Len(O) : wide[i] \in Range(wide)
      BY <1>2 DEF Range
    <3> DEFINE n == Len(O)
               R == Range(wide)
    <3>3. n \in Nat /\ DOMAIN wide = 1..n
          /\ wide = [i \in 1..n |-> wide[i]] /\ \A i \in 1..n : wide[i] \in R
      BY <1>2, <3>1
    <3> HIDE DEF wide, n, R
    <3>4. wide \in Seq(R) /\ Len(wide) = n
      BY <3>3
    <3>2. wide \in Seq(Range(wide)) /\ Len(wide) = Len(O)
      BY <3>4 DEF n, R
    <3> QED
      BY <3>2, ArrayOf
  <2>2. Array(inWidth)
    BY <1>1, ArrayOf
  <2>3. Widths = wide \o inWidth
    BY DEF Widths
  <2>4. \A i \in 1..Len(O) : wide[i] = OutWidth(i)
    BY <1>2 DEF OutWidth
  <2> HIDE DEF wide, O, I
  <2> QED
    BY <1>1, <2>1, <2>2, <2>3, <2>4, PortsParts
<1> HIDE DEF O, I
<1>4. ASSUME NEW i \in 1..Len(O), O[i].dwork_idx # 0
      PROVE  /\ dwork[O[i].dwork_idx].width = OutWidth(i)
             /\ dwork[O[i].dwork_idx].type = SlType(O[i].data_type)
  <2>1. i \in DOMAIN Ports /\ Ports[i] = O[i] /\ Widths[i] = OutWidth(i)
    BY <1>2, <1>3
  <2> QED
    BY <1>4, <2>1, DWorkOf
<1>5. ASSUME NEW i \in 1..Len(I), I[i].dwork_idx # 0
      PROVE  /\ dwork[I[i].dwork_idx].width = inWidth[i]
             /\ dwork[I[i].dwork_idx].type = SlType(I[i].data_type)
  <2> DEFINE k == Len(O) + i
  <2>1. k \in DOMAIN Ports /\ Ports[k] = I[i] /\ Widths[k] = inWidth[i]
    BY <1>2, <1>3
  <2> HIDE DEF k
  <2> QED
    BY <1>5, <2>1, DWorkOf
<1> QED
  BY <1>2, <1>4, <1>5 DEF O, I

LEMMA BooleanType ==
  ASSUME NEW id \in DataTypeIds
  PROVE  SlType(id) = "boolean" <=> id = 1001
<1>1. CASE id = 1001
  BY <1>1 DEF SlType
<1>2. CASE id \in 1002..1008
  BY <1>2 DEF SlType
<1>3. CASE id = 1016
  BY <1>3 DEF SlType
<1>4. CASE id \in {1024, 1032}
  BY <1>4 DEF SlType
<1>5. CASE id = 2008
  BY <1>5 DEF SlType
<1>6. CASE id = 2016
  BY <1>6 DEF SlType
<1>7. CASE id = 2032
  BY <1>7 DEF SlType
<1>8. CASE id = 3032
  BY <1>8 DEF SlType
<1>9. CASE id \notin {1001, 1016, 1024, 1032, 2008, 2016, 2032, 3032}
           /\ id \notin 1002..1008
  BY <1>9 DEF SlType
<1> QED
  BY <1>1, <1>2, <1>3, <1>4, <1>5, <1>6, <1>7, <1>8, <1>9

\* The inputs when the code is generated: all are settled.
LEMMA InPorts ==
  ASSUME SizesInv, LaterInv, AfterRtw
  PROVE  /\ connected \subseteq DOMAIN slave.i_port
         /\ Len(slave.i_port) \in Nat
         /\ DOMAIN slave.i_port = 1..Len(slave.i_port)
         /\ \A i \in DOMAIN slave.i_port :
              /\ PortSound(cfg, slave.i_port[i], "out")
              /\ slave.i_port[i].dwork_idx # 0
                   <=> (inType[i] # SlType(slave.i_port[i].data_type)
                          \/ Converted(slave.i_port[i]))
              /\ inWidth[i] \in 0..Len(slave.i_port[i].pdo)
              /\ InputPort(i).DWorkIndex = slave.i_port[i].dwork_idx
<1>1. SizesRight /\ WorkWidthsInv /\ AfterSettle /\ RecordsInv
  BY DEF SizesInv, Sized, AfterRtw, LaterInv, AfterSettle
<1>2. \A i \in DOMAIN slave.i_port :
        inType[i] # DynamicType /\ inWidth[i] # Dynamic
  BY <1>1 DEF WorkWidthsInv, SizesRight
<1>3. \A i \in DOMAIN slave.i_port :
        /\ PortSound(cfg, slave.i_port[i], "out")
        /\ slave.i_port[i].dwork_idx # 0
             <=> (inType[i] # SlType(slave.i_port[i].data_type)
                    \/ Converted(slave.i_port[i]))
  BY <1>1, <1>2 DEF SizesRight, TypeRight
<1>4. /\ Array(slave.i_port) /\ connected \subseteq DOMAIN slave.i_port
      /\ \A i \in DOMAIN slave.i_port : Array(slave.i_port[i].pdo)
      /\ \A i \in DOMAIN slave.i_port :
           inWidth[i] \in Dynamic..Len(slave.i_port[i].pdo)
  BY <1>1, <1>3 DEF SizesRight, SlaveCounts, PortSound
<1>5. \A i \in DOMAIN slave.i_port : Len(slave.i_port[i].pdo) \in Nat
  BY <1>4, AppendArray
<1>6. \A i \in DOMAIN slave.i_port : inWidth[i] \in 0..Len(slave.i_port[i].pdo)
  BY <1>2, <1>4, <1>5 DEF Dynamic
<1>7. \A i \in DOMAIN slave.i_port :
        InputPort(i).DWorkIndex = slave.i_port[i].dwork_idx
  BY <1>1, Recorded DEF PortRecord
<1> QED
  BY <1>3, <1>4, <1>6, <1>7, AppendArray

\* The statement for an input that is a number, and the one for a Boolean.
LEMMA InputStatements ==
  ASSUME SizesInv, LaterInv, AfterRtw, NEW i \in DOMAIN slave.i_port,
         slave.i_port[i].dwork_idx # 0
  PROVE  LET s == InputStatement(i)
             port == slave.i_port[i]
         IN  /\ s.port = i /\ s.width = inWidth[i]
             /\ AppliesTo(s, port, port.data_type = 1001)
<1> DEFINE r == InputPort(i)
           port == slave.i_port[i]
           t == Statement(r, i, inWidth[i])
           plain == [t EXCEPT !.gain = NoSetting, !.offset = NoSetting,
                              !.filter = NoSetting, !.fullscale = 0]
           s == InputStatement(i)
<1>1. /\ RtwOK(rtw) /\ PortRecord(rtw, r, port) /\ WorkWidthsInv /\ AfterSettle
      /\ PortSound(cfg, port, "out")
  BY Recorded, InPorts DEF LaterInv, AfterRtw, AfterSettle
<1>2. /\ StatementRight(t, port, i, inWidth[i])
      /\ DOMAIN t = {"port", "dwork", "width", "gain", "offset", "filter",
                     "fullscale", "state"}
      /\ r.DWorkIndex = port.dwork_idx
  BY <1>1, StatementOf
<1>3. dwork[r.DWorkIndex].type = "boolean" <=> port.data_type = 1001
  <2>1. dwork[port.dwork_idx].type = SlType(port.data_type)
    BY <1>1, DWorkParts
  <2>2. port.data_type \in DataTypeIds
    BY <1>1 DEF PortSound
  <2> QED
    BY <1>2, <2>1, <2>2, BooleanType
<1>4. s = IF dwork[r.DWorkIndex].type = "boolean" THEN plain ELSE t
  BY DEF InputStatement, InputWidth
<1>5. ~IsSet(port.filter)
  BY <1>1 DEF PortSound
<1>6. /\ plain.port = t.port /\ plain.width = t.width /\ plain.dwork = t.dwork
      /\ plain.gain = NoSetting /\ plain.offset = NoSetting
      /\ plain.filter = NoSetting /\ plain.fullscale = 0
  BY <1>2
<1> HIDE DEF t, plain, s, r, port
<1> DEFINE Goal == /\ s.port = i /\ s.width = inWidth[i]
                   /\ AppliesTo(s, port, port.data_type = 1001)
<1>7. ASSUME port.data_type = 1001 PROVE Goal
  <2>1. s = plain
    BY <1>3, <1>4, <1>7
  <2>2. Means(plain.filter, port.filter)
    BY <1>5, <1>6 DEF Means
  <2>3. plain.dwork = port.dwork_idx /\ plain.port = i /\ plain.width = inWidth[i]
    BY <1>2, <1>6 DEF StatementRight, AppliesTo
  <2>4. AppliesTo(plain, port, port.data_type = 1001)
    BY <1>6, <1>7, <2>2, <2>3, NoParamMeans DEF AppliesTo
  <2> QED
    BY <2>1, <2>3, <2>4, Zenon
<1>8. ASSUME port.data_type # 1001 PROVE Goal
  <2>1. s = t
    BY <1>3, <1>4, <1>8
  <2>2. t.port = i /\ t.width = inWidth[i] /\ AppliesTo(t, port, FALSE)
    BY <1>2 DEF StatementRight
  <2>3. AppliesTo(t, port, port.data_type = 1001)
    BY <1>8, <2>2 DEF AppliesTo
  <2> QED
    BY <2>1, <2>2, <2>3, Zenon
<1>9. Goal
  BY <1>7, <1>8, Zenon
<1> QED
  BY <1>9, Zenon DEF s, port

\* Every work vector has its conversion, and ports without one have none; the
\* conversions of outputs and of inputs that are numbers use the parameters
\* configured for their port, however many records of SDOs, SoEs, the clock
\* mode and other ports the numbers count.
THEOREM ConversionFaithfulAlways == Spec => []ConversionFaithful
<1>1. SizesInv /\ LaterInv => ConversionFaithful
  <2> SUFFICES ASSUME SizesInv, LaterInv, Done
               PROVE  ConversionFaithful
    BY DEF ConversionFaithful
  <2>1. /\ AfterRtw /\ RecordsInv /\ gen.outputs = OutputCode
        /\ gen.inputs = InputCode /\ gen.filters \subseteq FilterCode
    BY FiltersWritten
  <2>2. {s.port : s \in gen.outputs}
          = {i \in DOMAIN slave.o_port : Converted(slave.o_port[i])}
    <3>1. /\ \A s \in OutputCode : \E i \in DOMAIN slave.o_port :
               Converted(slave.o_port[i]) /\ s.port = i
          /\ \A i \in DOMAIN slave.o_port : Converted(slave.o_port[i]) =>
               \E s \in OutputCode : s.port = i
      BY <2>1, OutputStatements
    <3> QED
      BY <2>1, <3>1
  <2> DEFINE Is == {i \in connected : slave.i_port[i].dwork_idx # 0}
  <2>3. /\ gen.inputs = {InputStatement(i) : i \in Is}
        /\ Is = {i \in connected : inType[i] # SlType(slave.i_port[i].data_type)
                                     \/ Converted(slave.i_port[i])}
    <3>1. DOMAIN rtw.InputPortIdx = DOMAIN slave.i_port
      BY <2>1, Recorded
    <3>2. /\ connected \subseteq DOMAIN slave.i_port
          /\ \A i \in connected :
               /\ slave.i_port[i].dwork_idx # 0
                    <=> (inType[i] # SlType(slave.i_port[i].data_type)
                           \/ Converted(slave.i_port[i]))
               /\ InputPort(i).DWorkIndex = slave.i_port[i].dwork_idx
      BY <2>1, InPorts
    <3>3. Is = {k \in DOMAIN rtw.InputPortIdx :
                  k \in connected /\ InputPort(k).DWorkIndex # 0}
      BY <3>1, <3>2
    <3>4. gen.inputs = {InputStatement(i) : i \in Is}
      BY <2>1, <3>3 DEF InputCode
    <3> QED
      BY <3>2, <3>4
  <2>4. \A i \in Is :
          /\ InputStatement(i).port = i
          /\ AppliesTo(InputStatement(i), slave.i_port[i],
                     slave.i_port[i].data_type = 1001)
    BY <2>1, InPorts, InputStatements
  <2> HIDE DEF Is
  <2>5. {s.port : s \in gen.inputs} = Is
    BY <2>3, <2>4
  <2>6. ASSUME NEW s \in gen.inputs
        PROVE  LET port == slave.i_port[s.port]
               IN  /\ s.dwork = port.dwork_idx
                   /\ port.data_type # 1001 => Applies(s, port)
    <3> DEFINE port == slave.i_port[s.port]
    <3>1. AppliesTo(s, port, port.data_type = 1001)
      BY <2>3, <2>4
    <3> HIDE DEF port
    <3>2. s.dwork = port.dwork_idx
      BY <3>1 DEF AppliesTo
    <3>3. ASSUME port.data_type # 1001 PROVE Applies(s, port)
      <4>1. AppliesTo(s, port, FALSE)
        BY <3>1, <3>3 DEF AppliesTo
      <4> QED
        BY <4>1, AppliesIs
    <3> QED
      BY <3>2, <3>3 DEF port
  <2>7. ASSUME NEW s \in gen.filters
        PROVE  Applies(s, slave.o_port[s.port])
    <3>1. AppliesTo(s, slave.o_port[s.port], FALSE)
      BY <2>1, FilterStatements DEF StatementRight
    <3> QED
      BY <3>1, AppliesIs
  <2>8. ASSUME NEW s \in gen.outputs, s.state = Untold
        PROVE  Applies(s, slave.o_port[s.port])
    <3>1. PICK i \in DOMAIN slave.o_port :
             IF Filtered(i)
             THEN s = [port |-> i, state |-> FilterOffset(i),
                       width |-> OutWidth(i)]
             ELSE StatementRight(s, slave.o_port[i], i, OutWidth(i))
      BY <2>1, OutputStatements
    <3>2. FilterOffset(i) \in Nat
      BY <2>1, FilterOffsets
    <3>3. ~Filtered(i)
      BY <2>8, <3>1, <3>2 DEF Untold
    <3>4. AppliesTo(s, slave.o_port[s.port], FALSE)
      BY <3>1, <3>3 DEF StatementRight
    <3> QED
      BY <3>4, AppliesIs
  <2>9. \A s \in gen.filters \cup {t \in gen.outputs : t.state = Untold} :
          Applies(s, slave.o_port[s.port])
    BY <2>7, <2>8
  <2>10. {s.port : s \in gen.inputs}
           = {i \in connected : inType[i] # SlType(slave.i_port[i].data_type)
                                  \/ Converted(slave.i_port[i])}
    BY <2>3, <2>5
  <2> QED
    BY Zenon, <2>2, <2>6, <2>9, <2>10 DEF ConversionFaithful
<1> QED
  BY <1>1, InvAlways, PTL


-----------------------------------------------------------------------------
(* The rows of the PDO map.                                                *)

\* An element of the flattened sequence comes from one place.
LEMMA FlattenPlace ==
  ASSUME NEW R, NEW ss \in Seq(Seq(R)), NEW p \in DOMAIN FlattenSeq(ss)
  PROVE  \E i \in DOMAIN ss : \E j \in DOMAIN ss[i] :
           p = SumTo(Lens(ss), i - 1) + j /\ FlattenSeq(ss)[p] = ss[i][j]
<1> DEFINE t == FlattenSeq(ss)
           L == Lens(ss)
           n == Len(ss)
<1>1. /\ t \in Seq(R) /\ Len(t) = SumTo(L, n)
      /\ \A i \in 1..n : \A j \in 1..Len(ss[i]) :
           t[SumTo(L, i - 1) + j] = ss[i][j]
  BY FlattenFacts DEF Flattened
<1>2. L \in Seq(Nat) /\ Len(L) = n /\ n \in Nat /\ DOMAIN ss = 1..n
  BY LensType
<1>3. \A i \in 1..n : L[i] = Len(ss[i]) /\ ss[i] \in Seq(R)
  BY <1>2, ElementOfSeq DEF Lens
<1> HIDE DEF t, L, n
<1>4. p \in 1..Sum(L)
  BY <1>1, <1>2 DEF t, Sum
<1>5. PICK i \in DOMAIN L : \E j \in 1..L[i] : p = SumTo(L, i - 1) + j
  BY <1>2, <1>4, SumPlace
<1>6. PICK j \in 1..L[i] : p = SumTo(L, i - 1) + j
  BY <1>5
<1>7. i \in 1..n /\ j \in 1..Len(ss[i]) /\ j \in DOMAIN ss[i]
  BY <1>2, <1>3, <1>5, <1>6
<1>8. t[p] = ss[i][j]
  BY <1>1, <1>6, <1>7
<1> QED
  BY <1>2, <1>6, <1>7, <1>8 DEF t, L

LEMMA Triple ==
  ASSUME NEW a, NEW b, NEW c
  PROVE  /\ <<a, b, c>>[1] = a /\ <<a, b, c>>[2] = b /\ <<a, b, c>>[3] = c
         /\ <<a, b, c>> \in Seq({a, b, c}) /\ Len(<<a, b, c>>) = 3
         /\ \A d, e, f : <<a, b, c>> = <<d, e, f>> <=> a = d /\ b = e /\ c = f
<1>1. /\ <<a, b, c>>[1] = a /\ <<a, b, c>>[2] = b /\ <<a, b, c>>[3] = c
  OBVIOUS
<1>2. <<a, b, c>> \in Seq({a, b, c}) /\ Len(<<a, b, c>>) = 3
  OBVIOUS
<1>3. \A d, e, f : <<a, b, c>> = <<d, e, f>> <=> a = d /\ b = e /\ c = f
  OBVIOUS
<1> QED
  BY <1>1, <1>2, <1>3

LEMMA AppendTwo ==
  ASSUME NEW a, NEW b, NEW c
  PROVE  Append(<<a, b>>, c) = <<a, b, c>>
<1> DEFINE S == {a, b, c}
           s == <<a, b>>
           t == <<a, b, c>>
<1>1. s \in Seq(S) /\ Len(s) = 2 /\ s[1] = a /\ s[2] = b /\ c \in S
  OBVIOUS
<1>2. t \in Seq(S) /\ Len(t) = 3 /\ t[1] = a /\ t[2] = b /\ t[3] = c
  BY Triple
<1> HIDE DEF S, s, t
<1>3. /\ Append(s, c) \in Seq(S) /\ Len(Append(s, c)) = 3
      /\ Append(s, c)[1] = a /\ Append(s, c)[2] = b /\ Append(s, c)[3] = c
  <2>1. Append(s, c) \in Seq(S) /\ Len(Append(s, c)) = Len(s) + 1
    BY <1>1
  <2>3. \A i \in 1..Len(s) : Append(s, c)[i] = s[i]
    BY <1>1, AppendProperties
  <2>4. Append(s, c)[Len(s) + 1] = c
    BY <1>1, AppendProperties
  <2>2. 1 \in 1..Len(s) /\ 2 \in 1..Len(s) /\ Len(s) + 1 = 3
    BY <1>1
  <2> QED
    BY <1>1, <2>1, <2>2, <2>3, <2>4
<1>4. \A i \in 1..3 : Append(s, c)[i] = t[i]
  BY <1>2, <1>3
<1> QED
  BY <1>2, <1>3, <1>4, SeqEqual DEF s, t

LEMMA ArrayArrays ==
  ASSUME NEW n \in Nat, NEW ss, ss = [i \in 1..n |-> ss[i]],
         \A i \in 1..n : Array(ss[i])
  PROVE  \E R : ss \in Seq(Seq(R))
<1> DEFINE R == UNION {Range(ss[i]) : i \in 1..n}
<1>1. ASSUME NEW i \in 1..n PROVE ss[i] \in Seq(R)
  <2>1. Range(ss[i]) \subseteq R
    OBVIOUS
  <2>2. ss[i] \in Seq(Range(ss[i]))
    BY DEF Array
  <2> HIDE DEF R
  <2> QED
    BY <2>1, <2>2
<1> HIDE DEF R
<1>2. ss \in Seq(Seq(R))
  BY <1>1
<1> QED
  BY <1>2

LEMMA FunctionArray ==
  ASSUME NEW n \in Nat, NEW s, s = [i \in 1..n |-> s[i]]
  PROVE  Array(s)
<1> DEFINE R == Range(s)
<1>1. \A i \in 1..n : s[i] \in R
  BY DEF Range
<1> HIDE DEF R
<1>2. s \in Seq(R)
  BY <1>1
<1> QED
  BY <1>2, ArrayOf

InRows == [i \in DOMAIN rtw.InputPortIdx |->
             [j \in 1..InputWidth(i) |-> MapRow(InputPort(i), j, <<"u", i>>)]]
OutRows == [i \in DOMAIN rtw.OutputPortIdx |->
              [j \in DOMAIN slave.o_port[i].pdo |->
                 MapRow(OutputPort(i), j, <<"y", i>>)]]

\* Where the j-th row of an input or of an output is.
InPlace(i, j) == SumTo(Lens(InRows), i - 1) + j
OutPlace(i, j) ==
  Len(FlattenSeq(InRows)) + (SumTo(Lens(OutRows), i - 1) + j)

FromInput(k, row, i, j) ==
  /\ i \in DOMAIN slave.i_port /\ j \in 1..inWidth[i] /\ k = InPlace(i, j)
  /\ row = MapRow(InputPort(i), j, <<"u", i>>)

FromOutput(k, row, i, j) ==
  /\ i \in DOMAIN slave.o_port /\ j \in 1..OutWidth(i) /\ k = OutPlace(i, j)
  /\ row = MapRow(OutputPort(i), j, <<"y", i>>)

LEMMA RowsType ==
  ASSUME SizesInv, LaterInv, AfterRtw
  PROVE  /\ \E R : InRows \in Seq(Seq(R))
         /\ \E R : OutRows \in Seq(Seq(R))
<1> DEFINE n == Len(slave.i_port)
           m == Len(slave.o_port)
<1>1. /\ DOMAIN rtw.OutputPortIdx = 1..m /\ DOMAIN rtw.InputPortIdx = 1..n
      /\ n \in Nat /\ m \in Nat
      /\ \A i \in 1..n : inWidth[i] \in Nat
      /\ \A i \in 1..m : OutWidth(i) \in Nat
                         /\ DOMAIN slave.o_port[i].pdo = 1..OutWidth(i)
  <2>1. RecordsInv
    BY DEF LaterInv
  <2>2. \A i \in DOMAIN slave.i_port :
          /\ inWidth[i] \in 0..Len(slave.i_port[i].pdo)
          /\ Array(slave.i_port[i].pdo)
    BY InPorts DEF PortSound
  <2>3. \A i \in DOMAIN slave.i_port : inWidth[i] \in Nat
    BY <2>2, AppendArray
  <2>4. \A i \in DOMAIN slave.o_port : Array(slave.o_port[i].pdo)
    BY OutPorts DEF PortMade, PortSound
  <2>5. \A i \in DOMAIN slave.o_port :
          DOMAIN slave.o_port[i].pdo = 1..OutWidth(i)
    BY <2>4, AppendArray DEF OutWidth
  <2> QED
    BY <2>1, <2>3, <2>5, Recorded, InPorts, OutPorts
<1> HIDE DEF n, m
<1>2. InRows = [i \in 1..n |-> InRows[i]] /\ OutRows = [i \in 1..m |-> OutRows[i]]
  BY <1>1 DEF InRows, OutRows
<1>3. \A i \in 1..n : InRows[i] = [j \in 1..inWidth[i] |-> InRows[i][j]]
  BY <1>1 DEF InRows, InputWidth
<1>4. \A i \in 1..m : OutRows[i] = [j \in 1..OutWidth(i) |-> OutRows[i][j]]
  BY <1>1 DEF OutRows
<1>5. /\ \A i \in 1..n : Array(InRows[i])
      /\ \A i \in 1..m : Array(OutRows[i])
  BY <1>1, <1>3, <1>4, FunctionArray
<1>6. \E R : InRows \in Seq(Seq(R))
  BY <1>1, <1>2, <1>5, ArrayArrays
<1>7. \E R : OutRows \in Seq(Seq(R))
  BY <1>1, <1>2, <1>5, ArrayArrays
<1> QED
  BY <1>6, <1>7

LEMMA RowsFrom ==
  ASSUME SizesInv, LaterInv, AfterStart, NEW k \in DOMAIN gen.map.rows
  PROVE  \E i, j : FromInput(k, gen.map.rows[k], i, j)
                     \/ FromOutput(k, gen.map.rows[k], i, j)
<1> DEFINE rows == gen.map.rows
           F == FlattenSeq(InRows)
           G == FlattenSeq(OutRows)
<1>8. PICK R : InRows \in Seq(Seq(R))
  BY RowsType DEF AfterStart, AfterRtw
<1>9. PICK S : OutRows \in Seq(Seq(S))
  BY RowsType DEF AfterStart, AfterRtw
<1>2. F \in Seq(R) /\ G \in Seq(S)
  BY <1>8, <1>9, FlattenFacts
<1>3. rows = F \o G
  <2>1. gen.map = GetPdoMap
    BY DEF LaterInv, CodeInv
  <2>2. GetPdoMap = [InputCount |-> Len(F), OutputCount |-> Len(G),
                     rows |-> F \o G]
    BY Zenon DEF GetPdoMap, InRows, OutRows
  <2> QED
    BY <2>1, <2>2
<1>4. /\ DOMAIN InRows = DOMAIN slave.i_port
      /\ DOMAIN OutRows = DOMAIN slave.o_port
      /\ \A i \in DOMAIN InRows : DOMAIN InRows[i] = 1..inWidth[i]
      /\ \A i \in DOMAIN OutRows : DOMAIN OutRows[i] = 1..OutWidth(i)
      /\ \A i \in DOMAIN InRows : \A j \in DOMAIN InRows[i] :
           InRows[i][j] = MapRow(InputPort(i), j, <<"u", i>>)
      /\ \A i \in DOMAIN OutRows : \A j \in DOMAIN OutRows[i] :
           OutRows[i][j] = MapRow(OutputPort(i), j, <<"y", i>>)
  <2>1. AfterRtw /\ RecordsInv
    BY DEF LaterInv, AfterStart, AfterRtw
  <2>2. \A i \in DOMAIN slave.o_port : Array(slave.o_port[i].pdo)
    BY <2>1, OutPorts DEF PortMade, PortSound
  <2>3. \A i \in DOMAIN slave.o_port : DOMAIN slave.o_port[i].pdo = 1..OutWidth(i)
    BY <2>2, AppendArray DEF OutWidth
  <2> QED
    BY <2>1, <2>3, Recorded DEF InRows, OutRows, InputWidth
<1> DEFINE f == Len(F)
           g == Len(G)
<1>5. /\ f \in Nat /\ g \in Nat /\ DOMAIN F = 1..f /\ DOMAIN G = 1..g
      /\ DOMAIN rows = 1..(f + g)
      /\ \A p \in 1..f : rows[p] = F[p]
      /\ \A p \in 1..g : rows[f + p] = G[p]
  <2> HIDE DEF rows, F, G
  <2>1. Array(F) /\ Array(G)
    BY <1>2, ArrayOf
  <2>2. f \in Nat /\ g \in Nat /\ DOMAIN F = 1..f /\ DOMAIN G = 1..g
    BY <2>1, AppendArray
  <2>3. DOMAIN rows = 1..(f + g)
    BY <1>3, <2>1, PortsParts
  <2>4. \A p \in 1..f : rows[p] = F[p]
    BY <1>3, <2>1, PortsParts
  <2>5. \A p \in 1..g : rows[f + p] = G[p]
    BY <1>3, <2>1, PortsParts
  <2> QED
    BY <2>2, <2>3, <2>4, <2>5
<1> HIDE DEF rows, F, G, f, g
<1>6. CASE k \in 1..f
  <2>1. k \in DOMAIN FlattenSeq(InRows)
    BY <1>5, <1>6 DEF F
  <2>5. PICK i \in DOMAIN InRows : \E j \in DOMAIN InRows[i] :
           k = SumTo(Lens(InRows), i - 1) + j
             /\ FlattenSeq(InRows)[k] = InRows[i][j]
    BY <1>8, <2>1, FlattenPlace
  <2>2. PICK j \in DOMAIN InRows[i] :
           k = SumTo(Lens(InRows), i - 1) + j
             /\ FlattenSeq(InRows)[k] = InRows[i][j]
    BY <2>5
  <2>3. FromInput(k, rows[k], i, j)
    BY <1>4, <1>5, <1>6, <2>2 DEF FromInput, InPlace, F
  <2> QED
    BY <2>3 DEF rows
<1>7. CASE k \notin 1..f
  <2> DEFINE q == k - f
  <2>1. q \in 1..g /\ k = f + q
    BY <1>5, <1>7 DEF rows
  <2> HIDE DEF q
  <2>2. q \in DOMAIN FlattenSeq(OutRows)
    BY <1>5, <2>1 DEF G
  <2>6. PICK i \in DOMAIN OutRows : \E j \in DOMAIN OutRows[i] :
           q = SumTo(Lens(OutRows), i - 1) + j
             /\ FlattenSeq(OutRows)[q] = OutRows[i][j]
    BY <1>9, <2>2, FlattenPlace
  <2>3. PICK j \in DOMAIN OutRows[i] :
           q = SumTo(Lens(OutRows), i - 1) + j
             /\ FlattenSeq(OutRows)[q] = OutRows[i][j]
    BY <2>6
  <2>4. FromOutput(k, rows[k], i, j)
    BY <1>4, <1>5, <2>1, <2>3 DEF FromOutput, OutPlace, F, G, f
  <2> QED
    BY <2>4 DEF rows
<1> QED
  BY <1>6, <1>7

LEMMA RowAddr ==
  ASSUME NEW r, NEW j, NEW t, NEW i
  PROVE  LET addr == MapRow(r, j, <<t, i>>).addr
         IN  addr = IF r.DWorkIndex # 0 THEN <<"dwork", r.DWorkIndex, j>>
                    ELSE <<t, i, j>>
<1>1. Append(<<t, i>>, j) = <<t, i, j>>
  BY AppendTwo
<1> QED
  BY <1>1 DEF MapRow

\* Behind the address of a row lies a variable of its type.
RowTyped(row) ==
  /\ Place(row.addr).type = SlType(row.datatype)
  /\ row.addr[3] \in 1..Place(row.addr).width

LEMMA PlaceFacts ==
  ASSUME NEW n, NEW j
  PROVE  /\ Place(<<"dwork", n, j>>) = dwork[n]
         /\ Place(<<"u", n, j>>) = [width |-> inWidth[n], type |-> inType[n]]
         /\ Place(<<"y", n, j>>)
              = [width |-> Len(slave.o_port[n].pdo),
                 type |-> slave.o_port[n].sl_port_data_type]
BY DEF Place

LEMMA InputTyped ==
  ASSUME SizesInv, LaterInv, AfterStart, NEW k, NEW row, NEW i, NEW j,
         FromInput(k, row, i, j)
  PROVE  RowTyped(row)
<1> DEFINE r == InputPort(i)
           port == slave.i_port[i]
<1>1. /\ i \in DOMAIN slave.i_port /\ j \in 1..inWidth[i]
      /\ row = MapRow(r, j, <<"u", i>>)
  BY DEF FromInput
<1>2. /\ AfterRtw /\ AfterSettle /\ WorkWidthsInv /\ RecordsInv
  BY DEF LaterInv, AfterStart, AfterRtw, AfterSettle
<1>3. /\ r.DWorkIndex = port.dwork_idx /\ r.PdoDataTypeId = port.data_type
  BY <1>1, <1>2, Recorded DEF PortRecord
<1>4. row.datatype = port.data_type
  BY <1>1, <1>3 DEF MapRow
<1>5. row.addr = IF port.dwork_idx # 0 THEN <<"dwork", port.dwork_idx, j>>
                 ELSE <<"u", i, j>>
  BY <1>1, <1>3, RowAddr
<1> HIDE DEF r
<1>6. CASE port.dwork_idx # 0
  <2>1. /\ Place(row.addr) = dwork[port.dwork_idx] /\ row.addr[3] = j
    <3>1. row.addr = <<"dwork", port.dwork_idx, j>>
      BY <1>5, <1>6
    <3> HIDE DEF port
    <3>2. Place(<<"dwork", port.dwork_idx, j>>) = dwork[port.dwork_idx]
      BY PlaceFacts
    <3>3. <<"dwork", port.dwork_idx, j>>[3] = j
      BY Triple
    <3> QED
      BY <3>1, <3>2, <3>3
  <2>2. /\ dwork[port.dwork_idx].width = inWidth[i]
        /\ dwork[port.dwork_idx].type = SlType(port.data_type)
    BY <1>1, <1>2, <1>6, DWorkParts
  <2> QED
    BY <1>1, <1>4, <2>1, <2>2 DEF RowTyped
<1>7. CASE port.dwork_idx = 0
  <2>1. /\ Place(row.addr) = [width |-> inWidth[i], type |-> inType[i]]
        /\ row.addr[3] = j
    <3>1. row.addr = <<"u", i, j>>
      BY <1>5, <1>7
    <3>2. Place(<<"u", i, j>>)
            = [width |-> inWidth[i], type |-> inType[i]]
      BY PlaceFacts
    <3>3. <<"u", i, j>>[3] = j
      BY Triple
    <3> QED
      BY <3>1, <3>2, <3>3
  <2>2. inType[i] = SlType(port.data_type)
    BY <1>1, <1>2, <1>7, InPorts
  <2> QED
    BY <1>1, <1>4, <2>1, <2>2 DEF RowTyped
<1> QED
  BY <1>6, <1>7

LEMMA OutputTyped ==
  ASSUME SizesInv, LaterInv, AfterStart, NEW k, NEW row, NEW i, NEW j,
         FromOutput(k, row, i, j)
  PROVE  RowTyped(row)
<1> DEFINE r == OutputPort(i)
           port == slave.o_port[i]
<1>1. /\ i \in DOMAIN slave.o_port /\ j \in 1..OutWidth(i)
      /\ row = MapRow(r, j, <<"y", i>>)
  BY DEF FromOutput
<1>2. /\ AfterRtw /\ AfterSettle /\ WorkWidthsInv /\ RecordsInv
  BY DEF LaterInv, AfterStart, AfterRtw, AfterSettle
<1>3. /\ r.DWorkIndex = port.dwork_idx /\ r.PdoDataTypeId = port.data_type
  BY <1>1, <1>2, Recorded DEF PortRecord
<1>4. row.datatype = port.data_type
  BY <1>1, <1>3 DEF MapRow
<1>5. row.addr = IF port.dwork_idx # 0 THEN <<"dwork", port.dwork_idx, j>>
                 ELSE <<"y", i, j>>
  BY <1>1, <1>3, RowAddr
<1> HIDE DEF r
<1>6. CASE port.dwork_idx # 0
  <2>1. /\ Place(row.addr) = dwork[port.dwork_idx] /\ row.addr[3] = j
    <3>1. row.addr = <<"dwork", port.dwork_idx, j>>
      BY <1>5, <1>6
    <3> HIDE DEF port
    <3>2. Place(<<"dwork", port.dwork_idx, j>>) = dwork[port.dwork_idx]
      BY PlaceFacts
    <3>3. <<"dwork", port.dwork_idx, j>>[3] = j
      BY Triple
    <3> QED
      BY <3>1, <3>2, <3>3
  <2>2. /\ dwork[port.dwork_idx].width = OutWidth(i)
        /\ dwork[port.dwork_idx].type = SlType(port.data_type)
    BY <1>1, <1>2, <1>6, DWorkParts
  <2> QED
    BY <1>1, <1>4, <2>1, <2>2 DEF RowTyped
<1>7. CASE port.dwork_idx = 0
  <2>1. /\ Place(row.addr) = [width |-> Len(port.pdo),
                              type |-> port.sl_port_data_type]
        /\ row.addr[3] = j
    <3>1. row.addr = <<"y", i, j>>
      BY <1>5, <1>7
    <3>2. Place(<<"y", i, j>>)
            = [width |-> Len(port.pdo), type |-> port.sl_port_data_type]
      BY PlaceFacts
    <3>3. <<"y", i, j>>[3] = j
      BY Triple
    <3> QED
      BY <3>1, <3>2, <3>3
  <2>2. PortMade(cfg, port, "in")
    BY <1>1, <1>2, OutPorts
  <2>3. port.sl_port_data_type = SlType(port.data_type)
    BY <1>7, <2>2 DEF PortMade
  <2> QED
    BY <1>1, <1>4, <2>1, <2>3 DEF RowTyped, OutWidth
<1> QED
  BY <1>6, <1>7

\* Two places of the map with the same address are one.
LEMMA OwnWork ==
  ASSUME SizesInv
  PROVE  /\ \A i, k \in DOMAIN slave.o_port :
              slave.o_port[i].dwork_idx = slave.o_port[k].dwork_idx
                /\ slave.o_port[i].dwork_idx # 0 => i = k
         /\ \A i, k \in DOMAIN slave.i_port :
              slave.i_port[i].dwork_idx = slave.i_port[k].dwork_idx
                /\ slave.i_port[i].dwork_idx # 0 => i = k
         /\ \A i \in DOMAIN slave.o_port, k \in DOMAIN slave.i_port :
              slave.o_port[i].dwork_idx = slave.i_port[k].dwork_idx
                => slave.o_port[i].dwork_idx = 0
<1> DEFINE O == slave.o_port
           I == slave.i_port
           o == Len(O)
           l == Len(I)
<1>1. Array(O) /\ Array(I) /\ Ports = O \o I
      /\ WorkOwn(Ports, slave.dwork_count)
  BY DEF SizesInv, Counting, Ports
<1> HIDE DEF O, I
<1>2. /\ o \in Nat /\ l \in Nat /\ DOMAIN O = 1..o /\ DOMAIN I = 1..l
  BY <1>1, AppendArray
<1>3. DOMAIN Ports = 1..(o + l)
  BY <1>1, PortsParts
<1>4. \A i \in 1..o : Ports[i] = O[i]
  BY <1>1, PortsParts
<1>5. \A i \in 1..l : Ports[o + i] = I[i]
  BY <1>1, PortsParts
<1> HIDE DEF o, l
<1>6. \A i, k \in 1..(o + l) :
        Ports[i].dwork_idx = Ports[k].dwork_idx /\ i # k
          => Ports[i].dwork_idx = 0
  BY <1>1, <1>3 DEF WorkOwn
<1>7. /\ \A i \in 1..o : i \in 1..(o + l)
      /\ \A i \in 1..l : o + i \in 1..(o + l)
      /\ \A i \in 1..o, k \in 1..l : i # o + k
      /\ \A i, k \in 1..l : o + i = o + k => i = k
  BY <1>2
<1>8. ASSUME NEW i \in 1..o, NEW k \in 1..o,
             O[i].dwork_idx = O[k].dwork_idx, O[i].dwork_idx # 0
      PROVE  i = k
  BY <1>4, <1>6, <1>7, <1>8
<1>9. ASSUME NEW i \in 1..l, NEW k \in 1..l,
             I[i].dwork_idx = I[k].dwork_idx, I[i].dwork_idx # 0
      PROVE  i = k
  <2>1. Ports[o + i].dwork_idx = I[i].dwork_idx
        /\ Ports[o + k].dwork_idx = I[k].dwork_idx
    BY <1>5
  <2>2. o + i = o + k
    BY <1>6, <1>7, <1>9, <2>1
  <2> QED
    BY <1>7, <2>2
<1>10. ASSUME NEW i \in 1..o, NEW k \in 1..l, O[i].dwork_idx = I[k].dwork_idx
       PROVE  O[i].dwork_idx = 0
  <2>1. Ports[i].dwork_idx = O[i].dwork_idx
        /\ Ports[o + k].dwork_idx = I[k].dwork_idx
    BY <1>4, <1>5
  <2> QED
    BY <1>6, <1>7, <1>10, <2>1
<1> QED
  BY <1>2, <1>8, <1>9, <1>10 DEF O, I

Address(t, d, i, j) == IF d # 0 THEN <<"dwork", d, j>> ELSE <<t, i, j>>

LEMMA InputAddr ==
  ASSUME SizesInv, LaterInv, AfterStart, NEW k, NEW row, NEW i, NEW j,
         FromInput(k, row, i, j)
  PROVE  /\ i \in DOMAIN slave.i_port
         /\ row.addr = Address("u", slave.i_port[i].dwork_idx, i, j)
<1>1. AfterRtw /\ RecordsInv
  BY DEF LaterInv, AfterStart, AfterRtw
<1>2. /\ i \in DOMAIN slave.i_port
      /\ row = MapRow(InputPort(i), j, <<"u", i>>)
  BY DEF FromInput
<1>3. InputPort(i).DWorkIndex = slave.i_port[i].dwork_idx
  BY <1>1, <1>2, Recorded DEF PortRecord
<1> QED
  BY <1>2, <1>3, RowAddr DEF Address

LEMMA OutputAddr ==
  ASSUME SizesInv, LaterInv, AfterStart, NEW k, NEW row, NEW i, NEW j,
         FromOutput(k, row, i, j)
  PROVE  /\ i \in DOMAIN slave.o_port
         /\ row.addr = Address("y", slave.o_port[i].dwork_idx, i, j)
<1>1. AfterRtw /\ RecordsInv
  BY DEF LaterInv, AfterStart, AfterRtw
<1>2. /\ i \in DOMAIN slave.o_port
      /\ row = MapRow(OutputPort(i), j, <<"y", i>>)
  BY DEF FromOutput
<1>3. OutputPort(i).DWorkIndex = slave.o_port[i].dwork_idx
  BY <1>1, <1>2, Recorded DEF PortRecord
<1> QED
  BY <1>2, <1>3, RowAddr DEF Address

LEMMA PlacesDiffer ==
  ASSUME SizesInv, LaterInv, AfterStart, NEW k, NEW l, NEW q, NEW r,
         NEW i, NEW j, NEW m, NEW n, q.addr = r.addr,
         FromInput(k, q, i, j) \/ FromOutput(k, q, i, j),
         FromInput(l, r, m, n) \/ FromOutput(l, r, m, n)
  PROVE  k = l
<1>1. ASSUME NEW t \in {"u", "y"}, NEW d, NEW a, NEW b,
             NEW v \in {"u", "y"}, NEW e, NEW f, NEW g,
             Address(t, d, a, b) = Address(v, e, f, g)
      PROVE  /\ b = g /\ (d # 0 <=> e # 0)
             /\ IF d # 0 THEN d = e ELSE t = v /\ a = f
  <2>1. CASE d # 0 /\ e # 0
    BY <1>1, <2>1, Triple DEF Address
  <2>2. CASE d # 0 /\ e = 0
    BY <1>1, <2>2, Triple DEF Address
  <2>3. CASE d = 0 /\ e # 0
    BY <1>1, <2>3, Triple DEF Address
  <2>4. CASE d = 0 /\ e = 0
    BY <1>1, <2>4, Triple DEF Address
  <2> QED
    BY <2>1, <2>2, <2>3, <2>4
<1> DEFINE I(a) == slave.i_port[a].dwork_idx
           O(a) == slave.o_port[a].dwork_idx
<1>2. /\ FromInput(k, q, i, j) =>
           i \in DOMAIN slave.i_port /\ q.addr = Address("u", I(i), i, j)
      /\ FromOutput(k, q, i, j) =>
           i \in DOMAIN slave.o_port /\ q.addr = Address("y", O(i), i, j)
      /\ FromInput(l, r, m, n) =>
           m \in DOMAIN slave.i_port /\ r.addr = Address("u", I(m), m, n)
      /\ FromOutput(l, r, m, n) =>
           m \in DOMAIN slave.o_port /\ r.addr = Address("y", O(m), m, n)
  <2>1. FromInput(k, q, i, j) =>
          i \in DOMAIN slave.i_port /\ q.addr = Address("u", I(i), i, j)
    BY InputAddr
  <2>2. FromOutput(k, q, i, j) =>
          i \in DOMAIN slave.o_port /\ q.addr = Address("y", O(i), i, j)
    BY OutputAddr
  <2>3. FromInput(l, r, m, n) =>
          m \in DOMAIN slave.i_port /\ r.addr = Address("u", I(m), m, n)
    BY InputAddr
  <2>4. FromOutput(l, r, m, n) =>
          m \in DOMAIN slave.o_port /\ r.addr = Address("y", O(m), m, n)
    BY OutputAddr
  <2> QED
    BY <2>1, <2>2, <2>3, <2>4
<1>3. /\ \A a, b \in DOMAIN slave.o_port : O(a) = O(b) /\ O(a) # 0 => a = b
      /\ \A a, b \in DOMAIN slave.i_port : I(a) = I(b) /\ I(a) # 0 => a = b
      /\ \A a \in DOMAIN slave.o_port, b \in DOMAIN slave.i_port :
           O(a) = I(b) => O(a) = 0
  BY OwnWork
<1> HIDE DEF I, O
<1>4. CASE FromInput(k, q, i, j) /\ FromInput(l, r, m, n)
  <2>1. Address("u", I(i), i, j) = Address("u", I(m), m, n)
    BY <1>2, <1>4
  <2>2. i = m /\ j = n
    BY <1>1, <1>2, <1>3, <1>4, <2>1
  <2> QED
    BY <1>4, <2>2 DEF FromInput
<1>5. CASE FromOutput(k, q, i, j) /\ FromOutput(l, r, m, n)
  <2>1. Address("y", O(i), i, j) = Address("y", O(m), m, n)
    BY <1>2, <1>5
  <2>2. i = m /\ j = n
    BY <1>1, <1>2, <1>3, <1>5, <2>1
  <2> QED
    BY <1>5, <2>2 DEF FromOutput
<1>6. CASE FromInput(k, q, i, j) /\ FromOutput(l, r, m, n)
  <2>1. Address("u", I(i), i, j) = Address("y", O(m), m, n)
    BY <1>2, <1>6
  <2> QED
    BY <1>1, <1>2, <1>3, <1>6, <2>1
<1>7. CASE FromOutput(k, q, i, j) /\ FromInput(l, r, m, n)
  <2>1. Address("y", O(i), i, j) = Address("u", I(m), m, n)
    BY <1>2, <1>7
  <2> QED
    BY <1>1, <1>2, <1>3, <1>7, <2>1
<1> QED
  BY <1>4, <1>5, <1>6, <1>7

\* No two ports have the same work vector, in whatever order Simulink settles
\* the inputs; and behind every address of the PDO map lies a variable of the
\* type that the conversion stores, inside its array and no other row's.
THEOREM BuffersTypedAlways == Spec => []BuffersTyped
<1>1. SizesInv => WorkVectorsOwn
  <2> SUFFICES ASSUME SizesInv PROVE WorkVectorsOwn
    OBVIOUS
  <2>1. WorkOwn(Ports, slave.dwork_count) /\ slave.dwork_count \in Nat
    BY DEF SizesInv, Counting
  <2>2. {Ports[i].dwork_idx : i \in DOMAIN Ports} \ {0} = 1..slave.dwork_count
    BY <2>1 DEF WorkOwn
  <2> QED
    BY <2>1, <2>2 DEF WorkVectorsOwn, WorkOwn
<1>2. SizesInv /\ LaterInv => BuffersTyped
  <2> SUFFICES ASSUME SizesInv, LaterInv, Done
               PROVE  /\ \A k \in DOMAIN gen.map.rows :
                           LET row == gen.map.rows[k]
                           IN  /\ Place(row.addr).type = SlType(row.datatype)
                               /\ row.addr[3] \in 1..Place(row.addr).width
                      /\ \A k, l \in DOMAIN gen.map.rows :
                           gen.map.rows[k].addr = gen.map.rows[l].addr => k = l
    BY <1>1 DEF BuffersTyped
  <2>1. AfterStart
    BY DEF Done, AfterStart
  <2>2. ASSUME NEW k \in DOMAIN gen.map.rows PROVE RowTyped(gen.map.rows[k])
    <3>1. PICK i, j : FromInput(k, gen.map.rows[k], i, j)
                        \/ FromOutput(k, gen.map.rows[k], i, j)
      BY <2>1, RowsFrom
    <3> QED
      BY <2>1, <3>1, InputTyped, OutputTyped
  <2>3. ASSUME NEW k \in DOMAIN gen.map.rows, NEW l \in DOMAIN gen.map.rows,
               gen.map.rows[k].addr = gen.map.rows[l].addr
        PROVE  k = l
    <3>1. PICK i, j : FromInput(k, gen.map.rows[k], i, j)
                        \/ FromOutput(k, gen.map.rows[k], i, j)
      BY <2>1, RowsFrom
    <3>2. PICK m, n : FromInput(l, gen.map.rows[l], m, n)
                        \/ FromOutput(l, gen.map.rows[l], m, n)
      BY <2>1, RowsFrom
    <3> QED
      BY <2>1, <2>3, <3>1, <3>2, PlacesDiffer
  <2> QED
    BY <2>2, <2>3 DEF RowTyped
<1> QED
  BY <1>2, InvAlways, PTL


-----------------------------------------------------------------------------
(* mdlSetWorkWidths(): the runtime parameters.                             *)

Globals ==
  [i \in DOMAIN cfg.parameter |->
     [name |-> cfg.parameter[i].name, value |-> cfg.parameter[i].value]]

Creates(P, a) ==
  LET create[k \in 0..Len(P)] ==
        IF k = 0 THEN a ELSE CreateOf(create[k - 1], P[k])
  IN  create

LEMMA CreatesUnrolled ==
  ASSUME NEW P, Len(P) \in Nat, NEW a
  PROVE  /\ Creates(P, a)[0] = a
         /\ \A k \in 1..Len(P) :
              Creates(P, a)[k] = CreateOf(Creates(P, a)[k - 1], P[k])
<1> DEFINE n == Len(P)
           Takes(f, m) ==
             f = [k \in 0..m |-> IF k = 0 THEN a ELSE CreateOf(f[k - 1], P[k])]
           Reached == {m \in 0..n : \E f : Takes(f, m)}
<1>0. n \in Nat
  OBVIOUS
<1> HIDE DEF n
<1>1. 0 \in Reached
  <2>1. Takes([k \in 0..0 |-> a], 0)
    OBVIOUS
  <2>2. \E f : Takes(f, 0)
    <3> HIDE DEF Takes
    <3> QED
      BY <2>1, Zenon
  <2> QED
    BY <1>0, <2>2
<1>2. ASSUME NEW m \in 0..(n - 1), m \in Reached PROVE m + 1 \in Reached
  <2>1. PICK f : Takes(f, m)
    BY <1>2
  <2> DEFINE g == [k \in 0..(m + 1) |->
                     IF k = m + 1 THEN CreateOf(f[m], P[m + 1]) ELSE f[k]]
  <2>2. ASSUME NEW k \in 0..(m + 1)
        PROVE  g[k] = IF k = 0 THEN a ELSE CreateOf(g[k - 1], P[k])
    <3>1. CASE k = 0
      BY <2>1, <3>1
    <3>2. CASE k = m + 1
      <4>1. k - 1 = m /\ g[k - 1] = f[m]
        BY <3>2
      <4> QED
        BY <3>2, <4>1
    <3>3. CASE k \in 1..m
      <4>1. k - 1 \in 0..m /\ g[k - 1] = f[k - 1] /\ g[k] = f[k]
        BY <3>3
      <4> QED
        BY <2>1, <3>3, <4>1
    <3> QED
      BY <3>1, <3>2, <3>3
  <2>3. Takes(g, m + 1)
    BY <2>2
  <2>4. \E h : Takes(h, m + 1)
    <3> HIDE DEF Takes, g
    <3> QED
      BY <2>3, Zenon
  <2> QED
    BY <1>0, <2>4
<1>3. \E f : Takes(f, n)
  <2> HIDE DEF Reached
  <2>1. \A m \in 0..n : m \in Reached
    BY <1>0, <1>1, <1>2, Turns
  <2>2. n \in Reached
    BY <1>0, <2>1
  <2> HIDE DEF Takes
  <2> QED
    BY <2>2 DEF Reached
<1>4. Takes(Creates(P, a), n)
  BY <1>3, Zenon DEF Creates, n
<1>5. Creates(P, a)[0] = a
      /\ \A k \in 1..n : Creates(P, a)[k] = CreateOf(Creates(P, a)[k - 1], P[k])
  BY <1>0, <1>4
<1> QED
  BY <1>5, Zenon DEF n

\* A runtime parameter of this name and value is among r.
Holds(r, name, value) ==
  \E i \in DOMAIN r : r[i].name = name /\ r[i].value = value

\* Those of r are among q.
Keeps(r, q) ==
  \A name, value : Holds(r, name, value) => Holds(q, name, value)

ParamHeld(r, p) ==
  p.name # NoName /\ ~p.is_ref => Holds(r, p.name, p.value)

PortHeld(r, port) ==
  ParamHeld(r, port.gain) /\ ParamHeld(r, port.offset)
    /\ ParamHeld(r, port.filter)

LEMMA KeepsTwice ==
  ASSUME NEW r, NEW q, NEW u, Keeps(r, q), Keeps(q, u)
  PROVE  Keeps(r, u)
BY DEF Keeps

LEMMA KeepsPort ==
  ASSUME NEW r, NEW q, Keeps(r, q), NEW port, PortHeld(r, port)
  PROVE  PortHeld(q, port)
BY DEF Keeps, PortHeld, ParamHeld

LEMMA CreateFacts ==
  ASSUME NEW r, Array(r), NEW p
  PROVE  /\ Array(Create(r, p)) /\ Len(Create(r, p)) = Len(r) + Counted(p)
         /\ Keeps(r, Create(r, p)) /\ ParamHeld(Create(r, p), p)
<1>0. Len(r) \in Nat /\ DOMAIN r = 1..Len(r)
  BY AppendArray
<1>1. CASE p.name = NoName \/ p.is_ref
  <2>1. Create(r, p) = r /\ Counted(p) = 0
    BY <1>1 DEF Create, Counted
  <2> QED
    BY <1>0, <1>1, <2>1 DEF Keeps, ParamHeld
<1>2. CASE ~(p.name = NoName \/ p.is_ref)
  <2> DEFINE e == [name |-> p.name, value |-> p.value]
             q == Append(r, e)
  <2>1. Create(r, p) = q /\ Counted(p) = 1
    BY <1>2 DEF Create, Counted
  <2>2. e.name = p.name /\ e.value = p.value
    OBVIOUS
  <2> HIDE DEF e
  <2>3. /\ Array(q) /\ Len(q) = Len(r) + 1 /\ DOMAIN q = 1..(Len(r) + 1)
        /\ q[Len(r) + 1] = e /\ \A i \in 1..Len(r) : q[i] = r[i]
    BY AppendArray
  <2> HIDE DEF q
  <2>4. Keeps(r, q)
    <3> SUFFICES ASSUME NEW name, NEW value, NEW i \in DOMAIN r,
                        r[i].name = name, r[i].value = value
                 PROVE  Holds(q, name, value)
      BY DEF Keeps, Holds
    <3>1. i \in DOMAIN q /\ q[i] = r[i]
      BY <1>0, <2>3
    <3> QED
      BY <3>1 DEF Holds
  <2>5. ParamHeld(q, p)
    <3>1. Len(r) + 1 \in DOMAIN q
      BY <1>0, <2>3
    <3> QED
      BY <2>2, <2>3, <3>1 DEF ParamHeld, Holds
  <2> QED
    BY <2>1, <2>3, <2>4, <2>5
<1> QED
  BY <1>1, <1>2

LEMMA CreateOfFacts ==
  ASSUME NEW r, Array(r), NEW port
  PROVE  /\ Array(CreateOf(r, port))
         /\ Len(CreateOf(r, port)) = Len(r) + CountedOf(port)
         /\ Keeps(r, CreateOf(r, port)) /\ PortHeld(CreateOf(r, port), port)
<1> DEFINE a == Create(r, port.gain)
           b == Create(a, port.offset)
           c == Create(b, port.filter)
<1>0. CreateOf(r, port) = c
  BY DEF CreateOf
<1>1. /\ Array(a) /\ Len(a) = Len(r) + Counted(port.gain)
      /\ Keeps(r, a) /\ ParamHeld(a, port.gain)
  BY CreateFacts
<1> HIDE DEF a
<1>2. /\ Array(b) /\ Len(b) = Len(a) + Counted(port.offset)
      /\ Keeps(a, b) /\ ParamHeld(b, port.offset)
  BY <1>1, CreateFacts
<1> HIDE DEF b
<1>3. /\ Array(c) /\ Len(c) = Len(b) + Counted(port.filter)
      /\ Keeps(b, c) /\ ParamHeld(c, port.filter)
  BY <1>2, CreateFacts
<1> HIDE DEF c
<1>4. Len(c) = Len(r) + CountedOf(port)
  <2>1. Len(r) \in Nat
    BY AppendArray
  <2>2. /\ Counted(port.gain) \in Nat /\ Counted(port.offset) \in Nat
        /\ Counted(port.filter) \in Nat
    BY DEF Counted
  <2> QED
    BY <1>1, <1>2, <1>3, <2>1, <2>2 DEF CountedOf
<1>5. Keeps(r, c)
  BY <1>1, <1>2, <1>3 DEF Keeps
<1>6. PortHeld(c, port)
  BY <1>1, <1>2, <1>3 DEF PortHeld, ParamHeld, Keeps
<1> QED
  BY <1>0, <1>3, <1>4, <1>5, <1>6

\* All parameters of the block are among the runtime parameters, and as many
\* as were counted.
LEMMA RuntimeParamsFacts ==
  ASSUME Array(cfg.parameter), NEW P, Array(P), P = Ports
  PROVE  /\ Len(RuntimeParams) = Len(cfg.parameter) + Sum(CountedIn(P))
         /\ \A k \in DOMAIN cfg.parameter :
              Holds(RuntimeParams, cfg.parameter[k].name, cfg.parameter[k].value)
         /\ \A m \in DOMAIN P : PortHeld(RuntimeParams, P[m])
<1> DEFINE f == Creates(P, Globals)
           C == CountedIn(P)
           n == Len(P)
           g == Len(cfg.parameter)
           Good == {k \in 0..n :
                      /\ Array(f[k]) /\ Len(f[k]) = g + SumTo(C, k)
                      /\ Keeps(Globals, f[k])
                      /\ \A m \in 1..k : PortHeld(f[k], P[m])}
<1>1. /\ n \in Nat /\ DOMAIN P = 1..n /\ g \in Nat /\ DOMAIN cfg.parameter = 1..g
      /\ C \in Seq(Nat) /\ Len(C) = n
  BY AppendArray, CountedInType
<1>2. f[0] = Globals /\ \A k \in 1..n : f[k] = CreateOf(f[k - 1], P[k])
  BY <1>1, CreatesUnrolled
<1>3. RuntimeParams = f[n]
  BY Zenon DEF RuntimeParams, Creates, Globals
<1> HIDE DEF f, g, n
<1>4. Array(Globals) /\ Len(Globals) = g
  <2>1. Globals = [i \in 1..g |-> Globals[i]] /\ DOMAIN Globals = 1..g
    BY <1>1 DEF Globals
  <2>2. Array(Globals)
    BY <1>1, <2>1, FunctionArray
  <2> QED
    BY <1>1, <2>1, <2>2, AppendArray
<1>5. 0 \in Good
  <2>1. SumTo(C, 0) = 0
    BY <1>1, SumSteps
  <2>2. Keeps(Globals, Globals)
    BY DEF Keeps
  <2> QED
    BY <1>1, <1>2, <1>4, <2>1, <2>2
<1>6. ASSUME NEW k \in 0..(n - 1), k \in Good PROVE k + 1 \in Good
  <2>1. k + 1 \in 1..n /\ (k + 1) - 1 = k /\ k + 1 \in 0..n /\ k \in 0..n
    BY <1>1
  <2>2. f[k + 1] = CreateOf(f[k], P[k + 1])
    BY <1>2, <2>1
  <2>3. /\ Array(f[k]) /\ Len(f[k]) = g + SumTo(C, k) /\ Keeps(Globals, f[k])
        /\ \A m \in 1..k : PortHeld(f[k], P[m])
    BY <1>6
  <2>4. /\ Array(f[k + 1]) /\ Len(f[k + 1]) = Len(f[k]) + CountedOf(P[k + 1])
        /\ Keeps(f[k], f[k + 1]) /\ PortHeld(f[k + 1], P[k + 1])
    BY <2>2, <2>3, CreateOfFacts
  <2>5. SumTo(C, k + 1) = SumTo(C, k) + CountedOf(P[k + 1])
        /\ SumTo(C, k) \in Nat /\ CountedOf(P[k + 1]) \in Nat
    <3>1. SumTo(C, k + 1) = SumTo(C, k) + C[k + 1] /\ SumTo(C, k) \in Nat
      BY <1>1, <2>1, SumSteps
    <3>2. C[k + 1] = CountedOf(P[k + 1])
      BY <1>1, <2>1 DEF CountedIn
    <3> QED
      BY <3>1, <3>2, CountedNat
  <2>6. Len(f[k + 1]) = g + SumTo(C, k + 1)
    BY <1>1, <2>3, <2>4, <2>5
  <2>7. Keeps(Globals, f[k + 1])
    BY <2>3, <2>4, KeepsTwice
  <2>8. ASSUME NEW m \in 1..(k + 1) PROVE PortHeld(f[k + 1], P[m])
    <3>1. CASE m = k + 1
      BY <2>4, <3>1
    <3>2. CASE m \in 1..k
      BY <2>3, <2>4, <3>2, KeepsPort
    <3> QED
      BY <2>1, <3>1, <3>2
  <2> QED
    BY <2>1, <2>4, <2>6, <2>7, <2>8
<1> HIDE DEF Good
<1>7. \A k \in 0..n : k \in Good
  BY <1>1, <1>5, <1>6, Turns
<1>8. /\ Len(f[n]) = g + SumTo(C, n) /\ Keeps(Globals, f[n])
      /\ \A m \in 1..n : PortHeld(f[n], P[m])
  <2>1. n \in Good
    BY <1>1, <1>7
  <2> QED
    BY <2>1 DEF Good
<1>9. ASSUME NEW k \in DOMAIN cfg.parameter
      PROVE  Holds(f[n], cfg.parameter[k].name, cfg.parameter[k].value)
  <2>1. Holds(Globals, cfg.parameter[k].name, cfg.parameter[k].value)
    BY DEF Globals, Holds
  <2> QED
    BY <1>8, <2>1 DEF Keeps
<1> QED
  BY <1>1, <1>3, <1>8, <1>9 DEF Sum, g, C

\* The configuration has been checked.
ValidInv == Sized => ConfigValid(cfg)

LEMMA ValidAlways == Spec => []ValidInv
<1>1. Init => ValidInv
  BY DEF Init, ValidInv, Sized
<1>2. ValidInv /\ [Next]_vars => ValidInv'
  <2> SUFFICES ASSUME ValidInv, [Next]_vars, Sized'
               PROVE  ConfigValid(cfg)'
    BY DEF ValidInv
  <2>1. cfg' = cfg
    BY DEF Next, vars, mdlInitializeSizes, mdlInitializeSizesFails, Fail,
           mdlSetInputPortDataType, mdlSetInputPortDataTypeFails,
           mdlSetInputPortWidth, mdlSetDefaultPortDataTypes,
           mdlSetDefaultPortDimensionInfo, mdlSetWorkWidths, mdlRTW, StartOther,
           Start, Outputs, Update, UpdateFails, Ended
  <2>2. Sized \/ ConfigValid(cfg)
    BY DEF Next, vars, mdlInitializeSizes, mdlInitializeSizesFails, Fail,
           mdlSetInputPortDataType, mdlSetInputPortDataTypeFails,
           mdlSetInputPortWidth, mdlSetDefaultPortDataTypes,
           mdlSetDefaultPortDimensionInfo, mdlSetWorkWidths, mdlRTW, StartOther,
           Start, Outputs, Update, UpdateFails, Ended, Sized
  <2>3. ConfigValid(cfg)
    BY <2>2 DEF ValidInv
  <2> QED
    BY <2>1, <2>3
<1> QED
  BY <1>1, <1>2, PTL DEF Spec

\* What ParametersThere asks of a setting in the code for so many elements.
There(p, width) ==
  IF "Name" \in DOMAIN p
  THEN \E i \in DOMAIN rtp :
         /\ rtp[i].name = p.Name
         /\ IF p.Element = Untold THEN Long(rtp[i].value, width)
            ELSE p.Element < Len(rtp[i].value)
  ELSE Long(p.Value, width)

AllHeld ==
  /\ \A k \in DOMAIN cfg.parameter :
       /\ cfg.parameter[k].name # NoName
       /\ Holds(rtp, cfg.parameter[k].name, cfg.parameter[k].value)
  /\ \A i \in DOMAIN slave.o_port : PortHeld(rtp, slave.o_port[i])
  /\ \A i \in DOMAIN slave.i_port : PortHeld(rtp, slave.i_port[i])

LEMMA SettingThere ==
  ASSUME AllHeld, NEW p, NEW w \in Nat, ParamMade(cfg, p, w), ParamHeld(rtp, p),
         NEW x, Means(x, p), x # NoSetting, NEW v \in Nat, v <= w
  PROVE  There(x, v)
<1>1. IsSet(p) /\ Array(p.value) /\ FitsWidth(p, w)
  BY DEF Means, ParamMade
<1>2. Len(p.value) \in Nat \ {0}
  <2>1. Len(p.value) \in Nat
    BY <1>1, AppendArray
  <2>2. Len(p.value) # 0
    BY <1>1 DEF IsSet, Array
  <2> QED
    BY <2>1, <2>2
<1>3. p.is_ref => /\ p.name # NoName /\ Holds(rtp, p.name, p.value)
                  /\ p.element_idx \in Untold..(Len(p.value) - 1)
  BY DEF ParamMade, AllHeld
<1>4. p.name # NoName => Holds(rtp, p.name, p.value)
  BY <1>3 DEF ParamHeld
<1>5. p.element_idx = Untold => Long(p.value, v)
  BY <1>1, <1>2 DEF FitsWidth, Long, Untold
<1>6. p.element_idx = Untold \/ p.element_idx \in 0..(Len(p.value) - 1)
  <2>1. ~p.is_ref => p.element_idx = Untold
    BY DEF ParamMade
  <2> QED
    BY <1>2, <1>3, <2>1 DEF Untold
<1>7. CASE p.name # NoName
  <2>1. x = [Name |-> p.name, Element |-> p.element_idx]
    BY <1>1, <1>7 DEF Means
  <2>2. "Name" \in DOMAIN x /\ x.Name = p.name /\ x.Element = p.element_idx
    BY <2>1
  <2>3. PICK i \in DOMAIN rtp : rtp[i].name = p.name /\ rtp[i].value = p.value
    BY <1>4, <1>7 DEF Holds
  <2>4. IF x.Element = Untold THEN Long(rtp[i].value, v)
        ELSE x.Element < Len(rtp[i].value)
    BY <1>2, <1>5, <1>6, <2>2, <2>3
  <2> QED
    BY <2>2, <2>3, <2>4 DEF There
<1>8. CASE p.name = NoName
  <2>1. x = [Value |-> p.value]
    BY <1>1, <1>8 DEF Means
  <2>2. "Name" \notin DOMAIN x /\ x.Value = p.value
    BY <2>1
  <2>3. p.element_idx = Untold
    BY <1>3, <1>8 DEF ParamMade
  <2> QED
    BY <1>5, <2>2, <2>3 DEF There
<1> QED
  BY <1>7, <1>8

\* The settings of a statement for a port.
SettingsThere(s) ==
  \A p \in {s.gain, s.offset, s.filter} \ {NoSetting} : There(p, s.width)

LEMMA PortThere ==
  ASSUME AllHeld, NEW port, NEW dir, PortSound(cfg, port, dir),
         PortHeld(rtp, port), NEW s, NEW plain \in BOOLEAN,
         AppliesTo(s, port, plain), s.width \in 0..Len(port.pdo)
  PROVE  SettingsThere(s)
<1> DEFINE w == Len(port.pdo)
           v == s.width
<1>1. Array(port.pdo)
  BY DEF PortSound
<1>2. w \in Nat
  BY <1>1, AppendArray
<1>3. v \in Nat /\ v <= w
  BY <1>2
<1> HIDE DEF w, v
<1>4. /\ ParamMade(cfg, port.gain, w) /\ ParamMade(cfg, port.offset, w)
      /\ ParamMade(cfg, port.filter, w)
      /\ ParamHeld(rtp, port.gain) /\ ParamHeld(rtp, port.offset)
      /\ ParamHeld(rtp, port.filter)
  BY DEF PortSound, PortHeld, w
<1>5. \A x : Means(x, NoParam) => x = NoSetting
  BY NoParamFacts DEF Means
<1>6. /\ s.gain = NoSetting \/ Means(s.gain, port.gain)
      /\ s.offset = NoSetting \/ Means(s.offset, port.offset)
      /\ Means(s.filter, port.filter)
  BY <1>5 DEF AppliesTo
<1>7. s.gain # NoSetting => There(s.gain, v)
  BY <1>2, <1>3, <1>4, <1>6, SettingThere
<1>8. s.offset # NoSetting => There(s.offset, v)
  BY <1>2, <1>3, <1>4, <1>6, SettingThere
<1>9. s.filter # NoSetting => There(s.filter, v)
  BY <1>2, <1>3, <1>4, <1>6, SettingThere
<1> QED
  BY <1>7, <1>8, <1>9 DEF SettingsThere, v

LEMMA HeldAtEnd ==
  ASSUME SizesInv, LaterInv, ValidInv, Done
  PROVE  AllHeld /\ Len(rtp) = slave.runtime_param_count
<1> DEFINE O == slave.o_port
           I == slave.i_port
<1>1. /\ SizesRight /\ rtp = RuntimeParams /\ cfg \in Configs /\ ConfigValid(cfg)
  BY DEF SizesInv, Sized, Done, LaterInv, WorkWidthsInv, AfterSettle, ValidInv
<1>2. /\ Array(O) /\ Array(I) /\ Array(cfg.parameter)
      /\ slave.runtime_param_count = Len(cfg.parameter) + Sum(CountedIn(O \o I))
  BY <1>1, ConfigsAssumption DEF SizesRight, SlaveCounts
<1>3. Ports = O \o I
  BY DEF Ports
<1> HIDE DEF O, I
<1>4. Array(Ports)
  BY <1>2, <1>3, PortsParts
<1>5. Len(rtp) = Len(cfg.parameter) + Sum(CountedIn(Ports))
  BY <1>1, <1>2, <1>4, RuntimeParamsFacts
<1>6. /\ \A k \in DOMAIN cfg.parameter :
           Holds(rtp, cfg.parameter[k].name, cfg.parameter[k].value)
      /\ \A m \in DOMAIN Ports : PortHeld(rtp, Ports[m])
  BY <1>1, <1>2, <1>4, RuntimeParamsFacts
<1>7. \A k \in DOMAIN cfg.parameter : cfg.parameter[k].name # NoName
  BY <1>1 DEF ConfigValid, ParameterValid
<1>8. /\ Len(O) \in Nat /\ Len(I) \in Nat
      /\ DOMAIN O = 1..Len(O) /\ DOMAIN I = 1..Len(I)
  BY <1>2, AppendArray
<1>9. DOMAIN Ports = 1..(Len(O) + Len(I))
  BY <1>2, <1>3, PortsParts
<1>10. \A i \in 1..Len(O) : Ports[i] = O[i]
  BY <1>2, <1>3, PortsParts
<1>11. \A i \in 1..Len(I) : Ports[Len(O) + i] = I[i]
  BY <1>2, <1>3, PortsParts
<1>12. ASSUME NEW i \in DOMAIN O PROVE PortHeld(rtp, O[i])
  <2>1. i \in DOMAIN Ports /\ Ports[i] = O[i]
    BY <1>8, <1>9, <1>10
  <2> QED
    BY <1>6, <2>1
<1>13. ASSUME NEW i \in DOMAIN I PROVE PortHeld(rtp, I[i])
  <2> DEFINE m == Len(O) + i
  <2>1. m \in DOMAIN Ports /\ Ports[m] = I[i]
    BY <1>8, <1>9, <1>11
  <2> HIDE DEF m
  <2> QED
    BY <1>6, <2>1
<1> QED
  BY <1>2, <1>3, <1>5, <1>6, <1>7, <1>12, <1>13 DEF AllHeld, O, I

\* A tuneable parameter in the code is a runtime parameter of the block, all
\* that were announced to Simulink are there, and no parameter is read behind
\* its end, for any ports, widths and references between parameters.
THEOREM ParametersThereAlways == Spec => []ParametersThere
<1>1. SizesInv /\ LaterInv /\ ValidInv => ParametersThere
  <2> SUFFICES ASSUME SizesInv, LaterInv, ValidInv, Done
               PROVE  ParametersThere
    BY DEF ParametersThere
  <2>1. AllHeld /\ Len(rtp) = slave.runtime_param_count
    BY HeldAtEnd
  <2>2. /\ AfterRtw /\ RecordsInv /\ gen.outputs = OutputCode
        /\ gen.inputs = InputCode /\ gen.filters \subseteq FilterCode
    BY FiltersWritten
  <2>3. ASSUME NEW i \in DOMAIN slave.o_port, NEW s,
               StatementRight(s, slave.o_port[i], i, OutWidth(i))
        PROVE  SettingsThere(s)
    <3>1. PortSound(cfg, slave.o_port[i], "in") /\ PortHeld(rtp, slave.o_port[i])
      BY <2>1, <2>2, OutPorts DEF PortMade, AllHeld
    <3>2. AppliesTo(s, slave.o_port[i], FALSE) /\ s.width = OutWidth(i)
      BY <2>3 DEF StatementRight
    <3>3. s.width \in 0..Len(slave.o_port[i].pdo)
      <4>1. OutWidth(i) \in Nat
        BY <2>2, OutPorts
      <4> QED
        BY <3>2, <4>1 DEF OutWidth
    <3> QED
      BY <2>1, <3>1, <3>2, <3>3, PortThere
  <2>4. ASSUME NEW s \in gen.filters PROVE SettingsThere(s)
    <3>1. PICK i \in DOMAIN slave.o_port :
             StatementRight(s, slave.o_port[i], i, OutWidth(i))
      BY <2>2, FilterStatements
    <3> QED
      BY <2>3, <3>1
  <2>5. ASSUME NEW s \in gen.outputs, s.state = Untold PROVE SettingsThere(s)
    <3>1. PICK i \in DOMAIN slave.o_port :
             IF Filtered(i)
             THEN s = [port |-> i, state |-> FilterOffset(i),
                       width |-> OutWidth(i)]
             ELSE StatementRight(s, slave.o_port[i], i, OutWidth(i))
      BY <2>2, OutputStatements
    <3>2. FilterOffset(i) \in Nat
      BY <2>2, FilterOffsets
    <3>3. ~Filtered(i)
      BY <2>5, <3>1, <3>2 DEF Untold
    <3> QED
      BY <2>3, <3>1, <3>3
  <2>6. ASSUME NEW s \in gen.inputs PROVE SettingsThere(s)
    <3>1. DOMAIN rtw.InputPortIdx = DOMAIN slave.i_port
      BY <2>2, Recorded
    <3>2. PICK i \in DOMAIN slave.i_port :
             s = InputStatement(i) /\ InputPort(i).DWorkIndex # 0
      BY <2>2, <3>1 DEF InputCode
    <3>3. /\ PortSound(cfg, slave.i_port[i], "out")
          /\ slave.i_port[i].dwork_idx # 0
          /\ inWidth[i] \in 0..Len(slave.i_port[i].pdo)
      BY <2>2, <3>2, InPorts
    <3> DEFINE plain == slave.i_port[i].data_type = 1001
    <3>4. s.width = inWidth[i] /\ AppliesTo(s, slave.i_port[i], plain)
      BY <2>2, <3>2, <3>3, InputStatements
    <3>5. plain \in BOOLEAN
      OBVIOUS
    <3>6. PortHeld(rtp, slave.i_port[i])
      BY <2>1 DEF AllHeld
    <3> HIDE DEF plain
    <3> QED
      BY <2>1, <3>3, <3>4, <3>5, <3>6, PortThere
  <2>7. ASSUME NEW s \in gen.inputs \cup gen.filters
                           \cup {t \in gen.outputs : t.state = Untold}
        PROVE  SettingsThere(s)
    BY <2>4, <2>5, <2>6
  <2> QED
    BY <2>1, <2>7 DEF ParametersThere, SettingsThere, There
<1> QED
  BY <1>1, InvAlways, ValidAlways, PTL

-----------------------------------------------------------------------------
(* SettingsFaithful: the records of the settings, found by their numbers.  *)

\* The times of a clock mode: none but AssignActivate in a single number.
ClockTime(c, k) == IF Len(c) = 1 THEN 0 ELSE c[k]

ClockRecord(c, DC) ==
  /\ DC.AssignActivate = c[1]
  /\ DC.Time = <<ClockTime(c, 2), ClockTime(c, 4), ClockTime(c, 7),
                 ClockTime(c, 9)>>
  /\ DC.Factor = <<ClockTime(c, 3), ClockTime(c, 5), ClockTime(c, 8),
                   ClockTime(c, 10)>>

LEMMA ClockRecorded ==
  ASSUME NEW c \in Seq(Int), DcValid(c), c # <<>>, Head(c) # 0
  PROVE  /\ ClockRecord(c, GetSlaveDc(c))
         /\ \A k \in 1..10 : ClockTime(c, k) \in Int
<1>1. Len(c) \in {1, 10} /\ Head(c) = c[1]
  BY DEF DcValid
<1>2. CASE Len(c) = 1
  <2>1. \A k \in 1..10 : ClockTime(c, k) = 0
    BY <1>2 DEF ClockTime
  <2>2. GetSlaveDc(c) = [NoDc EXCEPT !.AssignActivate = Head(c)]
    BY <1>2 DEF GetSlaveDc
  <2> QED
    BY <1>1, <2>1, <2>2 DEF ClockRecord, NoDc
<1>3. CASE Len(c) = 10
  <2>0. \A k \in 1..10 : c[k] \in Int
    <3>1. \A k \in 1..Len(c) : c[k] \in Int
      OBVIOUS
    <3> QED
      BY <1>3, <3>1
  <2>1. \A k \in 1..10 : ClockTime(c, k) = c[k]
    BY <1>3 DEF ClockTime
  <2>2. GetSlaveDc(c)
          = [AssignActivate |-> Head(c), ShiftTimeSync0Input |-> c[6] # 0,
             Time |-> <<c[2], c[4], c[7], c[9]>>,
             Factor |-> <<c[3], c[5], c[8], c[10]>>]
    BY <1>3 DEF GetSlaveDc
  <2>3. /\ ClockTime(c, 2) = c[2] /\ ClockTime(c, 3) = c[3]
        /\ ClockTime(c, 4) = c[4] /\ ClockTime(c, 5) = c[5]
        /\ ClockTime(c, 7) = c[7] /\ ClockTime(c, 8) = c[8]
        /\ ClockTime(c, 9) = c[9] /\ ClockTime(c, 10) = c[10]
    BY <2>1
  <2>4. ClockRecord(c, GetSlaveDc(c))
    <3>1. GetSlaveDc(c).AssignActivate = c[1]
      BY <1>1, <2>2
    <3>2. GetSlaveDc(c).Time = <<c[2], c[4], c[7], c[9]>>
      BY <2>2
    <3>3. GetSlaveDc(c).Factor = <<c[3], c[5], c[8], c[10]>>
      BY <2>2
    <3> QED
      BY <2>3, <3>1, <3>2, <3>3 DEF ClockRecord
  <2> QED
    BY <2>0, <2>1, <2>4
<1> QED
  BY <1>1, <1>2, <1>3

\* A time is scaled up, or down as far as the division goes.
LEMMA Scaled ==
  ASSUME NEW t \in Int, NEW f \in Int
  PROVE  Scale(t, f) \in Int /\ Ratio(Scale(t, f), t, f)
<1>1. CASE f >= 0
  BY <1>1 DEF Scale, Ratio
<1>2. CASE f < 0
  <2>1. PICK n \in Int : n = -f /\ n > 0
    BY <1>2
  <2>2. t \div n \in Int
    BY <2>1
  <2>5. t - (t \div n) * n \in 0..(n - 1)
    BY <2>1
  <2>6. Scale(t, f) = t \div n
    BY <1>2, <2>1 DEF Scale
  <2>7. t - Scale(t, f) * (-f) \in 0..(-f - 1)
    BY <2>1, <2>2, <2>5, <2>6
  <2> QED
    BY <1>2, <2>2, <2>6, <2>7 DEF Ratio
<1> QED
  BY <1>1, <1>2

LEMMA LongestOf ==
  ASSUME NEW x \in Int, NEW y \in Int
  PROVE  /\ Max({x, y}) \in {x, y}
         /\ Max({x, y}) >= x /\ Max({x, y}) >= y
<1>1. \E m \in {x, y} : \A z \in {x, y} : m >= z
  <2>1. CASE x >= y
    BY <2>1
  <2>2. CASE y >= x
    BY <2>2
  <2> QED
    BY <2>1, <2>2
<1> QED
  BY <1>1 DEF Max

\* CycleTime0 and T1 of the code, from a time and a factor each.
CycleOf(s, t, f) == IF t # 0 THEN t ELSE Scale(s, f)

LastOf(s, cycle, t, f) ==
  IF t # 0 THEN t
  ELSE IF f > 0 THEN cycle * f
  ELSE IF f < 0 THEN s * (-f)
  ELSE Max({s, cycle})

LEMMA CycleRight ==
  ASSUME NEW s \in Int, NEW t \in Int, NEW f \in Int
  PROVE  /\ CycleOf(s, t, f) \in Int
         /\ IF t # 0 THEN CycleOf(s, t, f) = t
            ELSE Ratio(CycleOf(s, t, f), s, f)
BY Scaled DEF CycleOf

LastIs(last, s, cycle, t, f) ==
  /\ t # 0 => last = t
  /\ t = 0 /\ f # 0 => last = IF f > 0 THEN cycle * f ELSE s * (-f)
  /\ t = 0 /\ f = 0 => last \in {s, cycle} /\ last >= s /\ last >= cycle

LEMMA LastRight ==
  ASSUME NEW s \in Int, NEW cycle \in Int, NEW t \in Int, NEW f \in Int
  PROVE  /\ LastOf(s, cycle, t, f) \in Int
         /\ LastIs(LastOf(s, cycle, t, f), s, cycle, t, f)
<1>1. CASE t # 0
  BY <1>1 DEF LastOf, LastIs
<1>2. CASE t = 0 /\ f > 0
  BY <1>2 DEF LastOf, LastIs
<1>3. CASE t = 0 /\ f < 0
  BY <1>3 DEF LastOf, LastIs
<1>4. CASE t = 0 /\ f = 0
  <2>1. LastOf(s, cycle, t, f) = Max({s, cycle})
    BY <1>4 DEF LastOf
  <2> QED
    BY <1>4, <2>1, LongestOf DEF LastIs
<1> QED
  BY <1>1, <1>2, <1>3, <1>4

LEMMA ClockSum ==
  ASSUME NEW cycle \in Int, NEW last \in Int, NEW t \in Int
  PROVE  cycle + (last - cycle + t) - t = last
OBVIOUS

LEMMA ClockWritten ==
  ASSUME SizesInv, LaterInv, Done, cfg.sm # <<>>, cfg.dc # <<>>,
         Head(cfg.dc) # 0, DcValid(cfg.dc), cfg.dc \in Seq(Int),
         SampleTime \in Nat
  PROVE  ClockFaithful(cfg.dc, gen.dc)
<1> DEFINE c == cfg.dc
           DC == GetSlaveDc(c)
           cycle == CycleOf(SampleTime, ClockTime(c, 2), ClockTime(c, 3))
           last == LastOf(SampleTime, cycle, ClockTime(c, 7), ClockTime(c, 8))
<1>1. /\ ClockRecord(c, DC) /\ \A k \in 1..10 : ClockTime(c, k) \in Int
  BY ClockRecorded
<1>2. DC.AssignActivate # 0 /\ ~NoClockMode
  <2>1. DC.AssignActivate = c[1] /\ Head(c) = c[1]
    BY <1>1 DEF ClockRecord
  <2> QED
    BY <2>1 DEF NoClockMode
<1>3. Noted(rtw, rtw.DcOpMode, DC)
  BY <1>2 DEF LaterInv, RecordsInv, RecordsRight, AfterRtw, Done
<1>4. /\ rtw.DcOpMode # Untold
      /\ SFcnParamSettings(rtw.DcOpMode) = DC
  BY <1>3 DEF Noted, SFcnParamSettings, Untold
<1>5. gen.dc = GetDcOpModeConfigId
  BY DEF LaterInv, CodeInv, AfterStart, Done
<1>6. /\ DC.AssignActivate = c[1]
      /\ DC.Time[1] = ClockTime(c, 2) /\ DC.Time[2] = ClockTime(c, 4)
      /\ DC.Time[3] = ClockTime(c, 7) /\ DC.Time[4] = ClockTime(c, 9)
      /\ DC.Factor[1] = ClockTime(c, 3) /\ DC.Factor[2] = ClockTime(c, 5)
      /\ DC.Factor[3] = ClockTime(c, 8)
  BY <1>1 DEF ClockRecord
<1>7. /\ SampleTime \in Int
      /\ ClockTime(c, 2) \in Int /\ ClockTime(c, 3) \in Int
      /\ ClockTime(c, 4) \in Int /\ ClockTime(c, 5) \in Int
      /\ ClockTime(c, 7) \in Int /\ ClockTime(c, 8) \in Int
      /\ ClockTime(c, 9) \in Int
  BY <1>1
<1> HIDE DEF DC
<1>8. cycle \in Int /\ IF ClockTime(c, 2) # 0 THEN cycle = ClockTime(c, 2)
                       ELSE Ratio(cycle, SampleTime, ClockTime(c, 3))
  BY <1>7, CycleRight
<1>9. /\ gen.dc.assign = c[1]
      /\ gen.dc.cycle0 = cycle
      /\ gen.dc.cycle1 = last - cycle + ClockTime(c, 9)
      /\ gen.dc.shift = ClockTime(c, 4) + Scale(cycle, ClockTime(c, 5))
  <2>1. CycleTime0(DC) = cycle
    BY <1>6 DEF CycleTime0, CycleOf
  <2>2. T1(DC) = last
    BY <1>6, <2>1 DEF T1, LastOf
  <2>4. gen.dc = [assign |-> DC.AssignActivate,
                  input |-> DC.ShiftTimeSync0Input, cycle0 |-> CycleTime0(DC),
                  cycle1 |-> T1(DC) - CycleTime0(DC) + DC.Time[4],
                  shift |-> DC.Time[2] + Scale(CycleTime0(DC), DC.Factor[2])]
    BY <1>4, <1>5 DEF GetDcOpModeConfigId
  <2> QED
    BY <1>6, <2>1, <2>2, <2>4
<1> HIDE DEF cycle
<1>10. /\ Scale(cycle, ClockTime(c, 5)) \in Int
       /\ Ratio(Scale(cycle, ClockTime(c, 5)), cycle, ClockTime(c, 5))
  BY <1>7, <1>8, Scaled
<1>11. /\ last \in Int
       /\ LastIs(last, SampleTime, cycle, ClockTime(c, 7), ClockTime(c, 8))
  BY <1>7, <1>8, LastRight
<1> HIDE DEF last
<1>12. gen.dc.cycle0 + gen.dc.cycle1 - ClockTime(c, 9) = last
  BY <1>7, <1>8, <1>9, <1>11, ClockSum
<1>13. gen.dc.shift - ClockTime(c, 4) = Scale(cycle, ClockTime(c, 5))
  BY <1>7, <1>9, <1>10
<1>14. SampleTime = IF cfg.SampleTime = 0 THEN ClockTick ELSE cfg.SampleTime
  BY DEF SampleTime
<1> QED
  BY <1>8, <1>9, <1>10, <1>11, <1>12, <1>13, <1>14
     DEF ClockFaithful, ClockTime, LastIs

LEMMA SdoWritten ==
  ASSUME SizesInv, LaterInv, Done, NEW i \in DOMAIN cfg.sdo,
         SdoValid(cfg.sdo[i]), Array(cfg.sdo[i].value), Array(cfg.sdo)
  PROVE  LET g == gen.sdo[i]
             c == cfg.sdo[i]
         IN  /\ g.index = c.index
             /\ IF c.bitlen = 0
                THEN /\ g.byte_array = c.value /\ g.value = Len(c.value)
                     /\ g.subindex = -1
                ELSE /\ g.subindex = c.subindex /\ g.byte_array = <<>>
                     /\ g.datatype = 1000 + c.bitlen /\ <<g.value>> = c.value
<1> DEFINE c == cfg.sdo[i]
           r == GetSlaveSdo(c)
<1>1. Listed(rtw, "SdoConfig", SdoRecords, Len(cfg.sdo)) /\ RtwOK(rtw)
  BY DEF LaterInv, RecordsInv, RecordsRight, AfterRtw, Done
<1>2. DOMAIN cfg.sdo = 1..Len(cfg.sdo) /\ Len(cfg.sdo) \in Nat
  BY AppendArray
<1>3. DOMAIN rtw["SdoConfig"] = 1..Len(rtw["SdoConfig"])
  BY <1>1, Lengths DEF Lists
<1>4. i \in DOMAIN rtw.SdoConfig /\ Noted(rtw, rtw.SdoConfig[i], SdoRecords[i])
  BY <1>1, <1>2, <1>3 DEF Listed
<1>5. SdoRecords[i] = r /\ SFcnParamSettings(rtw.SdoConfig[i]) = r
  BY <1>4 DEF Noted, SFcnParamSettings, SdoRecords
<1>6. gen.sdo = GetSdoConfig
  BY DEF LaterInv, CodeInv, AfterStart, Done
<1>7. gen.sdo[i] = IF r.byte_array # <<>>
        THEN [datatype |-> 1008, index |-> r.index, subindex |-> -1,
              value |-> Len(r.byte_array), byte_array |-> r.byte_array]
        ELSE [r EXCEPT !.byte_array = <<>>]
  BY <1>4, <1>5, <1>6 DEF GetSdoConfig
<1>8. CASE c.bitlen = 0
  <2>1. c.value # <<>>
    BY DEF SdoValid
  <2>2. r.byte_array = c.value /\ r.index = c.index
    BY <1>8 DEF GetSlaveSdo
  <2> QED
    BY <1>7, <1>8, <2>1, <2>2
<1>9. CASE c.bitlen # 0
  <2>1. Len(c.value) = 1
    BY <1>9 DEF SdoValid
  <2>2. c.value = <<Head(c.value)>>
    BY <2>1 DEF Array
  <2>3. r = [index |-> c.index, subindex |-> c.subindex,
             datatype |-> 1000 + c.bitlen, value |-> Head(c.value),
             byte_array |-> <<>>]
    BY <1>9 DEF GetSlaveSdo, SdoType
  <2>4. gen.sdo[i] = r
    BY <1>7, <2>3
  <2> QED
    BY <1>9, <2>2, <2>3, <2>4
<1> QED
  BY <1>8, <1>9

LEMMA SettingsListed ==
  ASSUME SizesInv, LaterInv, Done, Array(cfg.sdo), Array(cfg.soe)
  PROVE  /\ Len(gen.sdo) = Len(cfg.sdo)
         /\ Len(gen.soe) = Len(cfg.soe)
         /\ \A i \in DOMAIN cfg.soe :
              LET g == gen.soe[i]
                  c == cfg.soe[i]
              IN  /\ g.index = c.index
                  /\ c.form = "numbers" => g.octet_string = c.value
<1>1. /\ Listed(rtw, "SdoConfig", SdoRecords, Len(cfg.sdo)) /\ RtwOK(rtw)
      /\ Listed(rtw, "SoeConfig", SoeRecords, Len(cfg.soe))
  BY DEF LaterInv, RecordsInv, RecordsRight, AfterRtw, Done
<1>2. /\ Len(cfg.sdo) \in Nat
      /\ DOMAIN cfg.soe = 1..Len(cfg.soe) /\ Len(cfg.soe) \in Nat
  BY AppendArray
<1>3. /\ Array(rtw["SdoConfig"])
      /\ DOMAIN rtw["SdoConfig"] = 1..Len(rtw["SdoConfig"])
      /\ DOMAIN rtw["SoeConfig"] = 1..Len(rtw["SoeConfig"])
  BY <1>1, Lengths DEF Lists, RtwOK
<1>4. gen.sdo = GetSdoConfig /\ gen.soe = GetSoeConfig
  BY DEF LaterInv, CodeInv, AfterStart, Done
<1>5. DOMAIN gen.sdo = 1..Len(cfg.sdo)
  BY <1>1, <1>3, <1>4 DEF GetSdoConfig, Listed
<1>6. Len(gen.sdo) = Len(cfg.sdo)
  BY <1>2, <1>5
<1>7. DOMAIN gen.soe = DOMAIN cfg.soe
  BY <1>1, <1>2, <1>3, <1>4 DEF GetSoeConfig, Listed
<1>8. Len(gen.soe) = Len(cfg.soe)
  BY <1>2, <1>7
<1>9. ASSUME NEW i \in DOMAIN cfg.soe
      PROVE  /\ gen.soe[i].index = cfg.soe[i].index
             /\ cfg.soe[i].form = "numbers" =>
                  gen.soe[i].octet_string = cfg.soe[i].value
  <2>1. i \in DOMAIN rtw.SoeConfig /\ Noted(rtw, rtw.SoeConfig[i], SoeRecords[i])
    BY <1>1, <1>2, <1>3 DEF Listed
  <2>2. gen.soe[i] = GetSlaveSoe(cfg.soe[i])
    BY <1>4, <2>1 DEF GetSoeConfig, Noted, SFcnParamSettings, SoeRecords
  <2> QED
    BY <2>2 DEF GetSlaveSoe
<1> QED
  BY <1>6, <1>8, <1>9

LEMMA NoClockWritten ==
  ASSUME SizesInv, LaterInv, Done,
         cfg.sm = <<>> \/ cfg.dc = <<>> \/ Head(cfg.dc) = 0
  PROVE  gen.dc = NoClock
<1>1. NoClockMode
  <2>1. cfg.dc = <<>> \/ Head(cfg.dc) = 0 => GetSlaveDc(cfg.dc).AssignActivate = 0
    BY DEF GetSlaveDc, NoDc
  <2> QED
    BY <2>1 DEF NoClockMode
<1>2. rtw.DcOpMode = Untold
  BY <1>1 DEF LaterInv, RecordsInv, RecordsRight, AfterRtw, Done
<1> QED
  BY <1>2 DEF LaterInv, CodeInv, AfterStart, Done, GetDcOpModeConfigId

(* ec_slave3.c mdlRTW(), ec_slave3.tlc GetSdoConfig(), GetSoeConfig() and  *)
(* GetDcOpModeConfigId(): for every configuration the generated program    *)
(* sends the slave its single SDOs as configured, its arrays whole and by  *)
(* complete access, its SoE settings under their indices, those of numbers *)
(* with their contents, and sets the clocks to the times of the help.      *)
THEOREM SettingsFaithfulAlways == Spec => []SettingsFaithful
<1>1. SizesInv /\ LaterInv /\ ValidInv => SettingsFaithful
  <2> SUFFICES ASSUME SizesInv, LaterInv, ValidInv, Done PROVE SettingsFaithful
    BY DEF SettingsFaithful
  <2>1. ConfigValid(cfg) /\ cfg \in Configs
    BY DEF ValidInv, Sized, Done, SizesInv
  <2>2. /\ Array(cfg.sdo) /\ Array(cfg.soe)
    BY <2>1, ConfigsAssumption
  <2>3. /\ ClockTick \in Nat /\ cfg.SampleTime \in Nat /\ cfg.dc \in Seq(Int)
        /\ \A i \in DOMAIN cfg.sdo : Array(cfg.sdo[i].value)
    BY <2>1, SettingsAssumption
  <2>4. DcValid(cfg.dc) /\ \A i \in DOMAIN cfg.sdo : SdoValid(cfg.sdo[i])
    BY <2>1 DEF ConfigValid
  <2>5. /\ Len(gen.sdo) = Len(cfg.sdo)
        /\ Len(gen.soe) = Len(cfg.soe)
        /\ \A i \in DOMAIN cfg.soe :
             LET g == gen.soe[i]
                 c == cfg.soe[i]
             IN  /\ g.index = c.index
                 /\ c.form = "numbers" => g.octet_string = c.value
    BY <2>2, SettingsListed
  <2>6. SampleTime \in Nat
    BY <2>3 DEF SampleTime
  <2>7. IF cfg.sm = <<>> \/ cfg.dc = <<>> \/ Head(cfg.dc) = 0
        THEN gen.dc = NoClock
        ELSE ClockFaithful(cfg.dc, gen.dc)
    BY <2>3, <2>4, <2>6, NoClockWritten, ClockWritten
  <2>8. ASSUME NEW i \in DOMAIN cfg.sdo
        PROVE  LET g == gen.sdo[i]
                   c == cfg.sdo[i]
               IN  /\ g.index = c.index
                   /\ IF c.bitlen = 0
                      THEN /\ g.byte_array = c.value /\ g.value = Len(c.value)
                           /\ g.subindex = -1
                      ELSE /\ g.subindex = c.subindex /\ g.byte_array = <<>>
                           /\ g.datatype = 1000 + c.bitlen
                           /\ <<g.value>> = c.value
    BY <2>2, <2>3, <2>4, SdoWritten
  <2> QED
    BY <2>5, <2>7, <2>8 DEF SettingsFaithful
<1> QED
  BY <1>1, InvAlways, ValidAlways, PTL

-----------------------------------------------------------------------------
(* MapFaithful: the ports in the order of the settings they come from.     *)

\* The settings of the first k ports, those without one left out.
Single(spec) == IF spec.form = "none" THEN <<>> ELSE <<spec>>
Singles(specs) == [i \in DOMAIN specs |-> Single(specs[i])]
UsedTo(specs, k) == IF k = 0 THEN <<>> ELSE Flats(Singles(specs))[k]

LEMMA ConcatNone ==
  ASSUME NEW s, Array(s), NEW x
  PROVE  <<>> \o s = s /\ s \o <<>> = s /\ s \o <<x>> = Append(s, x)
BY DEF Array

LEMMA UsedSteps ==
  ASSUME NEW specs, Array(specs), NEW k \in 0..(Len(specs) - 1),
         Array(UsedTo(specs, k))
  PROVE  UsedTo(specs, k + 1)
           = IF specs[k + 1].form = "none" THEN UsedTo(specs, k)
             ELSE Append(UsedTo(specs, k), specs[k + 1])
<1> DEFINE n == Len(specs)
           ss == Singles(specs)
           x == specs[k + 1]
<1>1. n \in Nat /\ DOMAIN specs = 1..n /\ k + 1 \in 1..n
  BY AppendArray
<1>2. Len(ss) = n /\ ss[k + 1] = Single(x)
  BY <1>1 DEF Singles
<1> HIDE DEF n, ss, x
<1>7. Len(ss) \in Nat \ {0}
  BY <1>1, <1>2
<1>3. /\ Flats(ss)[1] = ss[1]
      /\ \A m \in 2..n : Flats(ss)[m] = Flats(ss)[m - 1] \o ss[m]
  BY <1>2, <1>7, FlatsUnrolled
<1>4. UsedTo(specs, k + 1) = UsedTo(specs, k) \o Single(x)
  <2>1. UsedTo(specs, k + 1) = Flats(ss)[k + 1]
    BY <1>1 DEF UsedTo, ss
  <2>2. CASE k = 0
    <3>1. UsedTo(specs, k) = <<>> /\ UsedTo(specs, k + 1) = Single(x)
      BY <1>2, <1>3, <2>1, <2>2 DEF UsedTo
    <3>2. <<>> \o Single(x) = Single(x)
      BY DEF Single
    <3> QED
      BY <3>1, <3>2
  <2>3. CASE k # 0
    <3>1. k + 1 \in 2..n /\ (k + 1) - 1 = k
      BY <1>1, <2>3
    <3>2. UsedTo(specs, k) = Flats(ss)[k]
      BY <2>3 DEF UsedTo, ss
    <3> QED
      BY <1>2, <1>3, <2>1, <3>1, <3>2
  <2> QED
    BY <2>2, <2>3
<1>5. CASE x.form = "none"
  BY <1>4, <1>5, ConcatNone DEF Single, x
<1>6. CASE x.form # "none"
  BY <1>4, <1>6, ConcatNone DEF Single, x
<1> QED
  BY <1>5, <1>6 DEF x

LEMMA UsedAll ==
  ASSUME NEW specs, Array(specs)
  PROVE  Used(specs) = UsedTo(specs, Len(specs))
<1> DEFINE ss == Singles(specs)
<1>1. /\ Len(specs) \in Nat /\ DOMAIN specs = 1..Len(specs)
  BY AppendArray
<1>2. Len(ss) = Len(specs) /\ Used(specs) = FlattenSeq(ss)
  <2>1. Len(ss) = Len(specs)
    BY <1>1 DEF Singles
  <2>2. Used(specs) = FlattenSeq(ss)
    BY DEF Used, Singles, Single
  <2> QED
    BY <2>1, <2>2
<1>3. CASE Len(specs) = 0
  <2>1. ss = <<>>
    BY <1>1, <1>3 DEF Singles
  <2>2. FlattenSeq(ss) = ss
    BY <2>1 DEF FlattenSeq
  <2> QED
    BY <1>2, <1>3, <2>1, <2>2 DEF UsedTo
<1>4. CASE Len(specs) # 0
  <2>1. FlattenSeq(ss) = Flats(ss)[Len(ss)]
    <3> HIDE DEF ss
    <3> QED
      BY <1>2, <1>4, Zenon DEF FlattenSeq, Flats
  <2> QED
    BY <1>2, <1>4, <2>1 DEF UsedTo
<1> QED
  BY <1>3, <1>4

\* What the map says of a port, and of ports that come from these settings.
Tells(port) ==
  [j \in DOMAIN port.pdo |->
     <<port.pdo[j].entry.index, port.pdo[j].entry.subindex, port.data_type,
       port.big_endian, port.pdo[j].element_idx>>]

From(c, P, u) ==
  /\ Array(P) /\ Array(u) /\ Len(P) = Len(u)
  /\ \A i \in DOMAIN P : Tells(P[i]) = Told(c, u[i])

LEMMA RawTells ==
  ASSUME NEW c \in Configs, NEW spec, PortSpecOK(spec), spec.form = "raw",
         NEW dir, PortValid(c, spec, dir)
  PROVE  Tells(RawPort(c, spec)) = Told(c, spec)
<1> DEFINE entry == PdoOf(c, spec.pdo).entry
           bits == Sum([i \in DOMAIN entry |-> entry[i].bitlen])
           port == RawPort(c, spec)
           n == (bits + 7) \div 8
<1>1. bits \in Nat
  BY RawBits
<1>2. /\ port.pdo = [j \in 1..n |-> [entry |-> entry[1], element_idx |-> j - 1]]
      /\ port.data_type = 1008 /\ port.big_endian = FALSE
  BY DEF RawPort
<1>3. n = IF bits % 8 = 0 THEN bits \div 8 ELSE (bits \div 8) + 1
  <2> HIDE DEF bits
  <2> QED
    BY <1>1
<1>4. Told(c, spec)
        = [j \in 1..(IF bits % 8 = 0 THEN bits \div 8 ELSE (bits \div 8) + 1) |->
             <<entry[1].index, entry[1].subindex, 1008, FALSE, j - 1>>]
  BY DEF Told
<1>5. Told(c, spec)
        = [j \in 1..n |-> <<entry[1].index, entry[1].subindex, 1008, FALSE, j - 1>>]
  BY <1>3, <1>4
<1> HIDE DEF port, n, bits, entry
<1>6. /\ DOMAIN port.pdo = 1..n
      /\ \A j \in 1..n : port.pdo[j].entry = entry[1]
                         /\ port.pdo[j].element_idx = j - 1
  BY <1>2
<1>7. Tells(port)
        = [j \in 1..n |->
             <<port.pdo[j].entry.index, port.pdo[j].entry.subindex,
               1008, FALSE, port.pdo[j].element_idx>>]
  BY <1>2, <1>6 DEF Tells
<1>8. \A j \in 1..n :
        <<port.pdo[j].entry.index, port.pdo[j].entry.subindex,
          1008, FALSE, port.pdo[j].element_idx>>
          = <<entry[1].index, entry[1].subindex, 1008, FALSE, j - 1>>
  BY <1>6
<1> QED
  BY <1>5, <1>7, <1>8 DEF port

LEMMA PdoTells ==
  ASSUME NEW c, NEW spec, spec.form # "raw", NEW dir, NEW n
  PROVE  Tells(PdoPort(c, spec, dir, n)) = Told(c, spec)
<1> DEFINE port == PdoPort(c, spec, dir, n)
           pdo == [j \in DOMAIN spec.pdo |->
                    [entry |-> PdoOf(c, spec.pdo[j]).entry[spec.pdo[j][3] + 1],
                     element_idx |-> spec.pdo[j][4]]]
<1>1. /\ port.pdo = pdo /\ port.data_type = GetDataType(spec.pdo_data_type)
      /\ port.big_endian = spec.big_endian
  BY DEF PdoPort
<1>2. Told(c, spec)
        = [j \in DOMAIN spec.pdo |->
             LET e == PdoOf(c, spec.pdo[j]).entry[spec.pdo[j][3] + 1]
             IN  <<e.index, e.subindex, GetDataType(spec.pdo_data_type),
                   spec.big_endian, spec.pdo[j][4]>>]
  BY DEF Told
<1> HIDE DEF port
<1>3. /\ DOMAIN port.pdo = DOMAIN spec.pdo
      /\ \A j \in DOMAIN spec.pdo :
           /\ port.pdo[j].entry
                = PdoOf(c, spec.pdo[j]).entry[spec.pdo[j][3] + 1]
           /\ port.pdo[j].element_idx = spec.pdo[j][4]
  BY <1>1
<1> QED
  BY <1>1, <1>2, <1>3 DEF Tells, port

LEMMA NewPortTells ==
  ASSUME NEW c \in Configs, NEW spec, PortSpecOK(spec),
         NEW dir, PortValid(c, spec, dir), NEW n
  PROVE  Tells(NewPort(c, spec, dir, n)) = Told(c, spec)
BY RawTells, PdoTells DEF NewPort

LEMMA FromAppend ==
  ASSUME NEW c, NEW P, NEW u, From(c, P, u), NEW port, NEW spec,
         Tells(port) = Told(c, spec)
  PROVE  From(c, Append(P, port), Append(u, spec))
<1> DEFINE Q == Append(P, port)
           v == Append(u, spec)
           n == Len(P)
<1>1. /\ Array(P) /\ Array(u) /\ n = Len(u)
      /\ \A i \in DOMAIN P : Tells(P[i]) = Told(c, u[i])
  BY DEF From
<1>2. /\ n \in Nat /\ DOMAIN P = 1..n /\ Array(Q) /\ Array(v)
      /\ Len(Q) = n + 1 /\ DOMAIN Q = 1..(n + 1)
      /\ Q[n + 1] = port /\ \A i \in 1..n : Q[i] = P[i]
  BY <1>1, AppendArray
<1>3. Len(v) = n + 1 /\ v[n + 1] = spec /\ \A i \in 1..n : v[i] = u[i]
  BY <1>1, AppendArray
<1> HIDE DEF Q, v, n
<1>4. ASSUME NEW i \in 1..(n + 1) PROVE Tells(Q[i]) = Told(c, v[i])
  <2>1. CASE i = n + 1
    BY <1>2, <1>3, <2>1
  <2>2. CASE i \in 1..n
    BY <1>1, <1>2, <1>3, <2>2
  <2> QED
    BY <1>2, <2>1, <2>2
<1>5. From(c, Q, v)
  BY <1>2, <1>3, <1>4 DEF From
<1> QED
  BY <1>5 DEF Q, v

\* A round of the loop: the port is kept if and only if its settings are.
LEMMA AddPortFrom ==
  ASSUME NEW c \in Configs, NEW s, NEW spec, PortSpecOK(spec),
         NEW dir \in {"in", "out"}, PortValid(c, spec, dir),
         NEW u, NEW w, From(c, s.o_port, u), From(c, s.i_port, w)
  PROVE  LET t == AddPort(c, s, spec, dir)
             Longer(x) == IF spec.form = "none" THEN x ELSE Append(x, spec)
         IN  IF dir = "in"
             THEN From(c, t.o_port, Longer(u)) /\ t.i_port = s.i_port
             ELSE From(c, t.i_port, Longer(w)) /\ t.o_port = s.o_port
<1> DEFINE t == AddPort(c, s, spec, dir)
           port == NewPort(c, spec, dir, s.dwork_count)
<1>1. CASE spec.form = "none"
  <2>1. t = s
    BY <1>1 DEF AddPort
  <2> QED
    BY <1>1, <2>1
<1>2. CASE spec.form # "none"
  <2>1. /\ t.o_port = IF dir = "in" THEN Append(s.o_port, port) ELSE s.o_port
        /\ t.i_port = IF dir = "in" THEN s.i_port ELSE Append(s.i_port, port)
    BY <1>2 DEF AddPort, NewPort
  <2>2. Tells(port) = Told(c, spec)
    BY NewPortTells
  <2> HIDE DEF t, port
  <2>3. From(c, Append(s.o_port, port), Append(u, spec))
    BY <2>2, FromAppend
  <2>4. From(c, Append(s.i_port, port), Append(w, spec))
    BY <2>2, FromAppend
  <2> QED
    BY <1>2, <2>1, <2>3, <2>4 DEF t
<1> QED
  BY <1>1, <1>2

PortsFrom(c, s, k) ==
  /\ From(c, s.o_port, UsedTo(c.output, IF k <= Len(c.output) THEN k
                                        ELSE Len(c.output)))
  /\ From(c, s.i_port, UsedTo(c.input, IF k <= Len(c.output) THEN 0
                                       ELSE k - Len(c.output)))

LEMMA OutputRound ==
  ASSUME NEW c \in Configs, PortsValid(c), NEW s,
         NEW k \in 0..(Len(c.output) - 1), PortsFrom(c, s, k)
  PROVE  PortsFrom(c, AddPort(c, s, c.output[k + 1], "in"), k + 1)
<1> DEFINE o == Len(c.output)
           spec == c.output[k + 1]
           u == UsedTo(c.output, k)
           t == AddPort(c, s, spec, "in")
<1>1. /\ Array(c.output) /\ o \in Nat /\ DOMAIN c.output = 1..o
      /\ \A i \in DOMAIN c.output : PortSpecOK(c.output[i])
  BY ConfigsAssumption, AppendArray
<1>2. /\ k \in Nat /\ k <= o /\ k + 1 <= o /\ k + 1 \in 1..o
  BY <1>1
<1>3. PortSpecOK(spec) /\ PortValid(c, spec, "in")
  BY <1>1, <1>2 DEF PortsValid
<1>4. From(c, s.o_port, u) /\ From(c, s.i_port, UsedTo(c.input, 0))
  BY <1>2 DEF PortsFrom
<1>5. /\ From(c, t.o_port, IF spec.form = "none" THEN u ELSE Append(u, spec))
      /\ t.i_port = s.i_port
  BY <1>3, <1>4, AddPortFrom
<1>6. UsedTo(c.output, k + 1)
        = IF spec.form = "none" THEN u ELSE Append(u, spec)
  BY <1>1, <1>4, UsedSteps DEF From
<1> HIDE DEF t, spec, u
<1>7. /\ From(c, t.o_port, UsedTo(c.output, k + 1))
      /\ From(c, t.i_port, UsedTo(c.input, 0))
  BY <1>4, <1>5, <1>6
<1>8. PortsFrom(c, t, k + 1)
  BY <1>2, <1>7 DEF PortsFrom
<1> QED
  BY <1>8 DEF t, spec

LEMMA InputRound ==
  ASSUME NEW c \in Configs, PortsValid(c), NEW s,
         NEW m \in 0..(Len(c.input) - 1),
         PortsFrom(c, s, Len(c.output) + m)
  PROVE  PortsFrom(c, AddPort(c, s, c.input[m + 1], "out"),
                   Len(c.output) + (m + 1))
<1> DEFINE o == Len(c.output)
           l == Len(c.input)
           spec == c.input[m + 1]
           w == UsedTo(c.input, m)
           t == AddPort(c, s, spec, "out")
<1>1. /\ Array(c.output) /\ o \in Nat
      /\ Array(c.input) /\ l \in Nat /\ DOMAIN c.input = 1..l
      /\ \A i \in DOMAIN c.input : PortSpecOK(c.input[i])
  BY ConfigsAssumption, AppendArray
<1>2. /\ m \in Nat /\ m + 1 \in 1..l
  BY <1>1
<1>3. PortSpecOK(spec) /\ PortValid(c, spec, "out")
  BY <1>1, <1>2 DEF PortsValid
<1>4. From(c, s.o_port, UsedTo(c.output, o)) /\ From(c, s.i_port, w)
  <2>1. CASE m = 0
    <3>1. o + m = o /\ o <= o
      BY <1>1, <2>1
    <3> QED
      BY <2>1, <3>1 DEF PortsFrom
  <2>2. CASE m # 0
    <3>1. ~(o + m <= o) /\ (o + m) - o = m
      BY <1>1, <1>2, <2>2
    <3> QED
      BY <3>1 DEF PortsFrom
  <2> QED
    BY <2>1, <2>2
<1>5. /\ From(c, t.i_port, IF spec.form = "none" THEN w ELSE Append(w, spec))
      /\ t.o_port = s.o_port
  BY <1>3, <1>4, AddPortFrom
<1>6. UsedTo(c.input, m + 1)
        = IF spec.form = "none" THEN w ELSE Append(w, spec)
  BY <1>1, <1>4, UsedSteps DEF From
<1> HIDE DEF t, spec, w
<1>7. /\ From(c, t.o_port, UsedTo(c.output, o))
      /\ From(c, t.i_port, UsedTo(c.input, m + 1))
  BY <1>4, <1>5, <1>6
<1>8. ~(o + (m + 1) <= o) /\ (o + (m + 1)) - o = m + 1
  <2>1. o \in Nat /\ m \in Nat
    BY <1>1, <1>2
  <2> HIDE DEF o
  <2> QED
    BY <2>1
<1>9. PortsFrom(c, t, o + (m + 1))
  BY <1>7, <1>8 DEF PortsFrom
<1> QED
  BY <1>9 DEF t, spec

LEMMA GetIoportConfigFrom ==
  ASSUME NEW c \in Configs, PortsValid(c)
  PROVE  LET s == GetIoportConfig(c)
         IN  /\ From(c, s.o_port, Used(c.output))
             /\ From(c, s.i_port, Used(c.input))
<1> DEFINE f == Reads(c)
           o == Len(c.output)
           l == Len(c.input)
           n == o + l
           Good == {k \in 0..n : PortsFrom(c, f[k], k)}
<1>1. /\ Array(c.output) /\ Array(c.input) /\ o \in Nat /\ l \in Nat
  BY ConfigsAssumption, AppendArray
<1>2. /\ f[0] = [NoSlave EXCEPT !.runtime_param_count = Len(c.parameter)]
      /\ \A k \in 1..n : f[k] = ReadPort(c, f[k - 1], k)
  BY <1>1, ReadsUnrolled
<1>3. n \in Nat /\ o \in Nat /\ l \in Nat
  <2>1. o \in Nat /\ l \in Nat
    BY <1>1
  <2> HIDE DEF o, l
  <2> QED
    BY <2>1
<1> HIDE DEF f, o, l
<1>4. 0 \in Good
  <2>1. f[0].o_port = <<>> /\ f[0].i_port = <<>>
    BY <1>2 DEF NoSlave
  <2>2. From(c, <<>>, <<>>)
    BY DEF From, Array
  <2>3. UsedTo(c.output, 0) = <<>> /\ UsedTo(c.input, 0) = <<>> /\ 0 <= o
    BY <1>3 DEF UsedTo
  <2> QED
    BY <1>3, <2>1, <2>2, <2>3 DEF PortsFrom, o
<1>5. ASSUME NEW k \in 0..(n - 1), k \in Good PROVE k + 1 \in Good
  <2>1. k + 1 \in 1..n /\ k + 1 \in 0..n /\ (k + 1) - 1 = k
    BY <1>3 DEF n
  <2>2. PortsFrom(c, f[k], k) /\ f[k + 1] = ReadPort(c, f[k], k + 1)
    BY <1>2, <1>5, <2>1
  <2>3. CASE k + 1 <= o
    <3>1. k \in 0..(o - 1)
      BY <1>3, <2>3
    <3>2. f[k + 1] = AddPort(c, f[k], c.output[k + 1], "in")
      BY <2>2, <2>3 DEF ReadPort, o
    <3>3. PortsFrom(c, f[k + 1], k + 1)
      BY <2>2, <3>1, <3>2, OutputRound DEF o
    <3> QED
      BY <2>1, <3>3
  <2>4. CASE ~(k + 1 <= o)
    <3> DEFINE m == k - o
    <3>1. m \in 0..(l - 1) /\ o + m = k /\ o + (m + 1) = k + 1
          /\ (k + 1) - o = m + 1
      BY <1>3, <2>1, <2>4
    <3>2. f[k + 1] = AddPort(c, f[k], c.input[m + 1], "out")
      BY <2>2, <2>4, <3>1 DEF ReadPort, o
    <3> HIDE DEF m
    <3>3. PortsFrom(c, f[k], o + m)
      BY <2>2, <3>1
    <3>4. PortsFrom(c, f[k + 1], o + (m + 1))
      BY <3>1, <3>2, <3>3, InputRound DEF o, l
    <3> QED
      BY <2>1, <3>1, <3>4
  <2> QED
    BY <2>3, <2>4
<1> HIDE DEF Good
<1>6. \A k \in 0..n : k \in Good
  BY <1>3, <1>4, <1>5, Turns
<1>7. GetIoportConfig(c) = f[n]
  BY Zenon DEF GetIoportConfig, Reads, f, n, o, l
<1>8. PortsFrom(c, f[n], n)
  <2>1. n \in Good
    BY <1>3, <1>6
  <2> QED
    BY <2>1 DEF Good
<1>9. /\ From(c, f[n].o_port, UsedTo(c.output, o))
      /\ From(c, f[n].i_port, UsedTo(c.input, l))
  <2>1. CASE l = 0
    <3>1. n = o /\ n <= o
      BY <1>3, <2>1
    <3> QED
      BY <1>8, <2>1, <3>1 DEF PortsFrom, o
  <2>2. CASE l # 0
    <3>1. ~(n <= o) /\ n - o = l
      BY <1>3, <2>2
    <3> QED
      BY <1>8, <3>1 DEF PortsFrom, o
  <2> QED
    BY <2>1, <2>2
<1>10. Used(c.output) = UsedTo(c.output, o) /\ Used(c.input) = UsedTo(c.input, l)
  BY <1>1, UsedAll DEF o, l
<1> QED
  BY <1>7, <1>9, <1>10

\* The ports of the slave tell what the configuration says, in its order.
OriginInv ==
  Sized => /\ From(cfg, slave.o_port, Used(cfg.output))
           /\ From(cfg, slave.i_port, Used(cfg.input))

LEMMA FromSame ==
  ASSUME NEW c, NEW P, NEW u, From(c, P, u), NEW Q, Array(Q), Len(Q) = Len(P),
         \A i \in DOMAIN P : Tells(Q[i]) = Tells(P[i])
  PROVE  From(c, Q, u)
<1>1. DOMAIN P = 1..Len(P) /\ DOMAIN Q = 1..Len(Q)
  BY AppendArray DEF From
<1> QED
  BY <1>1 DEF From

LEMMA OriginType ==
  ASSUME SizesInv, OriginInv, NEW p \in DOMAIN inType, NEW id \in InputTypes,
         mdlSetInputPortDataType(p, id)
  PROVE  OriginInv'
<1>1. /\ SizesRight /\ p \in connected /\ inType[p] = DynamicType /\ cfg' = cfg
      /\ From(cfg, slave.o_port, Used(cfg.output))
      /\ From(cfg, slave.i_port, Used(cfg.input))
  BY DEF SizesInv, OriginInv, Sized, mdlSetInputPortDataType
<1>2. /\ SlaveCounts(cfg, slave) /\ p \in DOMAIN slave.i_port
      /\ slave.i_port[p].dwork_idx = 0 /\ DOMAIN slave.i_port[p] = PortFields
  BY <1>1, TypesAssumption DEF SizesRight, TypeRight, DynamicType, PortSound
<1>3. CASE slave' = slave
  BY <1>1, <1>3 DEF OriginInv
<1>4. CASE slave' = Taken(slave, p, id)
  <2>1. /\ SlaveCounts(cfg, slave') /\ slave'.o_port = slave.o_port
        /\ Len(slave'.i_port) = Len(slave.i_port)
        /\ \A i \in DOMAIN slave.i_port \ {p} :
             slave'.i_port[i] = slave.i_port[i]
        /\ \A f \in PortFields \ {"dwork_idx", "sl_port_data_type"} :
             slave'.i_port[p][f] = slave.i_port[p][f]
    BY <1>2, <1>4, TakeDwork
  <2>2. Tells(slave'.i_port[p]) = Tells(slave.i_port[p])
    <3> DEFINE q == slave'.i_port[p]
               r == slave.i_port[p]
    <3>1. q.pdo = r.pdo /\ q.data_type = r.data_type
          /\ q.big_endian = r.big_endian
      BY <2>1 DEF PortFields
    <3> HIDE DEF q, r
    <3>2. Tells(q) = Tells(r)
      BY <3>1 DEF Tells
    <3> QED
      BY <3>2 DEF q, r
  <2>3. Array(slave'.i_port)
    BY <2>1 DEF SlaveCounts
  <2>4. \A i \in DOMAIN slave.i_port :
          Tells(slave'.i_port[i]) = Tells(slave.i_port[i])
    BY <2>1, <2>2
  <2>5. From(cfg, slave'.i_port, Used(cfg.input))
    BY <1>1, <2>1, <2>3, <2>4, FromSame
  <2> QED
    BY <1>1, <2>1, <2>5 DEF OriginInv
<1> QED
  BY <1>3, <1>4 DEF mdlSetInputPortDataType, Taken

LEMMA OriginAlways == Spec => []OriginInv
<1>1. Init => OriginInv
  BY DEF Init, OriginInv, Sized
<1>2. SizesInv /\ OriginInv /\ [Next]_vars => OriginInv'
  <2> SUFFICES ASSUME SizesInv, OriginInv, [Next]_vars PROVE OriginInv'
    OBVIOUS
  <2>1. ASSUME UNCHANGED <<cfg, slave>>, Sized' => Sized PROVE OriginInv'
    BY <2>1 DEF OriginInv
  <2>2. CASE mdlInitializeSizes
    <3>1. cfg' = cfg /\ PortsValid(cfg) /\ slave' = GetIoportConfig(cfg)
          /\ cfg \in Configs
      BY <2>2 DEF mdlInitializeSizes, SizesInv
    <3> QED
      BY <3>1, GetIoportConfigFrom DEF OriginInv
  <2>3. ASSUME NEW p \in DOMAIN inType, NEW id \in InputTypes,
               mdlSetInputPortDataType(p, id)
        PROVE  OriginInv'
    BY <2>3, OriginType
  <2>4. CASE ~mdlInitializeSizes
             /\ ~\E p \in DOMAIN inType : \E id \in InputTypes :
                   mdlSetInputPortDataType(p, id)
    <3>1. UNCHANGED <<cfg, slave>> /\ (Sized' => Sized)
      BY <2>4 DEF Next, vars, mdlInitializeSizesFails, Fail,
             mdlSetInputPortDataTypeFails, mdlSetInputPortWidth,
             mdlSetDefaultPortDataTypes, mdlSetDefaultPortDimensionInfo,
             mdlSetWorkWidths, mdlRTW, StartOther, Start, Outputs, Update,
             UpdateFails, Ended, Sized
    <3> QED
      BY <2>1, <3>1
  <2> QED
    BY <2>2, <2>3, <2>4
<1> QED
  BY <1>1, <1>2, InvAlways, PTL DEF Spec

LEMMA RowSays ==
  ASSUME NEW w, NEW r, NEW port, PortRecord(w, r, port),
         NEW j \in DOMAIN port.pdo, NEW signal
  PROVE  Says(MapRow(r, j, signal)) = Tells(port)[j]
<1> DEFINE p == port.pdo[j]
           row == MapRow(r, j, signal)
<1>1. /\ r.Pdo[j] = <<p.entry.index, p.entry.subindex, p.element_idx>>
      /\ r.PdoDataTypeId = port.data_type /\ r.BigEndian = port.big_endian
  BY DEF PortRecord
<1>2. /\ r.Pdo[j][1] = p.entry.index /\ r.Pdo[j][2] = p.entry.subindex
      /\ r.Pdo[j][3] = p.element_idx
  BY <1>1, Triple
<1>3. /\ row.index = p.entry.index /\ row.subindex = p.entry.subindex
      /\ row.datatype = port.data_type /\ row.bigendian = port.big_endian
      /\ row.idx = p.element_idx
  BY <1>1, <1>2 DEF MapRow
<1> HIDE DEF row
<1>4. Says(row) = <<p.entry.index, p.entry.subindex, port.data_type,
                    port.big_endian, p.element_idx>>
  BY <1>3 DEF Says
<1> QED
  BY <1>4 DEF Tells, row

\* Two flattened tables whose parts agree, agree.
Agree(ss, tt) ==
  \A i \in 1..Len(ss) :
    /\ Len(ss[i]) = Len(tt[i])
    /\ \A j \in 1..Len(ss[i]) : Says(ss[i][j]) = tt[i][j]

LEMMA FlattenSays ==
  ASSUME NEW R, NEW ss \in Seq(Seq(R)), NEW S, NEW tt \in Seq(Seq(S)),
         Len(ss) = Len(tt), Agree(ss, tt)
  PROVE  /\ Len(FlattenSeq(ss)) = Len(FlattenSeq(tt))
         /\ \A k \in DOMAIN FlattenSeq(ss) :
              Says(FlattenSeq(ss)[k]) = FlattenSeq(tt)[k]
<1> DEFINE F == FlattenSeq(ss)
           G == FlattenSeq(tt)
           n == Len(ss)
<1>1. /\ n \in Nat /\ DOMAIN ss = 1..n /\ DOMAIN tt = 1..n
      /\ \A i \in 1..n : ss[i] \in Seq(R)
  BY ElementOfSeq
<1>2. Lens(ss) = Lens(tt)
  BY <1>1 DEF Lens, Agree
<1>3. /\ Len(F) = SumTo(Lens(ss), n) /\ Len(G) = SumTo(Lens(tt), n)
      /\ \A i \in 1..n : \A j \in 1..Len(tt[i]) :
           G[SumTo(Lens(tt), i - 1) + j] = tt[i][j]
  <2>1. Flattened(ss, F, n)
    BY FlattenFacts
  <2>2. Flattened(tt, G, n)
    BY FlattenFacts
  <2>3. Len(F) = SumTo(Lens(ss), n)
    BY <2>1 DEF Flattened
  <2> HIDE DEF F, G, n
  <2> QED
    BY <2>2, <2>3 DEF Flattened
<1>4. ASSUME NEW k \in DOMAIN F PROVE Says(F[k]) = G[k]
  <2>1. PICK i \in DOMAIN ss : \E j \in DOMAIN ss[i] :
           k = SumTo(Lens(ss), i - 1) + j /\ F[k] = ss[i][j]
    BY FlattenPlace
  <2>2. PICK j \in DOMAIN ss[i] :
           k = SumTo(Lens(ss), i - 1) + j /\ F[k] = ss[i][j]
    BY <2>1
  <2>3. i \in 1..n /\ j \in 1..Len(ss[i])
    BY <1>1, <2>1, <2>2
  <2>4. Len(ss[i]) = Len(tt[i]) /\ Says(ss[i][j]) = tt[i][j]
    BY <2>3 DEF Agree
  <2>5. G[k] = tt[i][j]
    BY <1>2, <1>3, <2>2, <2>3, <2>4
  <2> QED
    BY <2>2, <2>4, <2>5
<1> QED
  BY <1>2, <1>3, <1>4

InSays ==
  [i \in DOMAIN inWidth |->
     [j \in 1..inWidth[i] |-> Told(cfg, Used(cfg.input)[i])[j]]]
OutSays ==
  [i \in DOMAIN Used(cfg.output) |-> Told(cfg, Used(cfg.output)[i])]

LEMMA InputsAgree ==
  ASSUME SizesInv, LaterInv, OriginInv, AfterRtw
  PROVE  /\ \E S : InSays \in Seq(Seq(S))
         /\ Len(InRows) = Len(InSays) /\ Agree(InRows, InSays)
<1> DEFINE n == Len(slave.i_port)
<1>1. /\ n \in Nat /\ DOMAIN slave.i_port = 1..n
      /\ \A i \in 1..n : PortSound(cfg, slave.i_port[i], "out")
                         /\ inWidth[i] \in 0..Len(slave.i_port[i].pdo)
  BY InPorts
<1>2. DOMAIN rtw.InputPortIdx = 1..n
      /\ \A i \in 1..n : PortRecord(rtw, InputPort(i), slave.i_port[i])
  BY <1>1, Recorded DEF LaterInv
<1>3. \A i \in 1..n : Tells(slave.i_port[i]) = Told(cfg, Used(cfg.input)[i])
  BY <1>1 DEF OriginInv, Sized, AfterRtw, From
<1>4. DOMAIN inWidth = 1..n
  BY <1>1 DEF SizesInv, Sized, AfterRtw, SizesRight
<1> HIDE DEF n
<1>5. \A i \in 1..n : Array(slave.i_port[i].pdo)
  BY <1>1 DEF PortSound
<1>6. \A i \in 1..n : inWidth[i] \in Nat
                      /\ 1..inWidth[i] \subseteq DOMAIN slave.i_port[i].pdo
  <2> SUFFICES ASSUME NEW i \in 1..n
               PROVE  inWidth[i] \in Nat
                      /\ 1..inWidth[i] \subseteq DOMAIN slave.i_port[i].pdo
    OBVIOUS
  <2>1. Len(slave.i_port[i].pdo) \in Nat
        /\ DOMAIN slave.i_port[i].pdo = 1..Len(slave.i_port[i].pdo)
    BY <1>5, AppendArray
  <2> QED
    BY <1>1, <2>1
<1>7. /\ InSays = [i \in 1..n |-> InSays[i]]
      /\ \A i \in 1..n : InSays[i] = [j \in 1..inWidth[i] |-> InSays[i][j]]
      /\ \A i \in 1..n : \A j \in 1..inWidth[i] :
           InSays[i][j] = Tells(slave.i_port[i])[j]
  BY <1>3, <1>4 DEF InSays
<1>8. /\ InRows = [i \in 1..n |-> InRows[i]]
      /\ \A i \in 1..n : InRows[i] = [j \in 1..inWidth[i] |-> InRows[i][j]]
      /\ \A i \in 1..n : \A j \in 1..inWidth[i] :
           InRows[i][j] = MapRow(InputPort(i), j, <<"u", i>>)
  BY <1>2 DEF InRows, InputWidth
<1>9. \E S : InSays \in Seq(Seq(S))
  <2>1. \A i \in 1..n : Array(InSays[i])
    BY <1>6, <1>7, FunctionArray
  <2> QED
    BY <1>1, <1>7, <2>1, ArrayArrays
<1>10. Len(InRows) = n /\ Len(InSays) = n
  BY <1>1, <1>7, <1>8
<1>11. ASSUME NEW i \in 1..n
       PROVE  /\ Len(InRows[i]) = Len(InSays[i])
              /\ \A j \in 1..Len(InRows[i]) :
                   Says(InRows[i][j]) = InSays[i][j]
  <2>1. Len(InRows[i]) = inWidth[i] /\ Len(InSays[i]) = inWidth[i]
    BY <1>6, <1>7, <1>8
  <2>2. ASSUME NEW j \in 1..inWidth[i]
        PROVE  Says(InRows[i][j]) = InSays[i][j]
    <3>1. j \in DOMAIN slave.i_port[i].pdo
          /\ PortRecord(rtw, InputPort(i), slave.i_port[i])
      BY <1>2, <1>6
    <3>2. Says(MapRow(InputPort(i), j, <<"u", i>>)) = Tells(slave.i_port[i])[j]
      BY <3>1, RowSays
    <3> QED
      BY <1>7, <1>8, <3>2
  <2> QED
    BY <2>1, <2>2
<1>12. Agree(InRows, InSays)
  BY <1>10, <1>11 DEF Agree
<1> QED
  BY <1>9, <1>10, <1>12

LEMMA OutputsAgree ==
  ASSUME SizesInv, LaterInv, OriginInv, AfterRtw
  PROVE  /\ \E S : OutSays \in Seq(Seq(S))
         /\ Len(OutRows) = Len(OutSays) /\ Agree(OutRows, OutSays)
<1> DEFINE m == Len(slave.o_port)
<1>1. /\ m \in Nat /\ DOMAIN slave.o_port = 1..m
      /\ \A i \in 1..m : PortMade(cfg, slave.o_port[i], "in")
                         /\ OutWidth(i) \in Nat
  BY OutPorts
<1>2. DOMAIN rtw.OutputPortIdx = 1..m
      /\ \A i \in 1..m : PortRecord(rtw, OutputPort(i), slave.o_port[i])
  BY <1>1, Recorded DEF LaterInv
<1>3. \A i \in 1..m : Tells(slave.o_port[i]) = Told(cfg, Used(cfg.output)[i])
  BY <1>1 DEF OriginInv, Sized, AfterRtw, From
<1>4. DOMAIN Used(cfg.output) = 1..m
  <2>1. Array(Used(cfg.output)) /\ Len(Used(cfg.output)) = m
    BY DEF OriginInv, Sized, AfterRtw, From
  <2> QED
    BY <2>1, AppendArray
<1> HIDE DEF m
<1>5. \A i \in 1..m : DOMAIN slave.o_port[i].pdo = 1..OutWidth(i)
  <2>1. \A i \in 1..m : Array(slave.o_port[i].pdo)
    BY <1>1 DEF PortMade, PortSound
  <2> QED
    BY <2>1, AppendArray DEF OutWidth
<1>6. \A i \in 1..m : OutWidth(i) \in Nat
  BY <1>1
<1>7. /\ OutSays = [i \in 1..m |-> OutSays[i]]
      /\ \A i \in 1..m : OutSays[i] = Tells(slave.o_port[i])
  BY <1>3, <1>4 DEF OutSays
<1>8. \A i \in 1..m : OutSays[i] = [j \in 1..OutWidth(i) |-> OutSays[i][j]]
  <2>1. \A i \in 1..m :
          Tells(slave.o_port[i])
            = [j \in 1..OutWidth(i) |-> Tells(slave.o_port[i])[j]]
    BY <1>5 DEF Tells
  <2> QED
    BY <1>7, <2>1
<1>9. /\ OutRows = [i \in 1..m |-> OutRows[i]]
      /\ \A i \in 1..m : OutRows[i] = [j \in 1..OutWidth(i) |-> OutRows[i][j]]
      /\ \A i \in 1..m : \A j \in 1..OutWidth(i) :
           OutRows[i][j] = MapRow(OutputPort(i), j, <<"y", i>>)
  BY <1>2, <1>5 DEF OutRows
<1>10. \E S : OutSays \in Seq(Seq(S))
  <2>1. \A i \in 1..m : Array(OutSays[i])
    BY <1>6, <1>8, FunctionArray
  <2> QED
    BY <1>1, <1>7, <2>1, ArrayArrays
<1>11. Len(OutRows) = m /\ Len(OutSays) = m
  BY <1>1, <1>7, <1>9
<1>12. ASSUME NEW i \in 1..m
       PROVE  /\ Len(OutRows[i]) = Len(OutSays[i])
              /\ \A j \in 1..Len(OutRows[i]) :
                   Says(OutRows[i][j]) = OutSays[i][j]
  <2>1. Len(OutRows[i]) = OutWidth(i) /\ Len(OutSays[i]) = OutWidth(i)
    <3> DEFINE w == OutWidth(i)
    <3>1. w \in Nat /\ OutRows[i] = [j \in 1..w |-> OutRows[i][j]]
          /\ OutSays[i] = [j \in 1..w |-> OutSays[i][j]]
      BY <1>6, <1>8, <1>9
    <3> HIDE DEF w
    <3>2. Len(OutRows[i]) = w /\ Len(OutSays[i]) = w
      BY <3>1
    <3> QED
      BY <3>2 DEF w
  <2>2. ASSUME NEW j \in 1..OutWidth(i)
        PROVE  Says(OutRows[i][j]) = OutSays[i][j]
    <3>1. j \in DOMAIN slave.o_port[i].pdo
          /\ PortRecord(rtw, OutputPort(i), slave.o_port[i])
      BY <1>2, <1>5
    <3>2. Says(MapRow(OutputPort(i), j, <<"y", i>>)) = Tells(slave.o_port[i])[j]
      BY <3>1, RowSays
    <3> QED
      BY <1>7, <1>9, <3>2
  <2> QED
    BY <2>1, <2>2
<1>13. Agree(OutRows, OutSays)
  BY <1>11, <1>12 DEF Agree
<1> QED
  BY <1>10, <1>11, <1>13

SaysAll(F, f) == Len(F) = Len(f) /\ \A k \in DOMAIN F : Says(F[k]) = f[k]

SaysEach(rows) == [k \in DOMAIN rows |-> Says(rows[k])]

LEMMA BothSay ==
  ASSUME NEW F, Array(F), NEW G, Array(G), NEW f, Array(f), NEW g, Array(g),
         SaysAll(F, f), SaysAll(G, g)
  PROVE  SaysEach(F \o G) = f \o g
<1> DEFINE rows == F \o G
           t == f \o g
           a == Len(F)
           b == Len(G)
<1>0. /\ Len(F) = Len(f) /\ Len(G) = Len(g)
      /\ \A k \in DOMAIN F : Says(F[k]) = f[k]
      /\ \A k \in DOMAIN G : Says(G[k]) = g[k]
  BY DEF SaysAll
<1>1. /\ Array(rows) /\ DOMAIN rows = 1..(a + b) /\ a \in Nat /\ b \in Nat
      /\ DOMAIN F = 1..a /\ DOMAIN G = 1..b
      /\ \A i \in 1..a : rows[i] = F[i]
      /\ \A i \in 1..b : rows[a + i] = G[i]
  <2>1. DOMAIN rows = 1..(a + b) /\ Array(rows)
    BY PortsParts
  <2>2. a \in Nat /\ b \in Nat /\ DOMAIN F = 1..a /\ DOMAIN G = 1..b
    BY PortsParts
  <2>3. \A i \in 1..a : rows[i] = F[i]
    BY PortsParts
  <2>4. \A i \in 1..b : rows[a + i] = G[i]
    BY PortsParts
  <2> QED
    BY <2>1, <2>2, <2>3, <2>4
<1>2. /\ Array(t) /\ DOMAIN t = 1..(a + b)
      /\ \A i \in 1..a : t[i] = f[i]
      /\ \A i \in 1..b : t[a + i] = g[i]
  <2> HIDE DEF a, b
  <2>1. Array(t) /\ DOMAIN t = 1..(Len(f) + Len(g)) /\ Len(f) = a /\ Len(g) = b
    BY <1>0, PortsParts DEF a, b
  <2>2. \A i \in 1..Len(f) : t[i] = f[i]
    BY PortsParts
  <2>3. \A i \in 1..Len(g) : t[Len(f) + i] = g[i]
    BY PortsParts
  <2> HIDE DEF t
  <2> QED
    BY <2>1, <2>2, <2>3
<1> HIDE DEF rows, t, a, b
<1>3. t = [k \in DOMAIN t |-> t[k]]
  BY <1>2 DEF Array
<1>4. ASSUME NEW k \in 1..(a + b) PROVE Says(rows[k]) = t[k]
  <2>1. CASE k \in 1..a
    BY <1>0, <1>1, <1>2, <2>1
  <2>2. CASE k \notin 1..a
    <3>1. k - a \in 1..b /\ a + (k - a) = k
      BY <1>1, <2>2
    <3>2. rows[k] = G[k - a] /\ t[k] = g[k - a]
      BY <1>1, <1>2, <3>1
    <3> QED
      BY <1>0, <1>1, <3>1, <3>2
  <2> QED
    BY <2>1, <2>2
<1>5. SaysEach(rows) = t
  BY <1>1, <1>2, <1>3, <1>4 DEF SaysEach
<1> QED
  BY <1>5 DEF rows, t

(* ec_slave3.c get_ioport_config() and mdlRTW(), ec_slave3.tlc GetPdoMap():*)
(* the rows of the PDO map in the generated program are, in order, those   *)
(* the configuration asks for: the inputs as far as their signals go, then *)
(* the outputs, for any ports, ports left out and order of settling.       *)
THEOREM MapFaithfulAlways == Spec => []MapFaithful
<1>1. SizesInv /\ LaterInv /\ OriginInv => MapFaithful
  <2> SUFFICES ASSUME SizesInv, LaterInv, OriginInv, Done PROVE MapFaithful
    BY DEF MapFaithful
  <2> DEFINE F == FlattenSeq(InRows)
             G == FlattenSeq(OutRows)
             f == FlattenSeq(InSays)
             g == FlattenSeq(OutSays)
             rows == gen.map.rows
  <2>1. AfterRtw /\ AfterStart
    BY DEF AfterRtw, AfterStart, Done
  <2>2. gen.map = [InputCount |-> Len(F), OutputCount |-> Len(G),
                   rows |-> F \o G]
    <3>1. gen.map = GetPdoMap
      BY <2>1 DEF LaterInv, CodeInv
    <3>2. GetPdoMap = [InputCount |-> Len(F), OutputCount |-> Len(G),
                       rows |-> F \o G]
      BY Zenon DEF GetPdoMap, InRows, OutRows
    <3> QED
      BY <3>1, <3>2
  <2>3. MapInputs = f /\ MapOutputs = g
    BY Zenon DEF MapInputs, MapOutputs, InSays, OutSays
  <2>4. PICK R : InRows \in Seq(Seq(R))
    BY <2>1, RowsType
  <2>5. PICK Q : OutRows \in Seq(Seq(Q))
    BY <2>1, RowsType
  <2>6. PICK S : InSays \in Seq(Seq(S))
    BY <2>1, InputsAgree
  <2>7. PICK T : OutSays \in Seq(Seq(T))
    BY <2>1, OutputsAgree
  <2>8. /\ Len(F) = Len(f) /\ \A k \in DOMAIN F : Says(F[k]) = f[k]
    BY <2>1, <2>4, <2>6, InputsAgree, FlattenSays
  <2>9. /\ Len(G) = Len(g) /\ \A k \in DOMAIN G : Says(G[k]) = g[k]
    BY <2>1, <2>5, <2>7, OutputsAgree, FlattenSays
  <2>10. Array(F) /\ Array(G) /\ Array(f) /\ Array(g)
    <3>1. F \in Seq(R) /\ G \in Seq(Q) /\ f \in Seq(S) /\ g \in Seq(T)
      BY <2>4, <2>5, <2>6, <2>7, FlattenFacts
    <3> HIDE DEF F, G, f, g
    <3> QED
      BY <3>1, ArrayOf
  <2> HIDE DEF F, G, f, g
  <2>11. rows = F \o G /\ gen.map.InputCount = Len(F)
         /\ gen.map.OutputCount = Len(G)
    BY <2>2
  <2> HIDE DEF rows
  <2>12. SaysEach(rows) = f \o g
    <3>1. SaysAll(F, f) /\ SaysAll(G, g)
      BY <2>8, <2>9 DEF SaysAll
    <3>2. SaysEach(F \o G) = f \o g
      BY <2>10, <3>1, BothSay
    <3> QED
      BY <2>11, <3>2
  <2> QED
    BY <2>3, <2>8, <2>9, <2>11, <2>12 DEF MapFaithful, rows, SaysEach
<1> QED
  BY <1>1, InvAlways, OriginAlways, PTL
=============================================================================
