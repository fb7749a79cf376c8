-------------------------- MODULE EcrtLists_proofs --------------------------
(* Registration: what a failed request reaches, which slave an SDO request *)
(* is bound to, which domain holds the entries of a slave, and that the    *)
(* conversion lists hold exactly these entries.                            *)
EXTENDS EcrtSupport_proofs

-----------------------------------------------------------------------------
(* NULL handles.                                                           *)

\* get_domain() of a requested master does not use a NULL handle.
LEMMA NoCrash ==
  ASSUME NEW m \in DOMAIN master_list', master_list'[m].handle,
         domain_list \in Seq(Domain), NEW id, NEW in, NEW out, NEW tid, NEW d,
         GetDomain(m, id, in, out, tid, d)
  PROVE  d # Crash
<1>1. \A k \in DOMAIN domain_list : k # Crash
  BY DEF Crash
<1>2. Len(domain_list) + 1 # Crash /\ Null # Crash
  BY DEF Crash, Null
<1> QED
  BY <1>1, <1>2 DEF GetDomain

LEMMA NoPtrCrash ==
  ASSUME ListsOK, AllHandles, NEW id \in MasterIds, NEW dom, NEW in, NEW out,
         NEW tid \in Tids, NEW p, GetDomainPtr(id, dom, in, out, tid, p)
  PROVE  p # Crash
<1>1. PICK i \in MasterResults :
        /\ GetMaster(id, tid, i)
        /\ \/ i = Null /\ p = Null /\ UNCHANGED domain_list
           \/ i # Null /\ \E d \in DomainResults :
                /\ GetDomain(i, dom, in, out, tid, d)
                /\ p = IF d > 0 /\ ~domain_list'[d].handle THEN Null ELSE d
  BY DEF GetDomainPtr
<1>2. Null # Crash
  BY DEF Null, Crash
<1>3. ASSUME i # Null PROVE i \in DOMAIN master_list' /\ master_list'[i].handle
  <2>1. i \in DOMAIN master_list'
    BY <1>1, <1>3, GetMasterType DEF ListsOK
  <2> QED
    BY <1>1, <1>3, <2>1, GetMasterHandles DEF ListsOK, AllHandles
<1>4. ASSUME i # Null, NEW d, GetDomain(i, dom, in, out, tid, d)
      PROVE  d # Crash
  BY <1>3, <1>4, NoCrash DEF ListsOK
<1> QED
  BY <1>1, <1>2, <1>4

LEMMA NullHandleStep ==
  IInv /\ HandlesInv /\ NullHandleOnlySecond /\ [Next]_vars
    => NullHandleOnlySecond'
<1> SUFFICES ASSUME IInv, HandlesInv, NullHandleOnlySecond, [Next]_vars,
                    pc' = "nullHandle"
             PROVE  \E k \in 2..Len(domain_ptrs') :
                      /\ domain_ptrs'[k - 1].ptr = Null
                      /\ domain_ptrs'[k].ptr = Crash
                      /\ SameKey(domain_ptrs'[k - 1], domain_ptrs'[k])
  BY DEF NullHandleOnlySecond
<1>0. ListsOK /\ Indexed /\ domain_ptrs \in Seq(DomainPtr)
  BY DEF IInv, TypeOK, ListsOK
<1>1. CASE DomainStateSecond
  <2> DEFINE b == domain_ptrs[Len(domain_ptrs)]
             e(p) == Pointer(b.master, b.domain, b.tid, FALSE, TRUE, p)
  <2>1. PICK p \in DomainResults :
          /\ GetDomainPtr(b.master, b.domain, FALSE, TRUE, b.tid, p)
          /\ domain_ptrs' = Append(domain_ptrs, e(p))
          /\ pc' = IF p # Crash /\ b.ptr = Null THEN "failed"
                   ELSE AfterPtr(p, "mdlStart")
    BY <1>1 DEF DomainStateSecond
  <2>2. pc = "secondPtr"
    BY <1>1 DEF DomainStateSecond
  <2>3. Len(domain_ptrs) \in DOMAIN domain_ptrs /\ Len(domain_ptrs) \in Nat \ {0}
    BY <1>0, <2>2 DEF Indexed
  <2>4. b \in DomainPtr
    BY <1>0, <2>3, ElementOfSeq
  <2>5. p = Crash
    BY <2>1 DEF AfterPtr
  <2>6. b.ptr = Null
    <3>1. b.master \in MasterIds /\ b.tid \in Tids
      BY <2>4 DEF DomainPtr
    <3>2. ~AllHandles
      BY <1>0, <2>1, <2>5, <3>1, NoPtrCrash
    <3> QED
      BY <2>2, <3>2 DEF HandlesInv
  <2>7. /\ e(p).ptr = Crash
        /\ SameKey(b, e(p))
    BY <2>5 DEF Pointer, SameKey
  <2>8. /\ Len(domain_ptrs') = Len(domain_ptrs) + 1
        /\ domain_ptrs'[Len(domain_ptrs)] = b
        /\ domain_ptrs'[Len(domain_ptrs) + 1] = e(p)
    <3> HIDE DEF e
    <3> QED
      BY <1>0, <2>1, <2>3
  <2> HIDE DEF b, e
  <2> DEFINE k == Len(domain_ptrs) + 1
  <2>9. k \in 2..Len(domain_ptrs') /\ k - 1 = Len(domain_ptrs)
    BY <2>3, <2>8
  <2> QED
    BY <2>6, <2>7, <2>8, <2>9
<1>2. ASSUME NEW id \in MasterIds, NEW dom \in DomainIds, NEW tid \in Tids,
             NEW mode \in Modes, DomainStateStart(id, dom, tid, mode)
      PROVE  FALSE
  <2> DEFINE in == mode # "out"
             out == mode \in {"io", "out"}
  <2>1. PICK p \in DomainResults :
          /\ GetDomainPtr(id, dom, in, out, tid, p)
          /\ pc' = IF mode = "inout" /\ p # Crash THEN "secondPtr"
                   ELSE AfterPtr(p, "mdlStart")
    BY <1>2 DEF DomainStateStart
  <2>2. AllHandles
    BY <1>2 DEF DomainStateStart, HandlesInv
  <2> HIDE DEF in, out
  <2>3. p # Crash
    BY <1>0, <2>1, <2>2, NoPtrCrash
  <2> QED
    BY <2>1, <2>3 DEF AfterPtr
<1>3. ASSUME NEW here \in {"rx_domain", "tx_domain"}, NEW n, NEW in, NEW out,
             NEW found \in {"rx_pdos", "tx_pdos"},
             NEW none \in {"tx_domain", "sdo_req"},
             InitSlaveDomain(here, n, in, out, found, none)
      PROVE  FALSE
  <2>1. PICK d \in DomainResults :
          GetDomain(master, S.domain, in, out, S.tid, d) /\ pc' = AfterPtr(d, found)
    BY <1>3 DEF InitSlaveDomain
  <2>2. pc \in {"rx_domain", "tx_domain"} /\ UNCHANGED master_list
    BY <1>3 DEF InitSlaveDomain
  <2>3. master \in DOMAIN master_list' /\ master_list'[master].handle
    BY <1>0, <2>2 DEF Indexed, Initing, HandlesInv, AllHandles
  <2>4. d # Crash
    BY <1>0, <2>1, <2>3, NoCrash DEF ListsOK
  <2> QED
    BY <2>1, <2>4 DEF AfterPtr
<1>4. CASE Finished \/ UNCHANGED vars
  BY <1>4 DEF Finished, vars, NullHandleOnlySecond
<1>5. ASSUME BlockStart PROVE DomainStateSecond
  BY <1>2, <1>5 DEF BlockStart, SlaveStart, MasterStateStart, SdoHandler
<1>6. ~InitSlave
  BY <1>3 DEF InitSlave, RxDomain, TxDomain, InitSlaveMaster, InitSlaveConfig,
     RxPdos, TxPdos, SdoRequests
<1>7. ~(EcsStart \/ Activate \/ FillRx \/ FillTx)
  BY DEF EcsStart, Activate, FillRx, FillTx
<1> QED
  BY <1>1, <1>4, <1>5, <1>6, <1>7 DEF Next

\* No request's failure leads to the use of a NULL handle, but the one that
\* domain_state.tlc tests after its second ecs_get_domain_ptr() only.
THEOREM NullHandleOnlySecondAlways == Spec => []NullHandleOnlySecond
<1>1. Init => HandlesInv /\ NullHandleOnlySecond
  BY DEF Init, HandlesInv, AllHandles, NullHandleOnlySecond
<1> QED
  BY <1>1, Invariance, HandlesStep, NullHandleStep, PTL DEF Spec

-----------------------------------------------------------------------------
(* SDO requests.                                                           *)

\* The slaves a request names; init_slave() of slave n has returned.
Named(q) == {n \in DOMAIN slave_list : OfSlave(q, slave_list[n])}
Requested(n) == pc \in Started \/ (pc \in Initing /\ n < cur)

\* So far the slave asked last is the last one named among those init_slave()
\* has left, and the request is bound to it or to none.
LastOf(q, found) ==
  /\ q.bound \in {q.asked, Null}
  /\ IF found = {} THEN q.asked = Null
     ELSE q.asked \in found /\ \A n \in found : n <= q.asked

BoundTo(q) == LastOf(q, {n \in Named(q) : Requested(n)})

BoundInv == pc \in Dead \/ \A k \in DOMAIN sdo_head : BoundTo(sdo_head[k])

\* Steps that bind nothing and leave no slave.
LEMMA SameBound ==
  ASSUME BoundInv, pc \notin Dead, UNCHANGED <<slave_list, sdo_head>>,
         \A n \in DOMAIN slave_list : Requested(n)' <=> Requested(n)
  PROVE  BoundInv'
<1>1. \A q : Named(q)' = Named(q)
  BY DEF Named
<1>2. \A q : {n \in Named(q)' : Requested(n)'} = {n \in Named(q) : Requested(n)}
  BY <1>1 DEF Named
<1>3. \A q : BoundTo(q)' <=> BoundTo(q)
  BY <1>2 DEF BoundTo, LastOf
<1> QED
  BY <1>3 DEF BoundInv

\* In MdlStart before ecs_start() no slave has been asked.
Unasked(q) == q.asked = Null /\ q.bound = Null

LEMMA UnboundYet ==
  ASSUME pc \in {"mdlStart", "secondPtr"}
  PROVE  BoundInv <=> \A k \in DOMAIN sdo_head : Unasked(sdo_head[k])
<1>1. \A n : ~Requested(n)
  BY DEF Requested, Started, Filling, Initing
<1>2. \A q : BoundTo(q) <=> Unasked(q)
  BY <1>1 DEF BoundTo, LastOf, Unasked
<1> QED
  BY <1>2 DEF BoundInv, Dead

LEMMA BoundStep == IInv /\ BoundInv /\ [Next]_vars => BoundInv'
<1> SUFFICES ASSUME IInv, BoundInv, [Next]_vars, pc' \notin Dead PROVE BoundInv'
  BY DEF BoundInv
<1>0. ListsOK /\ Indexed /\ cur \in Nat
  BY DEF IInv, TypeOK, LocalsOK
<1>1. CASE BlockStart
  <2>1. pc \in {"mdlStart", "secondPtr"} /\ pc' \in {"mdlStart", "secondPtr"}
    BY <1>1 DEF BlockStart, SlaveStart, MasterStateStart, DomainStateStart,
       SdoHandler, DomainStateSecond, AfterPtr, Dead
  <2>2. BoundInv' <=> \A k \in DOMAIN sdo_head' : Unasked(sdo_head'[k])
    <3>1. \A n : ~Requested(n)'
      BY <2>1 DEF Requested, Started, Filling, Initing
    <3>2. \A q : BoundTo(q)' <=> Unasked(q)
      BY <3>1 DEF BoundTo, LastOf, Unasked
    <3> QED
      BY <2>1, <3>2 DEF BoundInv, Dead
  <2>3. \A k \in DOMAIN sdo_head : Unasked(sdo_head[k])
    BY <2>1, UnboundYet
  <2>4. ASSUME NEW id \in MasterIds, NEW q \in Positions, SdoHandler(id, q)
        PROVE  BoundInv'
    <3> DEFINE e == [master |-> id, position |-> q, asked |-> Null,
                     bound |-> Null]
    <3>1. sdo_head \in Seq(SdoRequest) /\ sdo_head' = Append(sdo_head, e)
      BY <1>0, <2>4 DEF ListsOK, SdoHandler
    <3>2. Unasked(e)
      BY DEF Unasked
    <3> HIDE DEF e
    <3>3. \A k \in DOMAIN sdo_head' :
            \/ k \in DOMAIN sdo_head /\ sdo_head'[k] = sdo_head[k]
            \/ sdo_head'[k] = e
      BY <3>1, AppendElements
    <3> QED
      BY <2>2, <2>3, <3>2, <3>3
  <2>5. CASE UNCHANGED sdo_head
    BY <2>2, <2>3, <2>5
  <2> QED
    BY <1>1, <2>4, <2>5 DEF BlockStart, SlaveStart, MasterStateStart,
       DomainStateStart, DomainStateSecond
<1>2. CASE EcsStart
  <2>1. /\ pc = "mdlStart" /\ cur' = 1
        /\ UNCHANGED <<slave_list, sdo_head>>
        /\ pc' = "get_master" \/ slave_list = <<>>
    BY <1>2 DEF EcsStart
  <2>2. \A n \in DOMAIN slave_list : n \in Nat \ {0}
    BY <1>0 DEF ListsOK
  <2>3. \A n \in DOMAIN slave_list : ~Requested(n)
    BY <2>1 DEF Requested, Started, Filling, Initing
  <2>4. \A n \in DOMAIN slave_list : ~(n < 1) /\ pc' = "get_master"
    BY <2>1, <2>2
  <2>5. \A n \in DOMAIN slave_list : ~Requested(n)'
    BY <2>1, <2>4 DEF Requested, Started, Filling, Initing
  <2> QED
    BY <2>1, <2>3, <2>5, SameBound DEF Dead
<1>3. CASE SdoRequests
  <2>1. /\ pc = "sdo_req" /\ UNCHANGED slave_list
        /\ \/ cur' = cur + 1 /\ pc' = "get_master"
           \/ cur = Len(slave_list) /\ pc' = "activate"
    BY <1>3 DEF SdoRequests
  <2>0. PICK made : sdo_head' = [k \in DOMAIN sdo_head |->
          IF OfSlave(sdo_head[k], S) THEN Asked(sdo_head[k], k \in made)
                                     ELSE sdo_head[k]]
    BY <1>3 DEF SdoRequests
  <2>2. cur \in DOMAIN slave_list /\ S = slave_list[cur]
    BY <1>0, <2>1 DEF Indexed, Initing, S
  <2>3. \A n \in DOMAIN slave_list : Requested(n)' <=> Requested(n) \/ n = cur
    <3>1. \A n \in DOMAIN slave_list : n \in Nat /\ n <= Len(slave_list)
      BY <1>0 DEF ListsOK
    <3>2. \A n \in DOMAIN slave_list : Requested(n) <=> n < cur
      BY <2>1 DEF Requested, Started, Filling, Initing
    <3>3. CASE cur' = cur + 1 /\ pc' = "get_master"
      <4>1. \A n \in DOMAIN slave_list : Requested(n)' <=> n < cur + 1
        BY <3>3 DEF Requested, Started, Filling, Initing
      <4> QED
        BY <1>0, <3>1, <3>2, <4>1
    <3>4. CASE cur = Len(slave_list) /\ pc' = "activate"
      <4>1. \A n \in DOMAIN slave_list : Requested(n)'
        BY <3>4 DEF Requested, Started
      <4>2. \A n \in DOMAIN slave_list : n < cur \/ n = cur
        BY <1>0, <3>1, <3>4
      <4> QED
        BY <3>2, <4>1, <4>2
    <3> QED
      BY <2>1, <3>3, <3>4
  <2>4. ASSUME NEW k \in DOMAIN sdo_head
        PROVE  LET r == sdo_head'[k]
               IN  LastOf(r, {n \in Named(r) : Requested(n)'})
    <3> DEFINE q == sdo_head[k]
               r == sdo_head'[k]
               found == {n \in Named(q) : Requested(n)}
               now == {n \in Named(r) : Requested(n)'}
    <3>1. q \in SdoRequest
      BY <1>0, <2>4, ElementOfSeq DEF ListsOK
    <3>2. r = IF OfSlave(q, S) THEN Asked(q, k \in made) ELSE q
      BY <2>4, <2>0
    <3>3. r.master = q.master /\ r.position = q.position
      BY <3>1, <3>2 DEF SdoRequest, Asked
    <3>4. Named(r) = Named(q)
      BY <3>3 DEF Named, OfSlave
    <3>5. now = found \cup {n \in Named(q) : n = cur}
      BY <2>3, <3>4 DEF Named
    <3>6. LastOf(q, found)
      BY <2>1, <2>4 DEF BoundInv, BoundTo, Dead
    <3>7. cur \in Named(q) <=> OfSlave(q, S)
      BY <2>2 DEF Named
    <3>8. OfSlave(q, S) => r.asked = cur /\ r.bound \in {cur, Null}
      BY <3>1, <3>2 DEF SdoRequest, Asked
    <3>9. ~OfSlave(q, S) => r = q
      BY <3>2
    <3>10. \A n \in found : n \in Nat /\ n < cur
      <4>1. \A n \in DOMAIN slave_list : n \in Nat
        BY <1>0 DEF ListsOK
      <4> QED
        BY <2>1, <4>1 DEF Named, Requested, Started, Filling, Initing
    <3>11. LastOf(r, now)
      <4> HIDE DEF q, r, found, now
      <4>1. CASE OfSlave(q, S)
        <5>1. cur \in now /\ \A n \in now : n \in found \/ n = cur
          BY <3>5, <3>7, <4>1
        <5>2. cur \in now /\ \A n \in now : n <= cur
          BY <1>0, <3>10, <5>1
        <5> QED
          BY <3>8, <4>1, <5>2 DEF LastOf
      <4>2. CASE ~OfSlave(q, S)
        <5>1. now = found
          BY <3>5, <3>7, <4>2
        <5> QED
          BY <3>6, <3>9, <4>2, <5>1
      <4> QED
        BY <4>1, <4>2
    <3> QED
      BY <3>11
  <2>5. DOMAIN sdo_head' = DOMAIN sdo_head
    BY <2>0
  <2>6. \A q : Named(q)' = Named(q)
    BY <2>1 DEF Named
  <2>7. \A q : BoundTo(q)' <=>
          LastOf(q, {n \in Named(q) : Requested(n)'})
    BY <2>6 DEF BoundTo, LastOf
  <2>8. \A k \in DOMAIN sdo_head' :
          LET r == sdo_head'[k]
          IN  LastOf(r, {n \in Named(r) : Requested(n)'})
    BY <2>4, <2>5
  <2> QED
    BY <2>7, <2>8 DEF BoundInv
<1>4. CASE InitSlave /\ ~SdoRequests
  <2>1. /\ pc \in Initing /\ pc' \in Initing
        /\ UNCHANGED <<cur, slave_list, sdo_head>>
    BY <1>4 DEF InitSlave, InitSlaveMaster, InitSlaveConfig, RxDomain, TxDomain,
       InitSlaveDomain, RxPdos, TxPdos, AfterPtr, Initing, Dead, locals
  <2>2. \A n : Requested(n)' <=> Requested(n)
    BY <2>1 DEF Requested, Initing, Started, Filling
  <2> QED
    BY <2>1, <2>2, SameBound DEF Initing, Dead
<1>5. CASE Activate \/ FillRx \/ FillTx
  <2>1. pc \in Started /\ pc' \in Started /\ UNCHANGED <<slave_list, sdo_head>>
    BY <1>5 DEF Activate, FillRx, FillTx, Started, Filling, Dead
  <2>2. \A n : Requested(n)' <=> Requested(n)
    BY <2>1 DEF Requested
  <2> QED
    BY <2>1, <2>2, SameBound DEF Started, Filling, Dead
<1>6. CASE Finished \/ UNCHANGED vars
  <2>1. UNCHANGED <<pc, cur, slave_list, sdo_head>>
    BY <1>6 DEF Finished, vars
  <2>2. \A n : Requested(n)' <=> Requested(n)
    BY <2>1 DEF Requested
  <2> QED
    BY <2>1, <2>2, SameBound
<1> QED
  BY <1>1, <1>2, <1>3, <1>4, <1>5, <1>6 DEF Next

\* After a successful start an SDO request of model code is the one of the last
\* slave block of its master and address, or NULL when that one was refused,
\* whichever calls failed; a request whose address no block has is not asked.
THEOREM SdoRequestsBoundAlways == Spec => []SdoRequestsBound
<1>1. Init => BoundInv
  BY DEF Init, BoundInv
<1>2. BoundInv => SdoRequestsBound
  <2> SUFFICES ASSUME BoundInv, pc = "running", NEW k \in DOMAIN sdo_head
               PROVE  LET q == sdo_head[k]
                          named == {n \in DOMAIN slave_list :
                                      /\ slave_list[n].master = q.master
                                      /\ slave_list[n].position = q.position}
                      IN  LastOf(q, named)
    BY DEF SdoRequestsBound, LastOf
  <2> DEFINE q == sdo_head[k]
  <2>1. BoundTo(q)
    BY DEF BoundInv, Dead
  <2>2. \A n : Requested(n)
    BY DEF Requested, Started, Filling
  <2>3. {n \in Named(q) : Requested(n)} =
          {n \in DOMAIN slave_list :
             slave_list[n].master = q.master /\ slave_list[n].position = q.position}
    BY <2>2 DEF Named, OfSlave
  <2> QED
    BY <2>1, <2>3 DEF BoundTo
<1> QED
  BY <1>1, <1>2, Invariance, BoundStep, PTL DEF Spec

-----------------------------------------------------------------------------
(* Which domain holds the entries of a slave.                              *)

\* Slaves and Domain State blocks have a master, a domain number and a task:
\* domain d of the masters ml serves them, in a direction.
Key(ml, d, s) == ml[d.master].id = s.master /\ d.id = s.domain /\ d.tid = s.tid

Flag(d, dir) == IF dir = "rx" THEN d.output ELSE d.input

\* The first domain of a list that does.
First(ml, dl, k, s, dir) ==
  /\ k \in DOMAIN dl
  /\ Key(ml, dl[k], s) /\ Flag(dl[k], dir)
  /\ \A j \in 1..(k - 1) : ~(Key(ml, dl[j], s) /\ Flag(dl[j], dir))

\* Masters and domains go on serving what they serve.
MastersKept(ml, nl) ==
  /\ DOMAIN ml \subseteq DOMAIN nl
  /\ \A i \in DOMAIN ml : nl[i].id = ml[i].id

SameService(d, e) ==
  /\ e.master = d.master /\ e.id = d.id /\ e.tid = d.tid
  /\ e.input = d.input /\ e.output = d.output

DomainsKept(dl, nl) ==
  /\ DOMAIN dl \subseteq DOMAIN nl
  /\ \A k \in DOMAIN dl : SameService(dl[k], nl[k])

MastersThere(ml, dl) == \A k \in DOMAIN dl : dl[k].master \in DOMAIN ml

LEMMA FirstUnique ==
  ASSUME NEW ml, NEW dl, dl \in Seq(Domain), NEW a, NEW b, NEW s, NEW t,
         NEW dir, First(ml, dl, a, s, dir), First(ml, dl, b, t, dir),
         SameKey(s, t)
  PROVE  a = b
<1>1. a \in 1..Len(dl) /\ b \in 1..Len(dl) /\ Len(dl) \in Nat
  BY DEF First
<1>2. \A d : Key(ml, d, s) <=> Key(ml, d, t)
  BY DEF Key, SameKey
<1>3. a \notin 1..(b - 1) /\ b \notin 1..(a - 1)
  BY <1>2 DEF First
<1> QED
  BY <1>1, <1>3

LEMMA FirstKept ==
  ASSUME NEW ml, NEW dl, dl \in Seq(Domain), NEW nml, NEW ndl, NEW k, NEW s,
         NEW dir, MastersKept(ml, nml), DomainsKept(dl, ndl),
         MastersThere(ml, dl), First(ml, dl, k, s, dir)
  PROVE  First(nml, ndl, k, s, dir)
<1>1. ASSUME NEW j \in DOMAIN dl
      PROVE  /\ j \in DOMAIN ndl
             /\ Key(nml, ndl[j], s) <=> Key(ml, dl[j], s)
             /\ Flag(ndl[j], dir) <=> Flag(dl[j], dir)
  BY <1>1 DEF MastersKept, DomainsKept, SameService, MastersThere, Key, Flag
<1>2. k \in 1..Len(dl) /\ Len(dl) \in Nat /\ DOMAIN dl = 1..Len(dl)
  BY DEF First
<1>3. \A j \in 1..(k - 1) : j \in DOMAIN dl
  BY <1>2
<1> QED
  BY <1>1, <1>2, <1>3 DEF First

LEMMA GetMasterKeeps ==
  ASSUME master_list \in Seq(Master), NEW id \in MasterIds, NEW tid \in Tids,
         NEW i \in MasterResults, GetMaster(id, tid, i)
  PROVE  /\ MastersKept(master_list, master_list')
         /\ i # Null => i \in DOMAIN master_list' /\ master_list'[i].id = id
<1>1. CASE /\ i \in DOMAIN master_list
           /\ master_list[i].id = id
           /\ master_list' = [master_list EXCEPT ![i].fastest_tid =
                                FasterTid(@, tid)]
  <2>1. DOMAIN master_list' = DOMAIN master_list
    BY <1>1
  <2>2. ASSUME NEW k \in DOMAIN master_list
        PROVE  master_list'[k].id = master_list[k].id
    <3>1. master_list[k] \in Master
      BY ElementOfSeq
    <3> QED
      BY <1>1, <3>1 DEF Master
  <2> QED
    BY <1>1, <2>1, <2>2 DEF MastersKept
<1>2. ASSUME NEW ok \in BOOLEAN,
             master_list' = Append(master_list, NewMaster(id, tid, ok)),
             i = IF ok THEN Len(master_list) + 1 ELSE Null
      PROVE  /\ MastersKept(master_list, master_list')
             /\ i # Null => i \in DOMAIN master_list' /\ master_list'[i].id = id
  <2> DEFINE e == NewMaster(id, tid, ok)
  <2>1. e.id = id
    BY DEF NewMaster
  <2> HIDE DEF e
  <2>2. /\ \A k \in DOMAIN master_list :
             k \in DOMAIN master_list' /\ master_list'[k] = master_list[k]
        /\ Len(master_list) + 1 \in DOMAIN master_list'
        /\ master_list'[Len(master_list) + 1] = e
    BY <1>2 DEF e
  <2> QED
    BY <1>2, <2>1, <2>2 DEF MastersKept
<1> QED
  BY <1>1, <1>2 DEF GetMaster

Unique(ml) == \A i, j \in DOMAIN ml : ml[i].id = ml[j].id => i = j

(* get_domain(), for a request whose matching domains have all directions  *)
(* asked for: no domain changes its directions, and the one returned is    *)
(* the first in each of them. A request of one direction is of this kind.  *)
Whole(ml, dl, s, in, out) ==
  \A k \in DOMAIN dl :
    Key(ml, dl[k], s) /\ ((dl[k].output /\ out) \/ (dl[k].input /\ in)) =>
      (in => dl[k].input) /\ (out => dl[k].output)

LEMMA GetDomainFirst ==
  ASSUME Unique(master_list'), domain_list \in Seq(Domain),
         MastersThere(master_list', domain_list),
         NEW m \in DOMAIN master_list', NEW in \in BOOLEAN,
         NEW out \in BOOLEAN, NEW d, NEW s,
         GetDomain(m, s.domain, in, out, s.tid, d), s.master = master_list'[m].id,
         Whole(master_list', domain_list, s, in, out)
  PROVE  /\ DomainsKept(domain_list, domain_list')
         /\ MastersThere(master_list', domain_list')
         /\ \A k \in DOMAIN domain_list' :
              \/ k \in DOMAIN domain_list
              \/ /\ Key(master_list', domain_list'[k], s)
                 /\ domain_list'[k].input = in /\ domain_list'[k].output = out
         /\ d \notin {Null, Crash} =>
              /\ out => First(master_list', domain_list', d, s, "rx")
              /\ in => First(master_list', domain_list', d, s, "tx")
<1>0. \A k \in DOMAIN domain_list : domain_list[k] \in Domain
  BY ElementOfSeq
<1>00. DOMAIN domain_list = 1..Len(domain_list) /\ Len(domain_list) \in Nat
  OBVIOUS
<1>1. ASSUME NEW k \in DOMAIN domain_list
      PROVE  DomainMatches(k, m, s.domain, in, out, s.tid) <=>
               /\ Key(master_list', domain_list[k], s)
               /\ (domain_list[k].output /\ out) \/ (domain_list[k].input /\ in)
  BY DEF DomainMatches, Key, Unique, MastersThere
<1>2. ASSUME NEW k \in DOMAIN domain_list,
             ~DomainMatches(k, m, s.domain, in, out, s.tid)
      PROVE  /\ out => ~(/\ Key(master_list', domain_list[k], s)
                         /\ Flag(domain_list[k], "rx"))
             /\ in => ~(/\ Key(master_list', domain_list[k], s)
                        /\ Flag(domain_list[k], "tx"))
  BY <1>1, <1>2 DEF Flag
<1>3. CASE /\ d \in DOMAIN domain_list
           /\ DomainMatches(d, m, s.domain, in, out, s.tid)
           /\ \A k \in 1..(d - 1) : ~DomainMatches(k, m, s.domain, in, out, s.tid)
           /\ domain_list' = [domain_list EXCEPT ![d].input = @ \/ in,
                                                 ![d].output = @ \/ out]
  <2>1. (in => domain_list[d].input) /\ (out => domain_list[d].output)
    BY <1>1, <1>3 DEF Whole
  <2>2. DOMAIN domain_list' = DOMAIN domain_list
    BY <1>3
  <2>3. ASSUME NEW k \in DOMAIN domain_list
        PROVE  SameService(domain_list[k], domain_list'[k])
    <3>1. domain_list[k] \in Domain
      BY <1>0
    <3>2. CASE k # d
      <4>1. domain_list'[k] = domain_list[k]
        BY <1>3, <3>2
      <4> QED
        BY <4>1 DEF SameService
    <3>3. CASE k = d
      <4> DEFINE o == domain_list[d]
      <4>1. domain_list'[d] = [o EXCEPT !.input = @ \/ in, !.output = @ \/ out]
        BY <1>3
      <4>2. o \in Domain
        BY <3>1, <3>3
      <4> HIDE DEF o
      <4>3. /\ domain_list'[d].master = o.master /\ domain_list'[d].id = o.id
            /\ domain_list'[d].tid = o.tid
            /\ domain_list'[d].input = (o.input \/ in)
            /\ domain_list'[d].output = (o.output \/ out)
        BY <4>1, <4>2 DEF Domain
      <4>4. o.input \in BOOLEAN /\ o.output \in BOOLEAN
        BY <4>2 DEF Domain
      <4>5. (in => o.input) /\ (out => o.output)
        BY <2>1 DEF o
      <4>6. (o.input \/ in) = o.input /\ (o.output \/ out) = o.output
        BY <4>4, <4>5, Zenon
      <4>7. SameService(o, domain_list'[d])
        BY <4>3, <4>6 DEF SameService
      <4> QED
        BY <3>3, <4>7 DEF o
    <3> QED
      BY <3>2, <3>3
  <2>4. DomainsKept(domain_list, domain_list')
    BY <2>2, <2>3 DEF DomainsKept
  <2>5. MastersThere(master_list', domain_list')
    BY <2>2, <2>3 DEF MastersThere, SameService
  <2>6. \A j \in 1..(d - 1) : j \in DOMAIN domain_list
    BY <1>00, <1>3
  <2>7. MastersKept(master_list', master_list')
    BY DEF MastersKept
  <2>8. /\ out => First(master_list', domain_list, d, s, "rx")
        /\ in => First(master_list', domain_list, d, s, "tx")
    BY <1>1, <1>2, <1>3, <2>1, <2>6 DEF First, Flag
  <2>9. /\ out => First(master_list', domain_list', d, s, "rx")
        /\ in => First(master_list', domain_list', d, s, "tx")
    BY <2>4, <2>7, <2>8, FirstKept
  <2> QED
    BY <2>2, <2>4, <2>5, <2>9
<1>4. ASSUME \A k \in DOMAIN domain_list : ~DomainMatches(k, m, s.domain, in, out, s.tid),
             NEW ok \in BOOLEAN,
             domain_list' = Append(domain_list, NewDomain(m, s.domain, s.tid, in, out, ok)),
             d \in {Crash, Len(domain_list) + 1, Null}
      PROVE  /\ DomainsKept(domain_list, domain_list')
             /\ MastersThere(master_list', domain_list')
             /\ \A k \in DOMAIN domain_list' :
                  \/ k \in DOMAIN domain_list
                  \/ /\ Key(master_list', domain_list'[k], s)
                     /\ domain_list'[k].input = in
                     /\ domain_list'[k].output = out
             /\ d \notin {Null, Crash} =>
                  /\ out => First(master_list', domain_list', d, s, "rx")
                  /\ in => First(master_list', domain_list', d, s, "tx")
  <2> DEFINE e == NewDomain(m, s.domain, s.tid, in, out, ok)
             n == Len(domain_list) + 1
  <2>1. /\ e.master = m /\ e.id = s.domain /\ e.tid = s.tid
        /\ e.input = in /\ e.output = out
    BY DEF NewDomain
  <2>2. Key(master_list', e, s) /\ (out => Flag(e, "rx")) /\ (in => Flag(e, "tx"))
    BY <2>1 DEF Key, Flag
  <2> HIDE DEF e
  <2>3. /\ DOMAIN domain_list' = 1..n
        /\ domain_list'[n] = e
        /\ \A k \in 1..(n - 1) :
             k \in DOMAIN domain_list /\ domain_list'[k] = domain_list[k]
    BY <1>00, <1>4 DEF e
  <2>4. \A k \in DOMAIN domain_list : k \in 1..(n - 1) /\ k \in 1..n
    BY <1>00
  <2>5. \A k \in DOMAIN domain_list' : k = n \/ k \in DOMAIN domain_list
    BY <1>00, <2>3
  <2>6. n \in 1..n
    BY <1>00
  <2> HIDE DEF n
  <2>7. DomainsKept(domain_list, domain_list')
    BY <2>3, <2>4 DEF DomainsKept, SameService
  <2>8. MastersThere(master_list', domain_list')
    BY <2>1, <2>3, <2>4, <2>5 DEF MastersThere
  <2>9. /\ out => First(master_list', domain_list', n, s, "rx")
        /\ in => First(master_list', domain_list', n, s, "tx")
    BY <1>2, <1>4, <2>2, <2>3, <2>6 DEF First
  <2>10. d \notin {Null, Crash} => d = n
    BY <1>4 DEF n
  <2> QED
    BY <2>1, <2>2, <2>3, <2>5, <2>7, <2>8, <2>9, <2>10
<1> QED
  BY <1>3, <1>4 DEF GetDomain

\* init_slave() has found the domain of slave n's entries, if it has any.
RxKnown(n) ==
  \/ pc \in Started
  \/ pc \in Initing /\ (n < cur \/ (n = cur /\ pc \in {"tx_domain", "tx_pdos",
                                                       "sdo_req"}))
TxKnown(n) ==
  \/ pc \in Started
  \/ pc \in Initing /\ (n < cur \/ (n = cur /\ pc = "sdo_req"))

InFirst(k, s, dir) == First(master_list, domain_list, k, s, dir)

RxPlaced(n) == IF RxKnown(n) /\ slave_list[n].rx > 0
               THEN InFirst(pdo_map[n].rx, slave_list[n], "rx")
               ELSE pdo_map[n].rx = Null
TxPlaced(n) == IF TxKnown(n) /\ slave_list[n].tx > 0
               THEN InFirst(pdo_map[n].tx, slave_list[n], "tx")
               ELSE pdo_map[n].tx = Null

(* The entries of a slave are in the first domain that serves it in their  *)
(* direction, and so is what init_slave() has at hand for the slave.       *)
AtHand ==
  /\ pc \in Initing \ {"get_master"} => master_list[master].id = S.master
  /\ pc = "rx_pdos" => InFirst(domain, S, "rx") /\ S.rx > 0
  /\ pc = "tx_pdos" => InFirst(domain, S, "tx") /\ S.tx > 0

MapInv ==
  \/ pc \in Dead
  \/ /\ DOMAIN pdo_map = DOMAIN slave_list
     /\ MastersThere(master_list, domain_list)
     /\ \A n \in DOMAIN slave_list : RxPlaced(n) /\ TxPlaced(n)
     /\ AtHand

\* Steps that keep the services, and what is known of a slave.
LEMMA SameRxPlace ==
  ASSUME ListsOK, MastersKept(master_list, master_list'),
         DomainsKept(domain_list, domain_list'),
         MastersThere(master_list, domain_list), UNCHANGED slave_list,
         NEW n, RxPlaced(n), pdo_map'[n].rx = pdo_map[n].rx,
         slave_list[n].rx > 0 => (RxKnown(n)' <=> RxKnown(n))
  PROVE  RxPlaced(n)'
<1>1. domain_list \in Seq(Domain)
  BY DEF ListsOK
<1>2. \A k, s : InFirst(k, s, "rx") => First(master_list', domain_list', k, s, "rx")
  BY <1>1, FirstKept DEF InFirst
<1> QED
  BY <1>2 DEF RxPlaced, InFirst

LEMMA SameTxPlace ==
  ASSUME ListsOK, MastersKept(master_list, master_list'),
         DomainsKept(domain_list, domain_list'),
         MastersThere(master_list, domain_list), UNCHANGED slave_list,
         NEW n, TxPlaced(n), pdo_map'[n].tx = pdo_map[n].tx,
         slave_list[n].tx > 0 => (TxKnown(n)' <=> TxKnown(n))
  PROVE  TxPlaced(n)'
<1>1. domain_list \in Seq(Domain)
  BY DEF ListsOK
<1>2. \A k, s : InFirst(k, s, "tx") => First(master_list', domain_list', k, s, "tx")
  BY <1>1, FirstKept DEF InFirst
<1> QED
  BY <1>2 DEF TxPlaced, InFirst

LEMMA KeptMasters ==
  ASSUME NEW ml, NEW nml, NEW dl, NEW ndl, MastersKept(ml, nml),
         MastersThere(ml, dl), DOMAIN ndl = DOMAIN dl, DomainsKept(dl, ndl)
  PROVE  MastersThere(nml, ndl)
BY DEF MastersKept, MastersThere, DomainsKept, SameService

LEMMA GetDomainMasters ==
  ASSUME domain_list \in Seq(Domain), NEW m \in DOMAIN master_list',
         MastersThere(master_list', domain_list),
         NEW id, NEW in, NEW out, NEW tid, NEW d,
         GetDomain(m, id, in, out, tid, d)
  PROVE  MastersThere(master_list', domain_list')
<1>1. CASE domain_list' = [domain_list EXCEPT ![d].input = @ \/ in,
                                              ![d].output = @ \/ out]
  <2>1. DOMAIN domain_list' = DOMAIN domain_list
    BY <1>1
  <2>2. ASSUME NEW k \in DOMAIN domain_list
        PROVE  domain_list'[k].master = domain_list[k].master
    <3>1. domain_list[k] \in Domain
      BY ElementOfSeq
    <3> QED
      BY <1>1, <3>1 DEF Domain
  <2> QED
    BY <2>1, <2>2 DEF MastersThere
<1>2. ASSUME NEW ok, domain_list' =
               Append(domain_list, NewDomain(m, id, tid, in, out, ok))
      PROVE  MastersThere(master_list', domain_list')
  <2> DEFINE e == NewDomain(m, id, tid, in, out, ok)
  <2>1. e.master = m
    BY DEF NewDomain
  <2> HIDE DEF e
  <2>2. \A k \in DOMAIN domain_list' :
          \/ k \in DOMAIN domain_list /\ domain_list'[k] = domain_list[k]
          \/ domain_list'[k] = e
    BY <1>2, AppendElements DEF e
  <2> QED
    BY <2>1, <2>2 DEF MastersThere
<1> QED
  BY <1>1, <1>2 DEF GetDomain

LEMMA GetDomainPtrMasters ==
  ASSUME ListsOK, MastersThere(master_list, domain_list),
         NEW id \in MasterIds, NEW dom, NEW in, NEW out, NEW tid \in Tids,
         NEW p, GetDomainPtr(id, dom, in, out, tid, p)
  PROVE  /\ MastersKept(master_list, master_list')
         /\ MastersThere(master_list', domain_list')
<1>1. PICK i \in MasterResults :
        /\ GetMaster(id, tid, i)
        /\ \/ i = Null /\ UNCHANGED domain_list
           \/ i # Null /\ \E d \in DomainResults : GetDomain(i, dom, in, out, tid, d)
  BY DEF GetDomainPtr
<1>2. /\ MastersKept(master_list, master_list')
      /\ i # Null => i \in DOMAIN master_list'
  BY <1>1, GetMasterKeeps DEF ListsOK
<1>3. MastersThere(master_list', domain_list)
  BY <1>2 DEF MastersKept, MastersThere
<1>4. domain_list \in Seq(Domain)
  BY DEF ListsOK
<1>5. ASSUME NEW d, i # Null, GetDomain(i, dom, in, out, tid, d)
      PROVE  MastersThere(master_list', domain_list')
  BY <1>2, <1>3, <1>4, <1>5, GetDomainMasters
<1> QED
  BY <1>1, <1>2, <1>3, <1>5

LEMMA SameLength == \A a, b \in Nat : 1..a = 1..b => a = b
<1> SUFFICES ASSUME NEW a \in Nat, NEW b \in Nat, 1..a = 1..b PROVE a = b
  OBVIOUS
<1>1. a = 0 \/ a \in 1..b
  OBVIOUS
<1>2. b = 0 \/ b \in 1..a
  OBVIOUS
<1> QED
  BY <1>1, <1>2

LEMMA BlockStartMaps ==
  ASSUME IInv, MapInv, BlockStart, pc' \notin Dead
  PROVE  MapInv'
<1>0. ListsOK
  BY DEF IInv, TypeOK
<1>1. pc \in {"mdlStart", "secondPtr"} /\ pc' \in {"mdlStart", "secondPtr"}
  BY DEF BlockStart, SlaveStart, MasterStateStart, DomainStateStart,
     SdoHandler, DomainStateSecond, AfterPtr, Dead
<1>2. /\ \A n : ~RxKnown(n) /\ ~TxKnown(n)
      /\ \A n : ~RxKnown(n)' /\ ~TxKnown(n)'
      /\ AtHand'
  BY <1>1 DEF RxKnown, TxKnown, Initing, Started, Filling, AtHand
<1>3. /\ DOMAIN pdo_map = DOMAIN slave_list
      /\ MastersThere(master_list, domain_list)
      /\ \A n \in DOMAIN slave_list : pdo_map[n].rx = Null /\ pdo_map[n].tx = Null
  BY <1>1, <1>2 DEF MapInv, RxPlaced, TxPlaced, Dead
<1>4. ASSUME DOMAIN pdo_map' = DOMAIN slave_list',
             MastersThere(master_list', domain_list'),
             \A n \in DOMAIN slave_list' :
               pdo_map'[n].rx = Null /\ pdo_map'[n].tx = Null
      PROVE  MapInv'
  BY <1>2, <1>4 DEF MapInv, RxPlaced, TxPlaced
<1>5. ASSUME NEW s \in Slave, SlaveStart(s) PROVE MapInv'
  <2> DEFINE e == [rx |-> Null, tx |-> Null]
  <2>1. e.rx = Null /\ e.tx = Null
    OBVIOUS
  <2> HIDE DEF e
  <2>2. /\ slave_list' = Append(slave_list, s)
        /\ pdo_map' = Append(pdo_map, e)
        /\ UNCHANGED <<master_list, domain_list>>
    BY <1>5 DEF SlaveStart, e
  <2>3. slave_list \in Seq(Slave) /\ pdo_map \in Seq(PdoMap)
    BY <1>0 DEF ListsOK
  <2>4. Len(pdo_map) = Len(slave_list)
    <3>1. /\ DOMAIN pdo_map = 1..Len(pdo_map) /\ Len(pdo_map) \in Nat
          /\ DOMAIN slave_list = 1..Len(slave_list) /\ Len(slave_list) \in Nat
      BY <2>3
    <3> QED
      BY <1>3, <3>1, SameLength
  <2>5. DOMAIN pdo_map' = DOMAIN slave_list'
    BY <2>2, <2>3, <2>4
  <2>6. \A n \in DOMAIN pdo_map' :
          \/ n \in DOMAIN pdo_map /\ pdo_map'[n] = pdo_map[n]
          \/ pdo_map'[n] = e
    BY <2>2, <2>3, AppendElements
  <2> QED
    BY <1>3, <1>4, <2>1, <2>2, <2>5, <2>6
<1>6. ASSUME UNCHANGED <<slave_list, pdo_map>>,
             MastersThere(master_list', domain_list')
      PROVE  MapInv'
  BY <1>3, <1>4, <1>6
<1>7. ASSUME NEW id \in MasterIds, NEW dec \in 0..1, MasterStateStart(id, dec)
      PROVE  MapInv'
  <2>1. UNCHANGED <<slave_list, pdo_map, domain_list>>
    BY <1>7 DEF MasterStateStart
  <2>2. DOMAIN master_list \subseteq DOMAIN master_list'
    <3>1. master_list \in Seq(Master)
      BY <1>0 DEF ListsOK
    <3>2. \A e : DOMAIN master_list \subseteq DOMAIN Append(master_list, e)
      BY <3>1
    <3> QED
      BY <1>7, <3>2 DEF MasterStateStart
  <2> QED
    BY <1>3, <1>6, <2>1, <2>2 DEF MastersThere
<1>8. ASSUME NEW id \in MasterIds, NEW dom \in DomainIds, NEW tid \in Tids,
             NEW mode \in Modes, DomainStateStart(id, dom, tid, mode)
      PROVE  MapInv'
  <2>1. \E p, in, out : GetDomainPtr(id, dom, in, out, tid, p)
    BY <1>8 DEF DomainStateStart
  <2>2. MastersThere(master_list', domain_list')
    BY <1>0, <1>3, <2>1, GetDomainPtrMasters
  <2> QED
    BY <1>6, <1>8, <2>2 DEF DomainStateStart
<1>9. ASSUME NEW id \in MasterIds, NEW q \in Positions, SdoHandler(id, q)
      PROVE  MapInv'
  BY <1>3, <1>6, <1>9 DEF SdoHandler
<1>10. ASSUME DomainStateSecond PROVE MapInv'
  <2> DEFINE b == domain_ptrs[Len(domain_ptrs)]
  <2>1. PICK p : GetDomainPtr(b.master, b.domain, FALSE, TRUE, b.tid, p)
    BY <1>10 DEF DomainStateSecond
  <2>2. domain_ptrs # <<>>
    BY <1>10 DEF DomainStateSecond, IInv, Indexed
  <2>3. b \in DomainPtr
    <3>1. Len(domain_ptrs) \in DOMAIN domain_ptrs
      BY <1>0, <2>2 DEF ListsOK
    <3> QED
      BY <1>0, <3>1, ElementOfSeq DEF ListsOK
  <2>4. b.master \in MasterIds /\ b.tid \in Tids
    BY <2>3 DEF DomainPtr
  <2> HIDE DEF b
  <2>5. MastersThere(master_list', domain_list')
    BY <1>0, <1>3, <2>1, <2>4, GetDomainPtrMasters
  <2> QED
    BY <1>6, <1>10, <2>5 DEF DomainStateSecond
<1> QED
  BY <1>5, <1>7, <1>8, <1>9, <1>10 DEF BlockStart

\* A record that keeps the service of a domain.
LEMMA CountsKeepService ==
  ASSUME NEW d \in Domain, NEW k
  PROVE  /\ SameService(d, [d EXCEPT !.input_count = k])
         /\ SameService(d, [d EXCEPT !.output_count = k])
         /\ SameService(d, Allocated(d))
         /\ SameService(d, d)
BY DEF Domain, SameService, Allocated

LEMMA CountKept ==
  ASSUME ListsOK, NEW d, NEW x,
         \/ domain_list' = [domain_list EXCEPT ![d].output_count = @ + x]
         \/ domain_list' = [domain_list EXCEPT ![d].input_count = @ + x]
  PROVE  /\ DomainsKept(domain_list, domain_list')
         /\ DOMAIN domain_list' = DOMAIN domain_list
<1>1. DOMAIN domain_list' = DOMAIN domain_list
  OBVIOUS
<1>2. ASSUME NEW k \in DOMAIN domain_list
      PROVE  SameService(domain_list[k], domain_list'[k])
  <2> DEFINE o == domain_list[k]
  <2>1. o \in Domain
    BY ElementTypes
  <2>2. \/ domain_list'[k] = [o EXCEPT !.output_count = o.output_count + x]
        \/ domain_list'[k] = [o EXCEPT !.input_count = o.input_count + x]
        \/ domain_list'[k] = o
    OBVIOUS
  <2> HIDE DEF o
  <2>3. SameService(o, domain_list'[k])
    <3>1. /\ SameService(o, [o EXCEPT !.input_count = o.input_count + x])
          /\ SameService(o, [o EXCEPT !.output_count = o.output_count + x])
      BY <2>1 DEF Domain, SameService
    <3>2. SameService(o, o)
      BY DEF SameService
    <3> QED
      BY <2>2, <3>1, <3>2
  <2> QED
    BY <2>3 DEF o
<1> QED
  BY <1>1, <1>2 DEF DomainsKept

LEMMA InitSlaveMaps ==
  ASSUME IInv, FastestInv, MapInv, InitSlave, pc' \notin Dead
  PROVE  MapInv'
<1>0. ListsOK /\ Indexed /\ cur \in Nat
  BY DEF IInv, TypeOK, LocalsOK
<1>1. pc \in Initing
  BY DEF InitSlave, InitSlaveMaster, InitSlaveConfig, RxDomain, TxDomain,
     InitSlaveDomain, RxPdos, TxPdos, SdoRequests, Initing
<1>2. /\ DOMAIN pdo_map = DOMAIN slave_list
      /\ MastersThere(master_list, domain_list)
      /\ \A n \in DOMAIN slave_list : RxPlaced(n) /\ TxPlaced(n)
      /\ AtHand
  BY <1>1 DEF MapInv, Initing, Dead
<1>3. /\ cur \in DOMAIN slave_list /\ S = slave_list[cur]
      /\ domain_list \in Seq(Domain) /\ master_list \in Seq(Master)
      /\ S.master \in MasterIds /\ S.tid \in Tids
  BY <1>0, <1>1, CurrentSlave DEF Indexed, S, ListsOK
<1>4. MastersKept(master_list, master_list) /\ DomainsKept(domain_list, domain_list)
  BY DEF MastersKept, DomainsKept, SameService
<1>5. CASE InitSlaveMaster
  <2>1. PICK i \in MasterResults :
          /\ GetMaster(S.master, S.tid, i)
          /\ master' = i
          /\ pc' = IF i = Null THEN "failed" ELSE "config"
    BY <1>5 DEF InitSlaveMaster
  <2>2. UNCHANGED <<cur, slave_list, domain_list, pdo_map>> /\ pc = "get_master"
    BY <1>5 DEF InitSlaveMaster
  <2>3. pc' = "config" /\ i # Null
    BY <2>1 DEF Dead
  <2>4. /\ MastersKept(master_list, master_list')
        /\ master_list'[i].id = S.master
    BY <1>3, <2>1, <2>3, GetMasterKeeps
  <2>5. AtHand'
    BY <2>1, <2>2, <2>3, <2>4 DEF AtHand, Initing, S
  <2>6. MastersThere(master_list', domain_list')
    BY <1>2, <1>4, <2>2, <2>4, KeptMasters
  <2>7. \A n : (RxKnown(n)' <=> RxKnown(n)) /\ (TxKnown(n)' <=> TxKnown(n))
    BY <2>2, <2>3 DEF RxKnown, TxKnown, Started, Filling, Initing
  <2>8. DomainsKept(domain_list, domain_list') /\ UNCHANGED slave_list
    BY <1>4, <2>2
  <2>9. \A n \in DOMAIN slave_list : RxPlaced(n)' /\ TxPlaced(n)'
    BY <1>0, <1>2, <2>2, <2>4, <2>7, <2>8, SameRxPlace, SameTxPlace
  <2> QED
    BY <1>2, <2>2, <2>5, <2>6, <2>9 DEF MapInv
<1>6. CASE InitSlaveConfig
  <2>1. /\ UNCHANGED <<cur, master, slave_list, master_list, domain_list, pdo_map>>
        /\ pc = "config" /\ pc' = "rx_domain"
    BY <1>6 DEF InitSlaveConfig, locals, Dead
  <2>2. AtHand'
    BY <1>2, <2>1 DEF AtHand, Initing, S
  <2>3. \A n : (RxKnown(n)' <=> RxKnown(n)) /\ (TxKnown(n)' <=> TxKnown(n))
    BY <2>1 DEF RxKnown, TxKnown, Started, Filling, Initing
  <2>4. /\ MastersKept(master_list, master_list')
        /\ DomainsKept(domain_list, domain_list') /\ UNCHANGED slave_list
    BY <1>4, <2>1
  <2>5. \A n \in DOMAIN slave_list : RxPlaced(n)' /\ TxPlaced(n)'
    BY <1>0, <1>2, <2>1, <2>3, <2>4, SameRxPlace, SameTxPlace
  <2> QED
    BY <1>2, <2>1, <2>2, <2>5 DEF MapInv
<1>7. ASSUME NEW in \in BOOLEAN, NEW out \in BOOLEAN, in = ~out,
             NEW d, GetDomain(master, S.domain, in, out, S.tid, d),
             UNCHANGED master_list, pc \in Initing \ {"get_master"}
      PROVE  /\ DomainsKept(domain_list, domain_list')
             /\ MastersThere(master_list', domain_list')
             /\ d \notin {Null, Crash} =>
                  /\ out => First(master_list', domain_list', d, S, "rx")
                  /\ in => First(master_list', domain_list', d, S, "tx")
  <2>1. Unique(master_list')
    BY <1>1, <1>7 DEF FastestInv, Serving, Dead, Initing, Unique
  <2>2. master \in DOMAIN master_list' /\ S.master = master_list'[master].id
    BY <1>0, <1>2, <1>7 DEF Indexed, AtHand
  <2>3. Whole(master_list', domain_list, S, in, out)
    BY <1>7 DEF Whole
  <2>4. MastersThere(master_list', domain_list)
    BY <1>2, <1>7
  <2>5. PICK s : s = S
    OBVIOUS
  <2>6. /\ GetDomain(master, s.domain, in, out, s.tid, d)
        /\ s.master = master_list'[master].id
        /\ Whole(master_list', domain_list, s, in, out)
    BY <1>7, <2>2, <2>3, <2>5
  <2>7. /\ DomainsKept(domain_list, domain_list')
        /\ MastersThere(master_list', domain_list')
        /\ d \notin {Null, Crash} =>
             /\ out => First(master_list', domain_list', d, s, "rx")
             /\ in => First(master_list', domain_list', d, s, "tx")
    BY <1>3, <2>1, <2>2, <2>4, <2>6, GetDomainFirst
  <2> QED
    BY <2>5, <2>7
<1>8. CASE RxDomain
  <2>1. /\ UNCHANGED <<cur, master, slave_list, master_list, pdo_map>>
        /\ pc = "rx_domain"
        /\ \/ S.rx = 0 /\ pc' = "tx_domain" /\ UNCHANGED <<domain, domain_list>>
           \/ S.rx > 0 /\ \E d \in DomainResults :
                /\ GetDomain(master, S.domain, FALSE, TRUE, S.tid, d)
                /\ domain' = d
                /\ pc' = AfterPtr(d, "rx_pdos")
    BY <1>8 DEF RxDomain, InitSlaveDomain
  <2>2. MastersKept(master_list, master_list')
    BY <1>4, <2>1
  <2>3. \A n : TxKnown(n)' <=> TxKnown(n)
    BY <2>1 DEF TxKnown, Started, Filling, Initing, AfterPtr, Dead
  <2>4. \A n : slave_list[n].rx > 0 => (RxKnown(n)' <=> RxKnown(n))
    <3>1. pc' = "rx_pdos" \/ (pc' = "tx_domain" /\ S.rx = 0)
      BY <2>1 DEF AfterPtr, Dead
    <3>2. pc' = "rx_pdos" => \A n : RxKnown(n)' <=> RxKnown(n)
      BY <2>1 DEF RxKnown, Started, Filling, Initing
    <3>3. pc' = "tx_domain" => \A n : n # cur => (RxKnown(n)' <=> RxKnown(n))
      BY <2>1 DEF RxKnown, Started, Filling, Initing
    <3>4. S.rx = 0 => ~(slave_list[cur].rx > 0)
      BY <1>3
    <3> QED
      BY <3>1, <3>2, <3>3, <3>4
  <2>5. /\ DomainsKept(domain_list, domain_list')
        /\ MastersThere(master_list', domain_list')
        /\ AtHand'
    <3>1. CASE S.rx = 0 /\ pc' = "tx_domain" /\ UNCHANGED <<domain, domain_list>>
      BY <1>2, <1>4, <2>1, <3>1 DEF AtHand, Initing, S
    <3>2. ASSUME S.rx > 0, NEW d \in DomainResults,
                 GetDomain(master, S.domain, FALSE, TRUE, S.tid, d),
                 domain' = d, pc' = AfterPtr(d, "rx_pdos")
          PROVE  /\ DomainsKept(domain_list, domain_list')
                 /\ MastersThere(master_list', domain_list')
                 /\ AtHand'
      <4>1. d \notin {Null, Crash} /\ pc' = "rx_pdos"
        BY <3>2 DEF AfterPtr, Dead
      <4>2. /\ DomainsKept(domain_list, domain_list')
            /\ MastersThere(master_list', domain_list')
            /\ First(master_list', domain_list', d, S, "rx")
        BY <1>7, <2>1, <3>2, <4>1 DEF Initing
      <4>3. S' = S
        BY <2>1 DEF S
      <4>4. AtHand'
        BY <1>2, <2>1, <3>2, <4>1, <4>2, <4>3 DEF AtHand, Initing, InFirst
      <4> QED
        BY <4>2, <4>4
    <3> QED
      BY <2>1, <3>1, <3>2
  <2>6. \A n \in DOMAIN slave_list : RxPlaced(n)' /\ TxPlaced(n)'
    BY <1>0, <1>2, <2>1, <2>2, <2>3, <2>4, <2>5, SameRxPlace, SameTxPlace
  <2> QED
    BY <1>2, <2>1, <2>5, <2>6 DEF MapInv
<1>9. CASE TxDomain
  <2>1. /\ UNCHANGED <<cur, master, slave_list, master_list, pdo_map>>
        /\ pc = "tx_domain"
        /\ \/ S.tx = 0 /\ pc' = "sdo_req" /\ UNCHANGED <<domain, domain_list>>
           \/ S.tx > 0 /\ \E d \in DomainResults :
                /\ GetDomain(master, S.domain, TRUE, FALSE, S.tid, d)
                /\ domain' = d
                /\ pc' = AfterPtr(d, "tx_pdos")
    BY <1>9 DEF TxDomain, InitSlaveDomain
  <2>2. MastersKept(master_list, master_list')
    BY <1>4, <2>1
  <2>3. \A n : RxKnown(n)' <=> RxKnown(n)
    BY <2>1 DEF RxKnown, Started, Filling, Initing, AfterPtr, Dead
  <2>4. \A n : slave_list[n].tx > 0 => (TxKnown(n)' <=> TxKnown(n))
    <3>1. pc' = "tx_pdos" \/ (pc' = "sdo_req" /\ S.tx = 0)
      BY <2>1 DEF AfterPtr, Dead
    <3>2. pc' = "tx_pdos" => \A n : TxKnown(n)' <=> TxKnown(n)
      BY <2>1 DEF TxKnown, Started, Filling, Initing
    <3>3. pc' = "sdo_req" => \A n : n # cur => (TxKnown(n)' <=> TxKnown(n))
      BY <2>1 DEF TxKnown, Started, Filling, Initing
    <3>4. S.tx = 0 => ~(slave_list[cur].tx > 0)
      BY <1>3
    <3> QED
      BY <3>1, <3>2, <3>3, <3>4
  <2>5. /\ DomainsKept(domain_list, domain_list')
        /\ MastersThere(master_list', domain_list')
        /\ AtHand'
    <3>1. CASE S.tx = 0 /\ pc' = "sdo_req" /\ UNCHANGED <<domain, domain_list>>
      BY <1>2, <1>4, <2>1, <3>1 DEF AtHand, Initing, S
    <3>2. ASSUME S.tx > 0, NEW d \in DomainResults,
                 GetDomain(master, S.domain, TRUE, FALSE, S.tid, d),
                 domain' = d, pc' = AfterPtr(d, "tx_pdos")
          PROVE  /\ DomainsKept(domain_list, domain_list')
                 /\ MastersThere(master_list', domain_list')
                 /\ AtHand'
      <4>1. d \notin {Null, Crash} /\ pc' = "tx_pdos"
        BY <3>2 DEF AfterPtr, Dead
      <4>2. /\ DomainsKept(domain_list, domain_list')
            /\ MastersThere(master_list', domain_list')
            /\ First(master_list', domain_list', d, S, "tx")
        BY <1>7, <2>1, <3>2, <4>1 DEF Initing
      <4>3. S' = S
        BY <2>1 DEF S
      <4>4. AtHand'
        BY <1>2, <2>1, <3>2, <4>1, <4>2, <4>3 DEF AtHand, Initing, InFirst
      <4> QED
        BY <4>2, <4>4
    <3> QED
      BY <2>1, <3>1, <3>2
  <2>6. \A n \in DOMAIN slave_list : RxPlaced(n)' /\ TxPlaced(n)'
    BY <1>0, <1>2, <2>1, <2>2, <2>3, <2>4, <2>5, SameRxPlace, SameTxPlace
  <2> QED
    BY <1>2, <2>1, <2>5, <2>6 DEF MapInv
<1>10. pdo_map \in Seq(PdoMap) /\ \A n \in DOMAIN pdo_map : pdo_map[n] \in PdoMap
  BY <1>0, ElementOfSeq DEF ListsOK
<1>11. CASE RxPdos
  <2>1. /\ UNCHANGED <<cur, master, domain, slave_list, master_list>>
        /\ pc = "rx_pdos" /\ pc' = "tx_domain"
        /\ pdo_map' = [pdo_map EXCEPT ![cur].rx = domain]
        /\ \E k : domain_list' = [domain_list EXCEPT ![domain].output_count = @ + k]
    BY <1>11 DEF RxPdos, locals, Dead
  <2>2. /\ MastersKept(master_list, master_list')
        /\ DomainsKept(domain_list, domain_list')
        /\ DOMAIN domain_list' = DOMAIN domain_list
    BY <1>0, <1>4, <2>1, CountKept
  <2>3. MastersThere(master_list', domain_list') /\ AtHand'
    BY <1>2, <2>1, <2>2, KeptMasters DEF AtHand, Initing, S
  <2>4. /\ DOMAIN pdo_map' = DOMAIN pdo_map
        /\ pdo_map'[cur].rx = domain
        /\ \A n \in DOMAIN pdo_map : pdo_map'[n].tx = pdo_map[n].tx
        /\ \A n \in DOMAIN pdo_map : n # cur => pdo_map'[n].rx = pdo_map[n].rx
    BY <1>2, <1>3, <1>10, <2>1 DEF PdoMap
  <2>5. \A n : TxKnown(n)' <=> TxKnown(n)
    BY <2>1 DEF TxKnown, Started, Filling, Initing
  <2>6. \A n : n # cur => (RxKnown(n)' <=> RxKnown(n))
    BY <2>1 DEF RxKnown, Started, Filling, Initing
  <2>7. \A n \in DOMAIN slave_list : TxPlaced(n)'
    BY <1>0, <1>2, <2>1, <2>2, <2>4, <2>5, SameTxPlace
  <2>8. \A n \in DOMAIN slave_list : n # cur => RxPlaced(n)'
    BY <1>0, <1>2, <2>1, <2>2, <2>4, <2>6, SameRxPlace
  <2>9. RxPlaced(cur)'
    <3>1. First(master_list', domain_list', domain, S, "rx") /\ S.rx > 0
      BY <1>2, <1>3, <2>1, <2>2, FirstKept DEF AtHand, InFirst
    <3>2. RxKnown(cur)'
      BY <2>1 DEF RxKnown, Initing
    <3>3. First(master_list', domain_list', pdo_map'[cur].rx, slave_list'[cur], "rx")
      BY <1>3, <2>1, <2>4, <3>1
    <3>4. UNCHANGED cur
      BY <2>1
    <3>5. slave_list'[cur].rx > 0
      BY <1>3, <2>1, <3>1
    <3> QED
      BY <3>2, <3>3, <3>4, <3>5 DEF RxPlaced, InFirst
  <2>10. \A n \in DOMAIN slave_list : RxPlaced(n)'
    <3>1. \A n : n = cur => (RxPlaced(n)' <=> RxPlaced(cur)')
      BY <2>1 DEF RxPlaced, RxKnown
    <3> QED
      BY <2>8, <2>9, <3>1
  <2> QED
    BY <1>2, <2>1, <2>3, <2>4, <2>7, <2>10 DEF MapInv
<1>12. CASE TxPdos
  <2>1. /\ UNCHANGED <<cur, master, domain, slave_list, master_list>>
        /\ pc = "tx_pdos" /\ pc' = "sdo_req"
        /\ pdo_map' = [pdo_map EXCEPT ![cur].tx = domain]
        /\ \E k : domain_list' = [domain_list EXCEPT ![domain].input_count = @ + k]
    BY <1>12 DEF TxPdos, locals, Dead
  <2>2. /\ MastersKept(master_list, master_list')
        /\ DomainsKept(domain_list, domain_list')
        /\ DOMAIN domain_list' = DOMAIN domain_list
    BY <1>0, <1>4, <2>1, CountKept
  <2>3. MastersThere(master_list', domain_list') /\ AtHand'
    BY <1>2, <2>1, <2>2, KeptMasters DEF AtHand, Initing, S
  <2>4. /\ DOMAIN pdo_map' = DOMAIN pdo_map
        /\ pdo_map'[cur].tx = domain
        /\ \A n \in DOMAIN pdo_map : pdo_map'[n].rx = pdo_map[n].rx
        /\ \A n \in DOMAIN pdo_map : n # cur => pdo_map'[n].tx = pdo_map[n].tx
    BY <1>2, <1>3, <1>10, <2>1 DEF PdoMap
  <2>5. \A n : RxKnown(n)' <=> RxKnown(n)
    BY <2>1 DEF RxKnown, Started, Filling, Initing
  <2>6. \A n : n # cur => (TxKnown(n)' <=> TxKnown(n))
    BY <2>1 DEF TxKnown, Started, Filling, Initing
  <2>7. \A n \in DOMAIN slave_list : RxPlaced(n)'
    BY <1>0, <1>2, <2>1, <2>2, <2>4, <2>5, SameRxPlace
  <2>8. \A n \in DOMAIN slave_list : n # cur => TxPlaced(n)'
    BY <1>0, <1>2, <2>1, <2>2, <2>4, <2>6, SameTxPlace
  <2>9. TxPlaced(cur)'
    <3>1. First(master_list', domain_list', domain, S, "tx") /\ S.tx > 0
      BY <1>2, <1>3, <2>1, <2>2, FirstKept DEF AtHand, InFirst
    <3>2. TxKnown(cur)'
      BY <2>1 DEF TxKnown, Initing
    <3>3. First(master_list', domain_list', pdo_map'[cur].tx, slave_list'[cur], "tx")
      BY <1>3, <2>1, <2>4, <3>1
    <3>4. UNCHANGED cur
      BY <2>1
    <3>5. slave_list'[cur].tx > 0
      BY <1>3, <2>1, <3>1
    <3> QED
      BY <3>2, <3>3, <3>4, <3>5 DEF TxPlaced, InFirst
  <2>10. \A n \in DOMAIN slave_list : TxPlaced(n)'
    <3>1. \A n : n = cur => (TxPlaced(n)' <=> TxPlaced(cur)')
      BY <2>1 DEF TxPlaced, TxKnown
    <3> QED
      BY <2>8, <2>9, <3>1
  <2> QED
    BY <1>2, <2>1, <2>3, <2>4, <2>7, <2>10 DEF MapInv
<1>13. CASE SdoRequests
  <2>1. /\ UNCHANGED <<slave_list, master_list, domain_list, pdo_map>>
        /\ pc = "sdo_req"
        /\ \/ cur' = cur + 1 /\ pc' = "get_master"
           \/ cur = Len(slave_list) /\ pc' = "activate"
    BY <1>13 DEF SdoRequests
  <2>2. \A n \in DOMAIN slave_list : n \in Nat /\ n <= Len(slave_list)
    BY <1>0 DEF ListsOK
  <2>3. \A n \in DOMAIN slave_list :
          /\ RxKnown(n) <=> n < cur \/ n = cur
          /\ TxKnown(n) <=> n < cur \/ n = cur
    BY <2>1 DEF RxKnown, TxKnown, Started, Filling, Initing
  <2>4. \A n \in DOMAIN slave_list :
          (RxKnown(n)' <=> RxKnown(n)) /\ (TxKnown(n)' <=> TxKnown(n))
    <3>1. CASE cur' = cur + 1 /\ pc' = "get_master"
      <4>1. \A n \in DOMAIN slave_list :
              (RxKnown(n)' <=> n < cur + 1) /\ (TxKnown(n)' <=> n < cur + 1)
        BY <3>1 DEF RxKnown, TxKnown, Started, Filling, Initing
      <4>2. \A n \in DOMAIN slave_list : n < cur + 1 <=> n < cur \/ n = cur
        BY <1>0, <2>2
      <4> QED
        BY <2>3, <4>1, <4>2
    <3>2. CASE cur = Len(slave_list) /\ pc' = "activate"
      <4>1. \A n : RxKnown(n)' /\ TxKnown(n)'
        BY <3>2 DEF RxKnown, TxKnown, Started
      <4>2. \A n \in DOMAIN slave_list : n < cur \/ n = cur
        BY <1>0, <2>2, <3>2
      <4> QED
        BY <2>3, <4>1, <4>2
    <3> QED
      BY <2>1, <3>1, <3>2
  <2>5. /\ MastersKept(master_list, master_list')
        /\ DomainsKept(domain_list, domain_list') /\ UNCHANGED slave_list
    BY <1>4, <2>1
  <2>6. \A n \in DOMAIN slave_list : RxPlaced(n)' /\ TxPlaced(n)'
    BY <1>0, <1>2, <2>1, <2>4, <2>5, SameRxPlace, SameTxPlace
  <2>7. AtHand'
    BY <2>1 DEF AtHand, Initing
  <2> QED
    BY <1>2, <2>1, <2>6, <2>7 DEF MapInv
<1> QED
  BY <1>5, <1>6, <1>8, <1>9, <1>11, <1>12, <1>13 DEF InitSlave

\* ecs_start()'s second and third loop leave services and places alone.
LEMMA StartedKeeps ==
  ASSUME IInv, Activate \/ FillRx \/ FillTx
  PROVE  /\ MastersKept(master_list, master_list')
         /\ DomainsKept(domain_list, domain_list')
         /\ DOMAIN domain_list' = DOMAIN domain_list
         /\ UNCHANGED <<slave_list, pdo_map, domain_ptrs>>
<1>0. ListsOK
  BY DEF IInv, TypeOK
<1>1. UNCHANGED <<slave_list, pdo_map, domain_ptrs>>
  BY DEF Activate, FillRx, FillTx
<1>2. MastersKept(master_list, master_list')
  <2>1. CASE UNCHANGED master_list
    BY <2>1 DEF MastersKept
  <2>2. CASE master_list' = [master_list EXCEPT ![cur].active = TRUE]
    <3>1. DOMAIN master_list' = DOMAIN master_list
      BY <2>2
    <3>2. \A i \in DOMAIN master_list : master_list'[i].id = master_list[i].id
      BY <1>0, <2>2, ElementTypes DEF Master
    <3> QED
      BY <3>1, <3>2 DEF MastersKept
  <2> QED
    BY <2>1, <2>2 DEF Activate, FillRx, FillTx
<1>3. CASE UNCHANGED domain_list
  BY <1>1, <1>2, <1>3 DEF DomainsKept, SameService
<1>4. CASE domain_list' = [d \in DOMAIN domain_list |->
             IF domain_list[d].master = cur THEN Allocated(domain_list[d])
                                            ELSE domain_list[d]]
  <2>1. \A k \in DOMAIN domain_list :
          \/ domain_list'[k] = Allocated(domain_list[k])
          \/ domain_list'[k] = domain_list[k]
    BY <1>4
  <2>2. \A k \in DOMAIN domain_list : SameService(domain_list[k], domain_list'[k])
    BY <1>0, <2>1, ElementTypes, CountsKeepService
  <2>3. DOMAIN domain_list' = DOMAIN domain_list
    BY <1>4
  <2> QED
    BY <1>1, <1>2, <2>2, <2>3 DEF DomainsKept
<1>5. ASSUME NEW d, NEW x,
             \/ domain_list' = [domain_list EXCEPT ![d].output_count = @ + x]
             \/ domain_list' = [domain_list EXCEPT ![d].input_count = @ + x]
      PROVE  /\ DomainsKept(domain_list, domain_list')
             /\ DOMAIN domain_list' = DOMAIN domain_list
  BY <1>0, <1>5, CountKept
<1>6. CASE Activate
  BY <1>3, <1>4, <1>6 DEF Activate
<1>7. CASE FillRx
  BY <1>1, <1>2, <1>3, <1>5, <1>7 DEF FillRx
<1>8. CASE FillTx
  BY <1>1, <1>2, <1>3, <1>5, <1>8 DEF FillTx
<1> QED
  BY <1>6, <1>7, <1>8

LEMMA StartedMaps ==
  ASSUME IInv, MapInv, Activate \/ FillRx \/ FillTx, pc' \notin Dead
  PROVE  MapInv'
<1>0. ListsOK
  BY DEF IInv, TypeOK
<1>1. pc \in Started /\ pc' \in Started
  BY DEF Activate, FillRx, FillTx, Started, Filling, Dead
<1>2. /\ DOMAIN pdo_map = DOMAIN slave_list
      /\ MastersThere(master_list, domain_list)
      /\ \A n \in DOMAIN slave_list : RxPlaced(n) /\ TxPlaced(n)
  BY <1>1 DEF MapInv, Started, Filling, Dead
<1>3. /\ MastersKept(master_list, master_list')
      /\ DomainsKept(domain_list, domain_list')
      /\ DOMAIN domain_list' = DOMAIN domain_list
      /\ UNCHANGED <<slave_list, pdo_map>>
  BY StartedKeeps
<1>4. \A n : (RxKnown(n)' <=> RxKnown(n)) /\ (TxKnown(n)' <=> TxKnown(n))
  BY <1>1 DEF RxKnown, TxKnown
<1>5. \A n \in DOMAIN slave_list : RxPlaced(n)' /\ TxPlaced(n)'
  BY <1>0, <1>2, <1>3, <1>4, SameRxPlace, SameTxPlace
<1>6. MastersThere(master_list', domain_list')
  BY <1>2, <1>3, KeptMasters
<1>7. AtHand'
  BY <1>1 DEF AtHand, Initing, Started, Filling
<1> QED
  BY <1>2, <1>3, <1>5, <1>6, <1>7 DEF MapInv

LEMMA EcsStartMaps ==
  ASSUME IInv, MapInv, EcsStart, pc' \notin Dead
  PROVE  MapInv'
<1>0. ListsOK
  BY DEF IInv, TypeOK
<1>1. /\ pc = "mdlStart" /\ cur' = 1
      /\ UNCHANGED <<slave_list, pdo_map, master_list, domain_list>>
      /\ \/ pc' = "get_master"
         \/ slave_list = <<>> /\ pc' = "activate"
  BY DEF EcsStart, Dead
<1>2. /\ DOMAIN pdo_map = DOMAIN slave_list
      /\ MastersThere(master_list, domain_list)
      /\ \A n \in DOMAIN slave_list : RxPlaced(n) /\ TxPlaced(n)
  BY <1>1 DEF MapInv, Dead
<1>3. /\ MastersKept(master_list, master_list')
      /\ DomainsKept(domain_list, domain_list')
  BY <1>1 DEF MastersKept, DomainsKept, SameService
<1>4. \A n \in DOMAIN slave_list : n \in Nat \ {0} /\ ~(n < 1) /\ n >= 1
  BY <1>0 DEF ListsOK
<1>5. \A n \in DOMAIN slave_list :
        (RxKnown(n)' <=> RxKnown(n)) /\ (TxKnown(n)' <=> TxKnown(n))
  <2>1. \A n : ~RxKnown(n) /\ ~TxKnown(n)
    BY <1>1 DEF RxKnown, TxKnown, Started, Filling, Initing
  <2>2. \A n \in DOMAIN slave_list : pc' = "get_master" /\ cur' = 1
    BY <1>1, <1>4
  <2>3. \A n \in DOMAIN slave_list : ~RxKnown(n)' /\ ~TxKnown(n)'
    BY <1>4, <2>2 DEF RxKnown, TxKnown, Started, Filling, Initing
  <2> QED
    BY <2>1, <2>3
<1>6. \A n \in DOMAIN slave_list : RxPlaced(n)' /\ TxPlaced(n)'
  BY <1>0, <1>1, <1>2, <1>3, <1>5, SameRxPlace, SameTxPlace
<1>7. AtHand'
  BY <1>1 DEF AtHand, Initing
<1> QED
  BY <1>1, <1>2, <1>6, <1>7 DEF MapInv

LEMMA MapStep == IInv /\ FastestInv /\ MapInv /\ [Next]_vars => MapInv'
<1> SUFFICES ASSUME IInv, FastestInv, MapInv, [Next]_vars, pc' \notin Dead
             PROVE  MapInv'
  BY DEF MapInv
<1>1. CASE Finished \/ UNCHANGED vars
  <2>1. UNCHANGED <<pc, cur, master, domain, slave_list, pdo_map, master_list,
                    domain_list>>
    BY <1>1 DEF Finished, vars
  <2>2. /\ AtHand' <=> AtHand
        /\ \A n : RxPlaced(n)' <=> RxPlaced(n)
        /\ \A n : TxPlaced(n)' <=> TxPlaced(n)
    BY <2>1 DEF AtHand, RxPlaced, TxPlaced, RxKnown, TxKnown, InFirst, S
  <2> QED
    BY <2>1, <2>2 DEF MapInv
<1> QED
  BY <1>1, BlockStartMaps, EcsStartMaps, InitSlaveMaps, StartedMaps DEF Next

LEMMA MapInit == Init => MapInv
<1> SUFFICES ASSUME Init PROVE MapInv
  OBVIOUS
<1>1. AtHand
  BY DEF Init, AtHand, Initing
<1>2. DOMAIN domain_list = {} /\ DOMAIN slave_list = {} /\ DOMAIN pdo_map = {}
  BY DEF Init
<1> QED
  BY <1>1, <1>2 DEF MapInv, MastersThere

LEMMA MapImplies == IInv /\ MapInv => SameDirectionSameDomain
<1> SUFFICES ASSUME IInv, MapInv, pc = "running",
                    NEW a \in DOMAIN slave_list, NEW b \in DOMAIN slave_list,
                    SameKey(slave_list[a], slave_list[b])
             PROVE  /\ slave_list[a].rx > 0 /\ slave_list[b].rx > 0 =>
                         pdo_map[a].rx = pdo_map[b].rx
                    /\ slave_list[a].tx > 0 /\ slave_list[b].tx > 0 =>
                         pdo_map[a].tx = pdo_map[b].tx
  BY DEF SameDirectionSameDomain
<1>1. domain_list \in Seq(Domain)
  BY DEF IInv, TypeOK, ListsOK
<1>2. \A n : RxKnown(n) /\ TxKnown(n)
  BY DEF RxKnown, TxKnown, Started, Filling
<1>3. RxPlaced(a) /\ RxPlaced(b) /\ TxPlaced(a) /\ TxPlaced(b)
  BY DEF MapInv, Dead
<1>4. ASSUME slave_list[a].rx > 0, slave_list[b].rx > 0
      PROVE  pdo_map[a].rx = pdo_map[b].rx
  BY <1>1, <1>2, <1>3, <1>4, FirstUnique DEF RxPlaced, InFirst
<1>5. ASSUME slave_list[a].tx > 0, slave_list[b].tx > 0
      PROVE  pdo_map[a].tx = pdo_map[b].tx
  BY <1>1, <1>2, <1>3, <1>5, FirstUnique DEF TxPlaced, InFirst
<1> QED
  BY <1>4, <1>5

\* Slaves of one master, domain number and task have their outputs in one
\* domain, and their inputs in one, whatever blocks started in between.
THEOREM SameDirectionSameDomainAlways == Spec => []SameDirectionSameDomain
<1> QED
  BY MapInit, MapStep, MapImplies, Invariance, FastestInvInit, FastestStep,
     PTL DEF Spec

-----------------------------------------------------------------------------
(* What the Domain State blocks watch.                                     *)

Both(r) == r.input /\ r.output

\* A block that got a domain got the first one in each of its directions.
Watches(ml, dl, p) ==
  p.ptr # Null =>
    /\ p.output => First(ml, dl, p.ptr, p, "rx")
    /\ p.input => First(ml, dl, p.ptr, p, "tx")

\* A domain that was made for a Domain State block, and is still of its kind:
\* for both directions or for one.
Owned(ml, ps, d) ==
  /\ d.input \/ d.output
  /\ \E k \in DOMAIN ps : Key(ml, d, ps[k]) /\ (Both(d) <=> Both(ps[k]))

(* Only a first pointer that is not tested yet may be NULL; and as long as *)
(* the blocks agree on the kind of each key's domains no domain is widened *)
(* and no block's domain is shadowed by an earlier one.                    *)
Blocks == {"mdlStart", "secondPtr"}

PtrInv ==
  \/ pc \in Dead
  \/ /\ \A k \in DOMAIN domain_ptrs :
          domain_ptrs[k].ptr = Null => pc = "secondPtr" /\ k = Len(domain_ptrs)
     /\ UniformKeys =>
          /\ \A k \in DOMAIN domain_ptrs :
               Watches(master_list, domain_list, domain_ptrs[k])
          /\ pc \in Blocks => \A d \in DOMAIN domain_list :
               Owned(master_list, domain_ptrs, domain_list[d])

LEMMA WatchesKept ==
  ASSUME ListsOK, MastersKept(master_list, master_list'),
         DomainsKept(domain_list, domain_list'),
         MastersThere(master_list, domain_list), NEW p,
         Watches(master_list, domain_list, p)
  PROVE  Watches(master_list', domain_list', p)
<1>1. domain_list \in Seq(Domain)
  BY DEF ListsOK
<1> QED
  BY <1>1, FirstKept DEF Watches

LEMMA OwnedKept ==
  ASSUME MastersKept(master_list, master_list'),
         DomainsKept(domain_list, domain_list'),
         MastersThere(master_list, domain_list),
         \A k \in DOMAIN domain_ptrs :
           k \in DOMAIN domain_ptrs' /\ domain_ptrs'[k] = domain_ptrs[k],
         NEW d \in DOMAIN domain_list, Owned(master_list, domain_ptrs, domain_list[d])
  PROVE  Owned(master_list', domain_ptrs', domain_list'[d])
<1> DEFINE o == domain_list[d]
           n == domain_list'[d]
<1>1. /\ SameService(o, n)
      /\ \A s : Key(master_list', n, s) <=> Key(master_list, o, s)
  BY DEF DomainsKept, SameService, MastersThere, MastersKept, Key
<1>2. PICK k \in DOMAIN domain_ptrs :
        Key(master_list, o, domain_ptrs[k]) /\ (Both(o) <=> Both(domain_ptrs[k]))
  BY DEF Owned
<1>3. /\ k \in DOMAIN domain_ptrs'
      /\ Key(master_list', n, domain_ptrs'[k])
      /\ Both(n) <=> Both(domain_ptrs'[k])
      /\ n.input \/ n.output
  BY <1>1, <1>2 DEF SameService, Both, Owned
<1> QED
  BY <1>3 DEF Owned

\* A pointer joins the list, the keys still being uniform.
LEMMA PtrAdded ==
  ASSUME ListsOK, MapInv, PtrInv, pc \in Blocks, Unique(master_list'),
         NEW id \in MasterIds, NEW dom, NEW tid \in Tids, NEW in \in BOOLEAN,
         NEW out \in BOOLEAN, in \/ out, NEW p, p # Crash,
         GetDomainPtr(id, dom, in, out, tid, p),
         domain_ptrs' = Append(domain_ptrs, Pointer(id, dom, tid, in, out, p)),
         UniformKeys'
  PROVE  /\ \A k \in DOMAIN domain_ptrs' : Watches(master_list', domain_list', domain_ptrs'[k])
         /\ \A d \in DOMAIN domain_list' : Owned(master_list', domain_ptrs', domain_list'[d])
<1> DEFINE e == Pointer(id, dom, tid, in, out, p)
<1>1. /\ e.master = id /\ e.domain = dom /\ e.tid = tid /\ e.ptr = p
      /\ e.input = in /\ e.output = out
  BY DEF Pointer
<1> HIDE DEF e
<1>2. /\ \A k \in DOMAIN domain_ptrs :
           k \in DOMAIN domain_ptrs' /\ domain_ptrs'[k] = domain_ptrs[k]
      /\ \A k \in DOMAIN domain_ptrs' :
           (k \in DOMAIN domain_ptrs /\ domain_ptrs'[k] = domain_ptrs[k])
             \/ domain_ptrs'[k] = e
      /\ \E k \in DOMAIN domain_ptrs' : domain_ptrs'[k] = e
  <2>1. domain_ptrs \in Seq(DomainPtr) /\ domain_ptrs' = Append(domain_ptrs, e)
    BY DEF ListsOK, e
  <2>2. /\ \A k \in DOMAIN domain_ptrs :
             k \in DOMAIN domain_ptrs' /\ domain_ptrs'[k] = domain_ptrs[k]
        /\ Len(domain_ptrs) + 1 \in DOMAIN domain_ptrs'
        /\ domain_ptrs'[Len(domain_ptrs) + 1] = e
    BY <2>1
  <2>3. \A k \in DOMAIN domain_ptrs' :
          \/ k \in DOMAIN domain_ptrs /\ domain_ptrs'[k] = domain_ptrs[k]
          \/ domain_ptrs'[k] = e
    BY <2>1, AppendElements
  <2> QED
    BY <2>2, <2>3
<1>3. UniformKeys
  BY <1>2 DEF UniformKeys
<1>4. /\ MastersThere(master_list, domain_list)
      /\ \A k \in DOMAIN domain_ptrs : Watches(master_list, domain_list, domain_ptrs[k])
      /\ \A d \in DOMAIN domain_list : Owned(master_list, domain_ptrs, domain_list[d])
  BY <1>3 DEF MapInv, PtrInv, Blocks, Dead
<1>5. PICK i \in MasterResults :
        /\ GetMaster(id, tid, i)
        /\ \/ i = Null /\ p = Null /\ UNCHANGED domain_list
           \/ i # Null /\ \E d \in DomainResults :
                /\ GetDomain(i, dom, in, out, tid, d)
                /\ p = IF d > 0 /\ ~domain_list'[d].handle THEN Null ELSE d
  BY DEF GetDomainPtr
<1>6. /\ MastersKept(master_list, master_list')
      /\ i # Null => i \in DOMAIN master_list' /\ master_list'[i].id = id
  BY <1>5, GetMasterKeeps DEF ListsOK
<1>7. ASSUME DomainsKept(domain_list, domain_list'),
             p # Null => /\ out => First(master_list', domain_list', p, e, "rx")
                         /\ in => First(master_list', domain_list', p, e, "tx")
      PROVE  \A k \in DOMAIN domain_ptrs' : Watches(master_list', domain_list', domain_ptrs'[k])
  <2>1. \A k \in DOMAIN domain_ptrs :
          Watches(master_list', domain_list', domain_ptrs[k])
    BY <1>4, <1>6, <1>7, WatchesKept
  <2>2. Watches(master_list', domain_list', e)
    BY <1>1, <1>7 DEF Watches
  <2> QED
    BY <1>2, <2>1, <2>2
<1>8. ASSUME DomainsKept(domain_list, domain_list'), NEW d \in DOMAIN domain_list
      PROVE  Owned(master_list', domain_ptrs', domain_list'[d])
  BY <1>2, <1>4, <1>6, <1>8, OwnedKept
<1>9. CASE p = Null /\ UNCHANGED domain_list
  <2>1. DomainsKept(domain_list, domain_list')
    BY <1>9 DEF DomainsKept, SameService
  <2> QED
    BY <1>7, <1>8, <1>9, <2>1
<1>10. ASSUME i # Null, NEW d, GetDomain(i, dom, in, out, tid, d), p \in {Null, d}
       PROVE  /\ \A k \in DOMAIN domain_ptrs' : Watches(master_list', domain_list', domain_ptrs'[k])
              /\ \A k \in DOMAIN domain_list' : Owned(master_list', domain_ptrs', domain_list'[k])
  <2>1. ASSUME NEW k \in DOMAIN domain_list, Key(master_list', domain_list[k], e)
        PROVE  (domain_list[k].input /\ domain_list[k].output) <=> (in /\ out)
    <3>1. PICK j \in DOMAIN domain_ptrs :
            /\ Key(master_list, domain_list[k], domain_ptrs[j])
            /\ Both(domain_list[k]) <=> Both(domain_ptrs[j])
      BY <1>4 DEF Owned
    <3>2. Key(master_list', domain_list[k], domain_ptrs[j])
      BY <1>4, <1>6, <3>1 DEF Key, MastersThere, MastersKept
    <3>3. SameKey(domain_ptrs[j], e)
      BY <2>1, <3>2 DEF SameKey, Key
    <3>4. (domain_ptrs[j].input /\ domain_ptrs[j].output) = (e.input /\ e.output)
      BY <1>2, <3>3 DEF UniformKeys
    <3> QED
      BY <1>1, <3>1, <3>4 DEF Both
  <2>2. \A k \in DOMAIN domain_list : domain_list[k].input \/ domain_list[k].output
    BY <1>4 DEF Owned
  <2>3. Whole(master_list', domain_list, e, in, out)
    BY <2>1, <2>2 DEF Whole
  <2>4. /\ MastersThere(master_list', domain_list)
        /\ domain_list \in Seq(Domain)
    BY <1>4, <1>6 DEF MastersThere, MastersKept, ListsOK
  <2>s. PICK s : s = e
    OBVIOUS
  <2>5. /\ i \in DOMAIN master_list' /\ s.master = master_list'[i].id
        /\ GetDomain(i, s.domain, in, out, s.tid, d)
        /\ Whole(master_list', domain_list, s, in, out)
    BY <1>1, <1>6, <1>10, <2>3, <2>s
  <2>6. /\ DomainsKept(domain_list, domain_list')
        /\ \A k \in DOMAIN domain_list' :
             \/ k \in DOMAIN domain_list
             \/ /\ Key(master_list', domain_list'[k], e)
                /\ domain_list'[k].input = in /\ domain_list'[k].output = out
        /\ d \notin {Null, Crash} =>
             /\ out => First(master_list', domain_list', d, e, "rx")
             /\ in => First(master_list', domain_list', d, e, "tx")
    BY <2>4, <2>5, <2>s, GetDomainFirst
  <2>7. ASSUME NEW k \in DOMAIN domain_list', Key(master_list', domain_list'[k], e),
               domain_list'[k].input = in, domain_list'[k].output = out
        PROVE  Owned(master_list', domain_ptrs', domain_list'[k])
    <3>1. Both(domain_list'[k]) <=> Both(e)
      BY <1>1, <2>7 DEF Both
    <3>2. domain_list'[k].input \/ domain_list'[k].output
      BY <2>7
    <3> QED
      BY <1>2, <2>7, <3>1, <3>2 DEF Owned
  <2>8. \A k \in DOMAIN domain_list' : Owned(master_list', domain_ptrs', domain_list'[k])
    BY <1>8, <2>6, <2>7
  <2> QED
    BY <1>7, <1>10, <2>6, <2>8
<1> QED
  BY <1>5, <1>9, <1>10

\* Steps that keep the pointers and the services.
LEMMA PtrKept ==
  ASSUME ListsOK, MapInv, PtrInv, pc \notin Dead, UNCHANGED domain_ptrs,
         pc = "secondPtr" => pc' = "secondPtr",
         pc' \in Blocks => pc \in Blocks /\ DOMAIN domain_list' = DOMAIN domain_list,
         MastersKept(master_list, master_list'),
         DomainsKept(domain_list, domain_list')
  PROVE  PtrInv'
<1>1. MastersThere(master_list, domain_list)
  BY DEF MapInv
<1>2. \A k \in DOMAIN domain_ptrs :
        domain_ptrs[k].ptr = Null => pc = "secondPtr" /\ k = Len(domain_ptrs)
  BY DEF PtrInv
<1>3. UniformKeys' => UniformKeys
  BY DEF UniformKeys
<1>4. ASSUME UniformKeys, NEW k \in DOMAIN domain_ptrs
      PROVE  Watches(master_list', domain_list', domain_ptrs[k])
  BY <1>1, <1>4, WatchesKept DEF PtrInv
<1>5. ASSUME UniformKeys, pc' \in Blocks, NEW d \in DOMAIN domain_list
      PROVE  Owned(master_list', domain_ptrs', domain_list'[d])
  BY <1>1, <1>5, OwnedKept DEF PtrInv
<1> QED
  BY <1>2, <1>3, <1>4, <1>5 DEF PtrInv

\* A block's request: the pointer it gets, if MdlStart goes on.
LEMMA PtrRequested ==
  ASSUME IInv, MapInv, PtrInv, FastestInv', pc \in Blocks, pc' \in Blocks,
         NEW id \in MasterIds, NEW dom, NEW tid \in Tids, NEW in \in BOOLEAN,
         NEW out \in BOOLEAN, in \/ out, NEW p, p # Crash,
         GetDomainPtr(id, dom, in, out, tid, p),
         domain_ptrs' = Append(domain_ptrs, Pointer(id, dom, tid, in, out, p)),
         p = Null => pc' = "secondPtr",
         \A k \in DOMAIN domain_ptrs : domain_ptrs[k].ptr # Null
  PROVE  PtrInv'
<1>0. ListsOK /\ domain_ptrs \in Seq(DomainPtr)
  BY DEF IInv, TypeOK, ListsOK
<1>1. Unique(master_list')
  BY DEF FastestInv, Serving, Unique, Blocks, Dead
<1>2. ASSUME UniformKeys'
      PROVE  /\ \A k \in DOMAIN domain_ptrs' :
                  Watches(master_list', domain_list', domain_ptrs'[k])
             /\ \A d \in DOMAIN domain_list' :
                  Owned(master_list', domain_ptrs', domain_list'[d])
  BY <1>0, <1>1, <1>2, PtrAdded
<1>3. ASSUME NEW k \in DOMAIN domain_ptrs', domain_ptrs'[k].ptr = Null
      PROVE  pc' = "secondPtr" /\ k = Len(domain_ptrs')
  <2> DEFINE e == Pointer(id, dom, tid, in, out, p)
  <2>1. e.ptr = p
    BY DEF Pointer
  <2> HIDE DEF e
  <2>2. domain_ptrs' = Append(domain_ptrs, e)
    BY DEF e
  <2>3. \/ k \in DOMAIN domain_ptrs /\ domain_ptrs'[k] = domain_ptrs[k]
        \/ k = Len(domain_ptrs) + 1 /\ domain_ptrs'[k] = e
    BY <1>0, <1>3, <2>2, AppendElements
  <2>4. k = Len(domain_ptrs) + 1 /\ p = Null
    BY <1>3, <2>1, <2>3
  <2>5. Len(domain_ptrs') = Len(domain_ptrs) + 1
    BY <1>0, <2>2
  <2> QED
    BY <2>4, <2>5
<1> QED
  BY <1>2, <1>3 DEF PtrInv

LEMMA BlockStartPtrs ==
  ASSUME IInv, MapInv, PtrInv, FastestInv', BlockStart, pc' \notin Dead
  PROVE  PtrInv'
<1>0. ListsOK
  BY DEF IInv, TypeOK
<1>1. pc \in Blocks /\ pc' \in Blocks
  BY DEF BlockStart, SlaveStart, MasterStateStart, DomainStateStart,
     SdoHandler, DomainStateSecond, AfterPtr, Dead, Blocks
<1>2. DomainsKept(domain_list, domain_list) /\ MastersKept(master_list, master_list)
  BY DEF DomainsKept, SameService, MastersKept
<1>3. pc \notin Dead /\ DOMAIN domain_list = DOMAIN domain_list
  BY <1>1 DEF Blocks, Dead
<1>4. ASSUME UNCHANGED <<pc, domain_ptrs, domain_list>>,
             MastersKept(master_list, master_list')
      PROVE  PtrInv'
  <2>1. DomainsKept(domain_list, domain_list')
    BY <1>2, <1>4
  <2> QED
    BY <1>0, <1>1, <1>3, <1>4, <2>1, PtrKept
<1>5. CASE \E s \in Slave : SlaveStart(s)
  <2>1. UNCHANGED <<pc, domain_ptrs, domain_list, master_list>>
    BY <1>5 DEF SlaveStart
  <2> QED
    BY <1>2, <1>4, <2>1
<1>6. CASE \E id \in MasterIds, q \in Positions : SdoHandler(id, q)
  <2>1. UNCHANGED <<pc, domain_ptrs, domain_list, master_list>>
    BY <1>6 DEF SdoHandler
  <2> QED
    BY <1>2, <1>4, <2>1
<1>7. ASSUME NEW id \in MasterIds, NEW dec \in 0..1, MasterStateStart(id, dec)
      PROVE  PtrInv'
  <2>1. UNCHANGED <<domain_ptrs, domain_list>> /\ pc = "mdlStart"
    BY <1>7 DEF MasterStateStart
  <2>2. UNCHANGED pc
    BY <1>7 DEF MasterStateStart, Dead
  <2>3. ASSUME NEW i \in DOMAIN master_list,
               master_list' = [master_list EXCEPT
                  ![i].refclk_trigger_init = dec, ![i].refclk_trigger = 1]
        PROVE  MastersKept(master_list, master_list')
    <3>1. DOMAIN master_list' = DOMAIN master_list
      BY <2>3
    <3>2. \A k \in DOMAIN master_list : master_list'[k].id = master_list[k].id
      BY <1>0, <2>3, ElementTypes DEF Master
    <3> QED
      BY <3>1, <3>2 DEF MastersKept
  <2>4. ASSUME NEW e, master_list' = Append(master_list, e)
        PROVE  MastersKept(master_list, master_list')
    <3>1. master_list \in Seq(Master)
      BY <1>0 DEF ListsOK
    <3>2. \A k \in DOMAIN master_list :
            k \in DOMAIN master_list' /\ master_list'[k] = master_list[k]
      BY <2>4, <3>1
    <3> QED
      BY <3>2 DEF MastersKept
  <2>5. MastersKept(master_list, master_list')
    BY <1>7, <2>3, <2>4 DEF MasterStateStart
  <2> QED
    BY <1>4, <2>1, <2>2, <2>5
<1>8. ASSUME NEW id \in MasterIds, NEW dom \in DomainIds, NEW tid \in Tids,
             NEW mode \in Modes, DomainStateStart(id, dom, tid, mode)
      PROVE  PtrInv'
  <2> DEFINE in == mode # "out"
             out == mode \in {"io", "out"}
  <2>1. PICK p \in DomainResults :
          /\ GetDomainPtr(id, dom, in, out, tid, p)
          /\ domain_ptrs' = Append(domain_ptrs, Pointer(id, dom, tid, in, out, p))
          /\ pc' = IF mode = "inout" /\ p # Crash THEN "secondPtr"
                   ELSE AfterPtr(p, "mdlStart")
    BY <1>8 DEF DomainStateStart
  <2>2. in \in BOOLEAN /\ out \in BOOLEAN /\ (in \/ out)
    OBVIOUS
  <2> HIDE DEF in, out
  <2>3. p # Crash /\ (p = Null => pc' = "secondPtr")
    BY <2>1 DEF AfterPtr, Dead, Null, Crash
  <2>4. \A k \in DOMAIN domain_ptrs : domain_ptrs[k].ptr # Null
    BY <1>3, <1>8 DEF PtrInv, DomainStateStart
  <2> QED
    BY <1>1, <2>1, <2>2, <2>3, <2>4, PtrRequested
<1>9. CASE DomainStateSecond
  <2> DEFINE b == domain_ptrs[Len(domain_ptrs)]
  <2>1. PICK p \in DomainResults :
          /\ GetDomainPtr(b.master, b.domain, FALSE, TRUE, b.tid, p)
          /\ domain_ptrs' = Append(domain_ptrs,
               Pointer(b.master, b.domain, b.tid, FALSE, TRUE, p))
          /\ pc' = IF p # Crash /\ b.ptr = Null THEN "failed"
                   ELSE AfterPtr(p, "mdlStart")
    BY <1>9 DEF DomainStateSecond
  <2>2. domain_ptrs # <<>>
    BY <1>9 DEF DomainStateSecond, IInv, Indexed
  <2>3. b \in DomainPtr
    <3>1. Len(domain_ptrs) \in DOMAIN domain_ptrs
      BY <1>0, <2>2 DEF ListsOK
    <3> QED
      BY <1>0, <3>1, ElementOfSeq DEF ListsOK
  <2>4. b.master \in MasterIds /\ b.tid \in Tids
    BY <2>3 DEF DomainPtr
  <2>5. p # Crash /\ p # Null /\ b.ptr # Null
    BY <2>1 DEF AfterPtr, Dead, Null, Crash
  <2>6. \A k \in DOMAIN domain_ptrs : domain_ptrs[k].ptr # Null
    BY <1>3, <2>5 DEF PtrInv
  <2>id. PICK id \in MasterIds : id = b.master
    BY <2>4
  <2>tid. PICK tid \in Tids : tid = b.tid
    BY <2>4
  <2>dom. PICK dom : dom = b.domain
    OBVIOUS
  <2> HIDE DEF b
  <2>7. /\ GetDomainPtr(id, dom, FALSE, TRUE, tid, p)
        /\ domain_ptrs' = Append(domain_ptrs, Pointer(id, dom, tid, FALSE, TRUE, p))
    BY <2>1, <2>id, <2>tid, <2>dom
  <2> QED
    BY <1>1, <2>5, <2>6, <2>7, PtrRequested
<1> QED
  BY <1>5, <1>6, <1>7, <1>8, <1>9 DEF BlockStart

\* init_slave() asks for one direction at a time: no domain is widened.
LEMMA InitSlaveKeeps ==
  ASSUME IInv, FastestInv, MapInv, InitSlave, pc' \notin Dead
  PROVE  /\ MastersKept(master_list, master_list')
         /\ DomainsKept(domain_list, domain_list')
         /\ UNCHANGED <<slave_list, domain_ptrs>>
<1>0. ListsOK /\ Indexed
  BY DEF IInv, TypeOK
<1>1. pc \in Initing
  BY DEF InitSlave, InitSlaveMaster, InitSlaveConfig, RxDomain, TxDomain,
     InitSlaveDomain, RxPdos, TxPdos, SdoRequests, Initing
<1>2. /\ MastersThere(master_list, domain_list) /\ AtHand
      /\ domain_list \in Seq(Domain) /\ master_list \in Seq(Master)
      /\ S.master \in MasterIds /\ S.tid \in Tids
  BY <1>0, <1>1, CurrentSlave DEF MapInv, Initing, Dead, ListsOK
<1>3. UNCHANGED <<slave_list, domain_ptrs>>
  BY DEF InitSlave, InitSlaveMaster, InitSlaveConfig, RxDomain, TxDomain,
     InitSlaveDomain, RxPdos, TxPdos, SdoRequests
<1>4. MastersKept(master_list, master_list) /\ DomainsKept(domain_list, domain_list)
  BY DEF MastersKept, DomainsKept, SameService
<1>5. CASE InitSlaveMaster
  BY <1>2, <1>3, <1>4, <1>5, GetMasterKeeps DEF InitSlaveMaster
<1>6. CASE InitSlaveConfig \/ SdoRequests
  BY <1>3, <1>4, <1>6 DEF InitSlaveConfig, SdoRequests
<1>7. ASSUME NEW in \in BOOLEAN, NEW out \in BOOLEAN, in = ~out,
             NEW d, GetDomain(master, S.domain, in, out, S.tid, d),
             UNCHANGED master_list, pc \in Initing \ {"get_master"}
      PROVE  DomainsKept(domain_list, domain_list')
  <2>1. Unique(master_list')
    BY <1>1, <1>7 DEF FastestInv, Serving, Dead, Initing, Unique
  <2>2. PICK s : s = S
    OBVIOUS
  <2>3. /\ master \in DOMAIN master_list'
        /\ GetDomain(master, s.domain, in, out, s.tid, d)
        /\ s.master = master_list'[master].id
    BY <1>0, <1>2, <1>7, <2>2 DEF Indexed, AtHand
  <2>4. Whole(master_list', domain_list, s, in, out)
    BY <1>7 DEF Whole
  <2>5. MastersThere(master_list', domain_list)
    BY <1>2, <1>7
  <2> QED
    BY <1>2, <2>1, <2>3, <2>4, <2>5, GetDomainFirst
<1>8. CASE RxDomain
  <2>1. UNCHANGED master_list /\ pc = "rx_domain"
    BY <1>8 DEF RxDomain, InitSlaveDomain
  <2>2. \/ UNCHANGED domain_list
        \/ \E d : GetDomain(master, S.domain, FALSE, TRUE, S.tid, d)
    BY <1>8 DEF RxDomain, InitSlaveDomain
  <2> QED
    BY <1>3, <1>4, <1>7, <2>1, <2>2 DEF Initing
<1>9. CASE TxDomain
  <2>1. UNCHANGED master_list /\ pc = "tx_domain"
    BY <1>9 DEF TxDomain, InitSlaveDomain
  <2>2. \/ UNCHANGED domain_list
        \/ \E d : GetDomain(master, S.domain, TRUE, FALSE, S.tid, d)
    BY <1>9 DEF TxDomain, InitSlaveDomain
  <2> QED
    BY <1>3, <1>4, <1>7, <2>1, <2>2 DEF Initing
<1>10. CASE RxPdos
  BY <1>0, <1>3, <1>4, <1>10, CountKept DEF RxPdos
<1>11. CASE TxPdos
  BY <1>0, <1>3, <1>4, <1>11, CountKept DEF TxPdos
<1> QED
  BY <1>5, <1>6, <1>8, <1>9, <1>10, <1>11 DEF InitSlave

LEMMA PtrStep ==
  IInv /\ FastestInv /\ MapInv /\ PtrInv /\ [Next]_vars => PtrInv'
<1> SUFFICES ASSUME IInv, FastestInv, MapInv, PtrInv, [Next]_vars, pc' \notin Dead
             PROVE  PtrInv'
  BY DEF PtrInv
<1>0. ListsOK
  BY DEF IInv, TypeOK
<1>1. FastestInv'
  BY FastestStep
<1>2. MastersKept(master_list, master_list) /\ DomainsKept(domain_list, domain_list)
  BY DEF MastersKept, DomainsKept, SameService
<1>3. CASE EcsStart
  <2>1. /\ UNCHANGED <<master_list, domain_list, domain_ptrs>>
        /\ pc = "mdlStart" /\ pc' \notin Blocks
    BY <1>3 DEF EcsStart, Blocks
  <2>2. /\ MastersKept(master_list, master_list')
        /\ DomainsKept(domain_list, domain_list') /\ pc \notin Dead
    BY <1>2, <2>1 DEF Dead
  <2> QED
    BY <1>0, <2>1, <2>2, PtrKept
<1>4. CASE InitSlave
  <2>1. pc \in Initing /\ pc' \notin Blocks
    BY <1>4 DEF InitSlave, InitSlaveMaster, InitSlaveConfig, RxDomain, TxDomain,
       InitSlaveDomain, RxPdos, TxPdos, SdoRequests, Initing, Blocks, AfterPtr
  <2>2. /\ MastersKept(master_list, master_list')
        /\ DomainsKept(domain_list, domain_list')
        /\ UNCHANGED domain_ptrs
    BY <1>4, InitSlaveKeeps
  <2>3. pc \notin Dead /\ pc # "secondPtr"
    BY <2>1 DEF Initing, Dead
  <2> QED
    BY <1>0, <2>1, <2>2, <2>3, PtrKept
<1>5. CASE Activate \/ FillRx \/ FillTx
  <2>1. pc \in Started /\ pc' \notin Blocks
    BY <1>5 DEF Activate, FillRx, FillTx, Started, Filling, Blocks
  <2>2. /\ MastersKept(master_list, master_list')
        /\ DomainsKept(domain_list, domain_list')
        /\ UNCHANGED domain_ptrs
    BY <1>5, StartedKeeps
  <2>3. pc \notin Dead /\ pc # "secondPtr"
    BY <2>1 DEF Started, Filling, Dead
  <2> QED
    BY <1>0, <2>1, <2>2, <2>3, PtrKept
<1>6. CASE Finished \/ UNCHANGED vars
  <2>1. UNCHANGED <<pc, master_list, domain_list, domain_ptrs>>
    BY <1>6 DEF Finished, vars
  <2>2. /\ MastersKept(master_list, master_list')
        /\ DomainsKept(domain_list, domain_list')
        /\ DOMAIN domain_list' = DOMAIN domain_list /\ pc \notin Dead
    BY <1>2, <2>1
  <2> QED
    BY <1>0, <2>1, <2>2, PtrKept
<1> QED
  BY <1>1, <1>3, <1>4, <1>5, <1>6, BlockStartPtrs DEF Next

LEMMA PtrImplies == IInv /\ MapInv /\ PtrInv => UniformKeysMonitored
<1> SUFFICES ASSUME IInv, MapInv, PtrInv, pc = "running", UniformKeys,
                    NEW k \in DOMAIN domain_ptrs, NEW n \in DOMAIN slave_list,
                    SameKey(slave_list[n], domain_ptrs[k])
             PROVE  LET p == domain_ptrs[k] IN
                    /\ p.output /\ slave_list[n].rx > 0 => pdo_map[n].rx = p.ptr
                    /\ p.input /\ slave_list[n].tx > 0 => pdo_map[n].tx = p.ptr
  BY DEF UniformKeysMonitored, Monitors
<1> DEFINE p == domain_ptrs[k]
<1>1. domain_list \in Seq(Domain)
  BY DEF IInv, TypeOK, ListsOK
<1>2. RxKnown(n) /\ TxKnown(n)
  BY DEF RxKnown, TxKnown, Started, Filling
<1>3. RxPlaced(n) /\ TxPlaced(n)
  BY DEF MapInv, Dead
<1>4. p.ptr # Null /\ Watches(master_list, domain_list, p)
  BY DEF PtrInv, Dead
<1>5. ASSUME p.output, slave_list[n].rx > 0 PROVE pdo_map[n].rx = p.ptr
  BY <1>1, <1>2, <1>3, <1>4, <1>5, FirstUnique DEF RxPlaced, InFirst, Watches
<1>6. ASSUME p.input, slave_list[n].tx > 0 PROVE pdo_map[n].tx = p.ptr
  BY <1>1, <1>2, <1>3, <1>4, <1>6, FirstUnique DEF TxPlaced, InFirst, Watches
<1> QED
  BY <1>5, <1>6

\* As long as no two Domain State blocks disagree whether their key has one
\* domain or two, each watches the domain that holds the entries of its
\* direction of every slave of its key.
THEOREM UniformKeysMonitoredAlways == Spec => []UniformKeysMonitored
<1>1. Init => PtrInv
  BY DEF Init, PtrInv
<1> QED
  BY <1>1, MapInit, MapStep, PtrStep, PtrImplies, Invariance, FastestInvInit,
     FastestStep, PTL DEF Spec

-----------------------------------------------------------------------------
(* Counting. The registration pass and the fill pass count the same        *)
(* entries; A[n] are those of the slaves 1..n, f[n] those of slave n.      *)

Sum(A, f) ==
  /\ A \in [Nat -> Nat]
  /\ A[0] = 0
  /\ \A n \in Nat \ {0} : A[n] = A[n - 1] + f[n]
  /\ \A i, j \in Nat : i <= j => A[i] <= A[j]

LEMMA ZeroSum ==
  ASSUME NEW f, \A n \in Nat \ {0} : f[n] = 0
  PROVE  Sum([n \in Nat |-> 0], f)
BY DEF Sum

\* g has x entries of slave c where f has none; B sums them up.
AddsAt(f, g, c, x) ==
  /\ f \in [Nat -> Nat] /\ c \in Nat \ {0} /\ x \in Nat
  /\ f[c] = 0 /\ g[c] = x
  /\ \A n \in Nat : n # c => g[n] = f[n]
AddedFrom(A, B, c, x) ==
  /\ B \in [Nat -> Nat]
  /\ \A n \in Nat : B[n] = IF n < c THEN A[n] ELSE A[n] + x

LEMMA AddShare ==
  ASSUME NEW f, NEW g, NEW A, Sum(A, f), NEW c, NEW x, AddsAt(f, g, c, x),
         NEW B, AddedFrom(A, B, c, x)
  PROVE  Sum(B, g)
<1> USE DEF AddsAt, AddedFrom
<1>0. /\ A \in [Nat -> Nat]
      /\ \A n \in Nat : A[n] \in Nat
  BY DEF Sum
<1>2. B[0] = 0
  BY DEF Sum
<1>3. ASSUME NEW n \in Nat \ {0} PROVE B[n] = B[n - 1] + g[n]
  <2>1. A[n] = A[n - 1] + f[n] /\ n - 1 \in Nat
    BY <1>3 DEF Sum
  <2>2. A[n] \in Nat /\ A[n - 1] \in Nat
    BY <1>0, <2>1
  <2>3. CASE n < c
    BY <1>3, <2>1, <2>3
  <2>4. CASE n = c
    BY <1>3, <2>1, <2>2, <2>4
  <2>5. CASE n > c
    <3>1. g[n] = f[n]
      BY <2>5
    <3>2. B[n] = A[n] + x /\ B[n - 1] = A[n - 1] + x
      BY <1>3, <2>1, <2>5
    <3>3. f[n] \in Nat
      OBVIOUS
    <3> QED
      BY <2>1, <2>2, <3>1, <3>2, <3>3
  <2> QED
    BY <2>3, <2>4, <2>5
<1>4. ASSUME NEW i \in Nat, NEW j \in Nat, i <= j PROVE B[i] <= B[j]
  <2>1. A[i] <= A[j] /\ A[i] \in Nat /\ A[j] \in Nat
    BY <1>0, <1>4 DEF Sum
  <2> QED
    BY <1>4, <2>1
<1> QED
  BY <1>2, <1>3, <1>4 DEF Sum

\* The entries of slave n in domain k.
RxShare(sl, pm, k) ==
  [n \in Nat |-> IF n \in DOMAIN sl /\ pm[n].rx = k THEN sl[n].rx ELSE 0]
TxShare(sl, pm, k) ==
  [n \in Nat |-> IF n \in DOMAIN sl /\ pm[n].tx = k THEN sl[n].tx ELSE 0]

(* A domain before and after its lists are allocated: N slaves, the rx     *)
(* entries of the slaves 1..r and the tx entries of 1..t filled in. The    *)
(* input list is 0..B[N], the output list is behind it.                    *)
Registered(d, A, B, N) == d.output_count = A[N] /\ d.input_count = B[N]

ListHolds(list, d, A, B, N, r, t) ==
  /\ DOMAIN list = 0..(A[N] + B[N] + 1)
  /\ d.output_base = B[N] + 1 /\ d.output_count = A[r] /\ d.input_count = B[t]
  /\ \A j \in DOMAIN list :
       /\ j < B[t] => list[j].dir = "tx"
       /\ B[t] <= j /\ j <= B[N] => list[j] = NoCopy
       /\ B[N] < j /\ j <= B[N] + A[r] => list[j].dir = "rx"
       /\ B[N] + A[r] < j => list[j] = NoCopy

Entry(n, dir, e) == [slave |-> n, dir |-> dir, entry |-> e]

RxEntries(list, k, A, b, r) ==
  \A n \in 1..r : pdo_map[n].rx = k =>
    \A e \in 1..slave_list[n].rx : list[b + A[n - 1] + e] = Entry(n, "rx", e)
TxEntries(list, k, B, t) ==
  \A n \in 1..t : pdo_map[n].tx = k =>
    \A e \in 1..slave_list[n].tx : list[B[n - 1] + e - 1] = Entry(n, "tx", e)

LEMMA RxFilledHolds ==
  ASSUME NEW list, NEW d, NEW e, NEW A \in [Nat -> Nat], NEW B \in [Nat -> Nat],
         NEW N \in Nat, NEW c \in Nat \ {0}, NEW t \in Nat, NEW x \in Nat,
         ListHolds(list, d, A, B, N, c - 1, t), A[c] = A[c - 1] + x,
         A[c] <= A[N], B[t] <= B[N], e.output_base = d.output_base,
         e.output_count = A[c], e.input_count = d.input_count
  PROVE  ListHolds(Filled(list, B[N] + 1 + A[c - 1], x, "rx"), e, A, B, N, c, t)
<1> DEFINE new == Filled(list, B[N] + 1 + A[c - 1], x, "rx")
<1>1. c - 1 \in Nat
  OBVIOUS
<1>2. A[c] \in Nat /\ A[c - 1] \in Nat /\ A[N] \in Nat /\ B[N] \in Nat /\ B[t] \in Nat
  BY <1>1
<1>3. DOMAIN new = DOMAIN list
  BY DEF Filled
<1>4. ASSUME NEW j \in DOMAIN list
      PROVE  /\ j \in Nat
             /\ B[N] + A[c - 1] < j /\ j <= B[N] + A[c] => new[j].dir = "rx"
             /\ ~(B[N] + A[c - 1] < j /\ j <= B[N] + A[c]) => new[j] = list[j]
  <2>1. j \in Nat
    BY <1>2 DEF ListHolds
  <2>2. j \in (B[N] + 1 + A[c - 1])..(B[N] + 1 + A[c - 1] + x - 1) <=>
          B[N] + A[c - 1] < j /\ j <= B[N] + A[c]
    BY <1>2, <2>1
  <2> QED
    BY <2>1, <2>2 DEF Filled
<1>5. ASSUME NEW j \in DOMAIN list
      PROVE  /\ j < B[t] => new[j].dir = "tx"
             /\ B[t] <= j /\ j <= B[N] => new[j] = NoCopy
             /\ B[N] < j /\ j <= B[N] + A[c] => new[j].dir = "rx"
             /\ B[N] + A[c] < j => new[j] = NoCopy
  <2>1. /\ j < B[t] => list[j].dir = "tx"
        /\ B[t] <= j /\ j <= B[N] => list[j] = NoCopy
        /\ B[N] < j /\ j <= B[N] + A[c - 1] => list[j].dir = "rx"
        /\ B[N] + A[c - 1] < j => list[j] = NoCopy
    BY DEF ListHolds
  <2> HIDE DEF new
  <2> QED
    BY <1>2, <1>4, <2>1
<1>6. e.output_base = B[N] + 1 /\ e.output_count = A[c] /\ e.input_count = B[t]
  BY DEF ListHolds
<1>7. DOMAIN new = 0..(A[N] + B[N] + 1)
  BY <1>3 DEF ListHolds
<1> HIDE DEF new
<1>8. ListHolds(new, e, A, B, N, c, t)
  BY <1>3, <1>5, <1>6, <1>7 DEF ListHolds
<1> QED
  BY <1>8 DEF new

LEMMA TxFilledHolds ==
  ASSUME NEW list, NEW d, NEW e, NEW A \in [Nat -> Nat], NEW B \in [Nat -> Nat],
         NEW N \in Nat, NEW c \in Nat \ {0}, NEW r \in Nat, NEW x \in Nat,
         ListHolds(list, d, A, B, N, r, c - 1), B[c] = B[c - 1] + x,
         B[c] <= B[N], e.output_base = d.output_base,
         e.output_count = d.output_count, e.input_count = B[c]
  PROVE  ListHolds(Filled(list, B[c - 1], x, "tx"), e, A, B, N, r, c)
<1> DEFINE new == Filled(list, B[c - 1], x, "tx")
<1>1. c - 1 \in Nat
  OBVIOUS
<1>2. B[c] \in Nat /\ B[c - 1] \in Nat /\ A[N] \in Nat /\ B[N] \in Nat /\ A[r] \in Nat
  BY <1>1
<1>3. DOMAIN new = DOMAIN list
  BY DEF Filled
<1>4. ASSUME NEW j \in DOMAIN list
      PROVE  /\ j \in Nat
             /\ B[c - 1] <= j /\ j < B[c] => new[j].dir = "tx"
             /\ ~(B[c - 1] <= j /\ j < B[c]) => new[j] = list[j]
  <2>1. j \in Nat
    BY <1>2 DEF ListHolds
  <2>2. j \in B[c - 1]..(B[c - 1] + x - 1) <=> B[c - 1] <= j /\ j < B[c]
    BY <1>2, <2>1
  <2> QED
    BY <2>1, <2>2 DEF Filled
<1>5. ASSUME NEW j \in DOMAIN list
      PROVE  /\ j < B[c] => new[j].dir = "tx"
             /\ B[c] <= j /\ j <= B[N] => new[j] = NoCopy
             /\ B[N] < j /\ j <= B[N] + A[r] => new[j].dir = "rx"
             /\ B[N] + A[r] < j => new[j] = NoCopy
  <2>1. /\ j < B[c - 1] => list[j].dir = "tx"
        /\ B[c - 1] <= j /\ j <= B[N] => list[j] = NoCopy
        /\ B[N] < j /\ j <= B[N] + A[r] => list[j].dir = "rx"
        /\ B[N] + A[r] < j => list[j] = NoCopy
    BY DEF ListHolds
  <2> HIDE DEF new
  <2> QED
    BY <1>2, <1>4, <2>1
<1>6. e.output_base = B[N] + 1 /\ e.output_count = A[r] /\ e.input_count = B[c]
  BY DEF ListHolds
<1>7. DOMAIN new = 0..(A[N] + B[N] + 1)
  BY <1>3 DEF ListHolds
<1> HIDE DEF new
<1>8. ListHolds(new, e, A, B, N, r, c)
  BY <1>3, <1>5, <1>6, <1>7 DEF ListHolds
<1> QED
  BY <1>8 DEF new

-----------------------------------------------------------------------------
(* The conversion lists.                                                   *)

\* Where the fill pass stands: how many slaves' rx and tx entries it has put
\* into the lists.
RxDone == IF pc = "running" THEN Len(slave_list)
          ELSE IF pc = "fill_rx" THEN cur - 1
          ELSE IF pc = "fill_tx" THEN cur ELSE 0
TxDone == IF pc = "running" THEN Len(slave_list)
          ELSE IF pc \in {"fill_rx", "fill_tx"} THEN cur - 1 ELSE 0

\* The lists of the domain are allocated.
HasLists(p, c, d) == p \in Filling \/ (p = "activate" /\ d.master < c)

ListOK(k, A, B) ==
  LET d == domain_list[k]
      N == Len(slave_list)
  IN  IF HasLists(pc, cur, d)
      THEN /\ k \in DOMAIN convert_list
           /\ ListHolds(convert_list[k], d, A, B, N, RxDone, TxDone)
           /\ RxEntries(convert_list[k], k, A, B[N], RxDone)
           /\ TxEntries(convert_list[k], k, B, TxDone)
      ELSE Registered(d, A, B, N)

(* Every domain has a partial sum of its entries, for either direction,    *)
(* that both passes count along.                                           *)
Listed(k) ==
  \E A, B : /\ Sum(A, RxShare(slave_list, pdo_map, k))
            /\ Sum(B, TxShare(slave_list, pdo_map, k))
            /\ ListOK(k, A, B)

ZeroCounts(d) == d.input_count = 0 /\ d.output_count = 0

CountInv ==
  \/ pc \in Dead
  \/ pc \in Blocks /\ \A k \in DOMAIN domain_list : ZeroCounts(domain_list[k])
  \/ pc \in Initing \cup Started /\ \A k \in DOMAIN domain_list : Listed(k)

\* Domains keep their master and their counts; new ones have counted nothing.
SameCounts(d, e) ==
  /\ e.master = d.master
  /\ e.input_count = d.input_count /\ e.output_count = d.output_count

CountsSame(dl, nl) ==
  /\ DOMAIN dl \subseteq DOMAIN nl
  /\ \A k \in DOMAIN dl : SameCounts(dl[k], nl[k])
  /\ \A k \in DOMAIN nl : k \in DOMAIN dl \/ ZeroCounts(nl[k])

LEMMA GetDomainCounts ==
  ASSUME domain_list \in Seq(Domain), NEW m, NEW id, NEW in, NEW out, NEW tid,
         NEW d, GetDomain(m, id, in, out, tid, d)
  PROVE  CountsSame(domain_list, domain_list')
<1>1. CASE domain_list' = [domain_list EXCEPT ![d].input = @ \/ in,
                                              ![d].output = @ \/ out]
  <2>1. DOMAIN domain_list' = DOMAIN domain_list
    BY <1>1
  <2>2. ASSUME NEW k \in DOMAIN domain_list
        PROVE  SameCounts(domain_list[k], domain_list'[k])
    <3>1. domain_list[k] \in Domain
      BY ElementOfSeq
    <3> QED
      BY <1>1, <3>1 DEF Domain, SameCounts
  <2> QED
    BY <2>1, <2>2 DEF CountsSame
<1>2. ASSUME NEW ok, domain_list' =
               Append(domain_list, NewDomain(m, id, tid, in, out, ok))
      PROVE  CountsSame(domain_list, domain_list')
  <2> DEFINE e == NewDomain(m, id, tid, in, out, ok)
  <2>1. ZeroCounts(e)
    BY DEF NewDomain, ZeroCounts
  <2> HIDE DEF e
  <2>2. \A k \in DOMAIN domain_list' :
          \/ k \in DOMAIN domain_list /\ domain_list'[k] = domain_list[k]
          \/ domain_list'[k] = e
    BY <1>2, AppendElements DEF e
  <2>3. \A k \in DOMAIN domain_list :
          k \in DOMAIN domain_list' /\ domain_list'[k] = domain_list[k]
    BY <1>2 DEF e
  <2> QED
    BY <2>1, <2>2, <2>3 DEF CountsSame, SameCounts
<1> QED
  BY <1>1, <1>2 DEF GetDomain

\* A domain no slave points to has no entries.
LEMMA NoShare ==
  ASSUME NEW k, \A n \in DOMAIN slave_list : pdo_map[n].rx # k /\ pdo_map[n].tx # k
  PROVE  /\ Sum([n \in Nat |-> 0], RxShare(slave_list, pdo_map, k))
         /\ Sum([n \in Nat |-> 0], TxShare(slave_list, pdo_map, k))
<1>1. \A n \in Nat \ {0} : RxShare(slave_list, pdo_map, k)[n] = 0
  BY DEF RxShare
<1>2. \A n \in Nat \ {0} : TxShare(slave_list, pdo_map, k)[n] = 0
  BY DEF TxShare
<1> QED
  BY <1>1, <1>2, ZeroSum

\* What the pc says of the fill pass during registration: nothing is filled.
LEMMA NotFilling ==
  ASSUME pc \in Initing
  PROVE  \A d : ~HasLists(pc, cur, d)
BY DEF HasLists, Filling, Initing

LEMMA NotFillingNext ==
  ASSUME pc' \in Initing \/ (pc' = "activate" /\ cur' = 1 /\ ListsOK')
  PROVE  \A k \in DOMAIN domain_list' : ~HasLists(pc', cur', domain_list'[k])
<1>1. CASE pc' \in Initing
  BY <1>1 DEF HasLists, Filling, Initing
<1>2. CASE pc' = "activate" /\ cur' = 1 /\ ListsOK'
  <2>1. domain_list' \in Seq(Domain)
    BY <1>2 DEF ListsOK
  <2>2. \A k \in DOMAIN domain_list' : ~(domain_list'[k].master < 1)
    <3>1. \A k \in DOMAIN domain_list' : domain_list'[k] \in Domain
      BY <2>1, ElementOfSeq
    <3> QED
      BY <3>1 DEF Domain
  <2> QED
    BY <1>2, <2>2 DEF HasLists, Filling
<1> QED
  BY <1>1, <1>2

\* Steps of the registration that count nothing.
LEMMA RegisterKept ==
  ASSUME UNCHANGED <<slave_list, pdo_map>>, pc \in Initing,
         \A k \in DOMAIN domain_list : Listed(k),
         CountsSame(domain_list, domain_list'),
         \A k \in DOMAIN domain_list' :
           k \in DOMAIN domain_list \/
             \A n \in DOMAIN slave_list : pdo_map[n].rx # k /\ pdo_map[n].tx # k,
         NEW k \in DOMAIN domain_list',
         Len(slave_list) \in Nat, ~HasLists(pc', cur', domain_list'[k])
  PROVE  Listed(k)'
<1> DEFINE f == RxShare(slave_list, pdo_map, k)
           g == TxShare(slave_list, pdo_map, k)
           N == Len(slave_list)
<1>1. ASSUME NEW A, NEW B, Sum(A, f), Sum(B, g),
             Registered(domain_list'[k], A, B, N)
      PROVE  Listed(k)'
  BY <1>1 DEF Listed, ListOK
<1>2. CASE k \in DOMAIN domain_list
  <2>1. PICK A, B : Sum(A, f) /\ Sum(B, g) /\ ListOK(k, A, B)
    BY <1>2 DEF Listed
  <2>2. Registered(domain_list[k], A, B, N)
    BY <2>1, NotFilling DEF ListOK
  <2>3. Registered(domain_list'[k], A, B, N)
    BY <1>2, <2>2 DEF Registered, CountsSame, SameCounts
  <2> QED
    BY <1>1, <2>1, <2>3
<1>3. CASE k \notin DOMAIN domain_list
  <2> DEFINE Z == [n \in Nat |-> 0]
  <2>1. Sum(Z, f) /\ Sum(Z, g)
    BY <1>3, NoShare
  <2>2. Z[N] = 0
    OBVIOUS
  <2>3. ZeroCounts(domain_list'[k])
    BY <1>3 DEF CountsSame
  <2> HIDE DEF Z, f, g, N
  <2>4. Registered(domain_list'[k], Z, Z, N)
    BY <2>2, <2>3 DEF Registered, ZeroCounts
  <2> QED
    BY <1>1, <2>1, <2>4 DEF f, g, N
<1> QED
  BY <1>2, <1>3

LEMMA ShareType ==
  ASSUME ListsOK, NEW k
  PROVE  /\ RxShare(slave_list, pdo_map, k) \in [Nat -> Nat]
         /\ TxShare(slave_list, pdo_map, k) \in [Nat -> Nat]
<1>1. \A n \in DOMAIN slave_list : slave_list[n] \in Slave
  BY ElementOfSeq DEF ListsOK
<1>2. \A s \in Slave : s.rx \in Nat /\ s.tx \in Nat
  BY ConstantsAssumption DEF Slave
<1> QED
  BY <1>1, <1>2 DEF RxShare, TxShare

\* register_pdos(): the entries of the slave join one domain's count.
LEMMA RxPdosCounts ==
  ASSUME IInv, MapInv, CountInv, RxPdos, pc' \notin Dead
  PROVE  CountInv'
<1>0. ListsOK /\ Indexed /\ cur \in Nat
  BY DEF IInv, TypeOK, LocalsOK
<1>1. /\ pc = "rx_pdos" /\ pc' = "tx_domain"
      /\ UNCHANGED <<cur, slave_list>>
      /\ pdo_map' = [pdo_map EXCEPT ![cur].rx = domain]
      /\ domain_list' = [domain_list EXCEPT ![domain].output_count = @ + S.rx]
  BY DEF RxPdos, locals, Dead
<1>2. /\ cur \in DOMAIN slave_list /\ S = slave_list[cur] /\ S.rx \in Nat
      /\ domain \in DOMAIN domain_list
  BY <1>0, <1>1, CurrentSlave DEF Indexed, Initing, S
<1>3. /\ DOMAIN pdo_map = DOMAIN slave_list
      /\ pdo_map[cur].rx = Null
  <2>1. DOMAIN pdo_map = DOMAIN slave_list /\ RxPlaced(cur)
    BY <1>1, <1>2 DEF MapInv, Dead
  <2>2. ~RxKnown(cur)
    BY <1>0, <1>1 DEF RxKnown, Initing, Started, Filling
  <2> QED
    BY <2>1, <2>2 DEF RxPlaced
<1>4. \A n \in DOMAIN pdo_map : pdo_map[n] \in PdoMap
  BY <1>0, ElementOfSeq DEF ListsOK
<1>5. /\ pdo_map'[cur].rx = domain
      /\ \A n \in DOMAIN pdo_map : pdo_map'[n].tx = pdo_map[n].tx
      /\ \A n \in DOMAIN pdo_map : n # cur => pdo_map'[n].rx = pdo_map[n].rx
  BY <1>1, <1>2, <1>3, <1>4 DEF PdoMap
<1>6. \A k \in DOMAIN domain_list : Listed(k)
  BY <1>1 DEF CountInv, Blocks, Dead
<1>7. DOMAIN slave_list = 1..Len(slave_list) /\ Len(slave_list) \in Nat
  BY <1>0 DEF ListsOK
<1>8. DOMAIN domain_list' = DOMAIN domain_list
  BY <1>1
<1>10. \A k \in DOMAIN domain_list : k # Null
  BY <1>0 DEF ListsOK, Null
<1>9. ASSUME NEW k \in DOMAIN domain_list PROVE Listed(k)'
  <2> DEFINE f == RxShare(slave_list, pdo_map, k)
             g == RxShare(slave_list', pdo_map', k)
             h == TxShare(slave_list, pdo_map, k)
             N == Len(slave_list)
             d == domain_list[k]
             e == domain_list'[k]
  <2>1. PICK A, B : Sum(A, f) /\ Sum(B, h) /\ ListOK(k, A, B)
    BY <1>6, <1>9 DEF Listed
  <2>2. Registered(d, A, B, N)
    BY <1>1, <2>1, NotFilling DEF ListOK, Initing
  <2>3. TxShare(slave_list', pdo_map', k) = h
    BY <1>1, <1>3, <1>5 DEF TxShare
  <2>4. ASSUME NEW C, Sum(C, g), Registered(e, C, B, N) PROVE Listed(k)'
    <3>1. ~HasLists(pc', cur', e)
      BY <1>1 DEF HasLists, Filling
    <3>2. Registered(domain_list'[k], C, B, Len(slave_list'))
      BY <1>1, <2>4
    <3>3. Sum(B, TxShare(slave_list', pdo_map', k))
      BY <2>1, <2>3
    <3> QED
      BY <2>4, <3>1, <3>2, <3>3 DEF Listed, ListOK
  <2>5. d \in Domain
    BY <1>0, ElementTypes
  <2>6. CASE k = domain
    <3>0. PICK x, c, C :
            /\ x = S.rx /\ c = cur
            /\ C = [n \in Nat |-> IF n < c THEN A[n] ELSE A[n] + x]
      OBVIOUS
    <3>7. /\ C \in [Nat -> Nat]
          /\ \A n \in Nat : C[n] = IF n < c THEN A[n] ELSE A[n] + x
      <4>1. x \in Nat /\ \A n \in Nat : A[n] \in Nat
        BY <1>2, <2>1, <3>0 DEF Sum
      <4> QED
        BY <3>0, <4>1
    <3>1. /\ f \in [Nat -> Nat] /\ f[cur] = 0 /\ g[cur] = S.rx
          /\ \A n \in Nat : n # cur => g[n] = f[n]
      <4>1. f \in [Nat -> Nat]
        BY <1>0, ShareType
      <4>2. f[cur] = 0
        BY <1>0, <1>3, <1>9, <1>10 DEF RxShare
      <4>3. g[cur] = S.rx
        BY <1>0, <1>1, <1>2, <1>5, <2>6 DEF RxShare
      <4>4. \A n \in Nat : n # cur => g[n] = f[n]
        BY <1>1, <1>3, <1>5 DEF RxShare
      <4> QED
        BY <4>1, <4>2, <4>3, <4>4
    <3>2. cur \in Nat \ {0} /\ cur <= N /\ N \in Nat
      BY <1>0, <1>2, <1>7
    <3> HIDE DEF f, g
    <3>3. Sum(C, g)
      <4>1. /\ c \in Nat \ {0} /\ x \in Nat /\ f[c] = 0 /\ g[c] = x
            /\ \A n \in Nat : n # c => g[n] = f[n]
        BY <1>2, <3>0, <3>1, <3>2
      <4>2. PICK u, v : u = f /\ v = g
        OBVIOUS
      <4>3. AddsAt(u, v, c, x) /\ Sum(A, u)
        BY <2>1, <3>1, <4>1, <4>2 DEF AddsAt
      <4>4. AddedFrom(A, C, c, x)
        BY <3>7 DEF AddedFrom
      <4>5. Sum(C, v)
        BY <4>3, <4>4, AddShare
      <4> QED
        BY <4>2, <4>5
    <3>4. C[N] = A[N] + S.rx
      BY <3>0, <3>2
    <3>5. /\ e.output_count = d.output_count + S.rx
          /\ e.input_count = d.input_count
      BY <1>1, <2>5, <2>6 DEF Domain
    <3> HIDE DEF e, d, N
    <3>6. Registered(e, C, B, N)
      BY <2>2, <3>4, <3>5 DEF Registered
    <3> QED
      BY <2>4, <3>3, <3>6
  <2>7. CASE k # domain
    <3>1. g = f
      <4>1. \A n \in DOMAIN slave_list : pdo_map'[n].rx = k <=> pdo_map[n].rx = k
        BY <1>3, <1>5, <1>9, <1>10, <2>7
      <4> QED
        BY <1>1, <4>1 DEF RxShare
    <3>2. e = d
      BY <1>1, <2>7
    <3> QED
      BY <2>1, <2>2, <2>4, <3>1, <3>2
  <2> QED
    BY <2>6, <2>7
<1> QED
  BY <1>1, <1>8, <1>9 DEF CountInv, Initing

LEMMA TxPdosCounts ==
  ASSUME IInv, MapInv, CountInv, TxPdos, pc' \notin Dead
  PROVE  CountInv'
<1>0. ListsOK /\ Indexed /\ cur \in Nat
  BY DEF IInv, TypeOK, LocalsOK
<1>1. /\ pc = "tx_pdos" /\ pc' = "sdo_req"
      /\ UNCHANGED <<cur, slave_list>>
      /\ pdo_map' = [pdo_map EXCEPT ![cur].tx = domain]
      /\ domain_list' = [domain_list EXCEPT ![domain].input_count = @ + S.tx]
  BY DEF TxPdos, locals, Dead
<1>2. /\ cur \in DOMAIN slave_list /\ S = slave_list[cur] /\ S.tx \in Nat
      /\ domain \in DOMAIN domain_list
  BY <1>0, <1>1, CurrentSlave DEF Indexed, Initing, S
<1>3. /\ DOMAIN pdo_map = DOMAIN slave_list
      /\ pdo_map[cur].tx = Null
  <2>1. DOMAIN pdo_map = DOMAIN slave_list /\ TxPlaced(cur)
    BY <1>1, <1>2 DEF MapInv, Dead
  <2>2. ~TxKnown(cur)
    BY <1>0, <1>1 DEF TxKnown, Initing, Started, Filling
  <2> QED
    BY <2>1, <2>2 DEF TxPlaced
<1>4. \A n \in DOMAIN pdo_map : pdo_map[n] \in PdoMap
  BY <1>0, ElementOfSeq DEF ListsOK
<1>5. /\ pdo_map'[cur].tx = domain
      /\ \A n \in DOMAIN pdo_map : pdo_map'[n].rx = pdo_map[n].rx
      /\ \A n \in DOMAIN pdo_map : n # cur => pdo_map'[n].tx = pdo_map[n].tx
  BY <1>1, <1>2, <1>3, <1>4 DEF PdoMap
<1>6. \A k \in DOMAIN domain_list : Listed(k)
  BY <1>1 DEF CountInv, Blocks, Dead
<1>7. DOMAIN slave_list = 1..Len(slave_list) /\ Len(slave_list) \in Nat
  BY <1>0 DEF ListsOK
<1>8. DOMAIN domain_list' = DOMAIN domain_list
  BY <1>1
<1>10. \A k \in DOMAIN domain_list : k # Null
  BY <1>0 DEF ListsOK, Null
<1>9. ASSUME NEW k \in DOMAIN domain_list PROVE Listed(k)'
  <2> DEFINE f == TxShare(slave_list, pdo_map, k)
             g == TxShare(slave_list', pdo_map', k)
             h == RxShare(slave_list, pdo_map, k)
             N == Len(slave_list)
             d == domain_list[k]
             e == domain_list'[k]
  <2>1. PICK A, B : Sum(A, h) /\ Sum(B, f) /\ ListOK(k, A, B)
    BY <1>6, <1>9 DEF Listed
  <2>2. Registered(d, A, B, N)
    BY <1>1, <2>1, NotFilling DEF ListOK, Initing
  <2>3. RxShare(slave_list', pdo_map', k) = h
    BY <1>1, <1>3, <1>5 DEF RxShare
  <2>4. ASSUME NEW C, Sum(C, g), Registered(e, A, C, N) PROVE Listed(k)'
    <3>1. ~HasLists(pc', cur', e)
      BY <1>1 DEF HasLists, Filling
    <3>2. Registered(domain_list'[k], A, C, Len(slave_list'))
      BY <1>1, <2>4
    <3>3. Sum(A, RxShare(slave_list', pdo_map', k))
      BY <2>1, <2>3
    <3> QED
      BY <2>4, <3>1, <3>2, <3>3 DEF Listed, ListOK
  <2>5. d \in Domain
    BY <1>0, ElementTypes
  <2>6. CASE k = domain
    <3>0. PICK x, c, C :
            /\ x = S.tx /\ c = cur
            /\ C = [n \in Nat |-> IF n < c THEN B[n] ELSE B[n] + x]
      OBVIOUS
    <3>7. /\ C \in [Nat -> Nat]
          /\ \A n \in Nat : C[n] = IF n < c THEN B[n] ELSE B[n] + x
      <4>1. x \in Nat /\ \A n \in Nat : B[n] \in Nat
        BY <1>2, <2>1, <3>0 DEF Sum
      <4> QED
        BY <3>0, <4>1
    <3>1. /\ f \in [Nat -> Nat] /\ f[cur] = 0 /\ g[cur] = S.tx
          /\ \A n \in Nat : n # cur => g[n] = f[n]
      <4>1. f \in [Nat -> Nat]
        BY <1>0, ShareType
      <4>2. f[cur] = 0
        BY <1>0, <1>3, <1>9, <1>10 DEF TxShare
      <4>3. g[cur] = S.tx
        BY <1>0, <1>1, <1>2, <1>5, <2>6 DEF TxShare
      <4>4. \A n \in Nat : n # cur => g[n] = f[n]
        BY <1>1, <1>3, <1>5 DEF TxShare
      <4> QED
        BY <4>1, <4>2, <4>3, <4>4
    <3>2. cur \in Nat \ {0} /\ cur <= N /\ N \in Nat
      BY <1>0, <1>2, <1>7
    <3> HIDE DEF f, g
    <3>3. Sum(C, g)
      <4>1. /\ c \in Nat \ {0} /\ x \in Nat /\ f[c] = 0 /\ g[c] = x
            /\ \A n \in Nat : n # c => g[n] = f[n]
        BY <1>2, <3>0, <3>1, <3>2
      <4>2. PICK u, v : u = f /\ v = g
        OBVIOUS
      <4>3. AddsAt(u, v, c, x) /\ Sum(B, u)
        BY <2>1, <3>1, <4>1, <4>2 DEF AddsAt
      <4>4. AddedFrom(B, C, c, x)
        BY <3>7 DEF AddedFrom
      <4>5. Sum(C, v)
        BY <4>3, <4>4, AddShare
      <4> QED
        BY <4>2, <4>5
    <3>4. C[N] = B[N] + S.tx
      BY <3>0, <3>2
    <3>5. /\ e.input_count = d.input_count + S.tx
          /\ e.output_count = d.output_count
      BY <1>1, <2>5, <2>6 DEF Domain
    <3> HIDE DEF e, d, N
    <3>6. Registered(e, A, C, N)
      BY <2>2, <3>4, <3>5 DEF Registered
    <3> QED
      BY <2>4, <3>3, <3>6
  <2>7. CASE k # domain
    <3>1. g = f
      <4>1. \A n \in DOMAIN slave_list : pdo_map'[n].tx = k <=> pdo_map[n].tx = k
        BY <1>3, <1>5, <1>9, <1>10, <2>7
      <4> QED
        BY <1>1, <4>1 DEF TxShare
    <3>2. e = d
      BY <1>1, <2>7
    <3> QED
      BY <2>1, <2>2, <2>4, <3>1, <3>2
  <2> QED
    BY <2>6, <2>7
<1> QED
  BY <1>1, <1>8, <1>9 DEF CountInv, Initing

\* No slave points to a domain that is still to come.
LEMMA NewDomainUnused ==
  ASSUME ListsOK', MapInv, pc \notin Dead,
         NEW k \in DOMAIN domain_list', k \notin DOMAIN domain_list
  PROVE  \A n \in DOMAIN slave_list : pdo_map[n].rx # k /\ pdo_map[n].tx # k
<1>1. k # Null
  BY DEF ListsOK, Null
<1>2. \A n \in DOMAIN slave_list : RxPlaced(n) /\ TxPlaced(n)
  BY DEF MapInv
<1> QED
  BY <1>1, <1>2 DEF RxPlaced, TxPlaced, InFirst, First

LEMMA BlockStartCounts ==
  ASSUME IInv, CountInv, BlockStart, pc' \notin Dead
  PROVE  CountInv'
<1>0. domain_list \in Seq(Domain)
  BY DEF IInv, TypeOK, ListsOK
<1>1. pc \in Blocks /\ pc' \in Blocks
  BY DEF BlockStart, SlaveStart, MasterStateStart, DomainStateStart,
     SdoHandler, DomainStateSecond, AfterPtr, Dead, Blocks
<1>2. \A k \in DOMAIN domain_list : ZeroCounts(domain_list[k])
  BY <1>1 DEF CountInv, Blocks, Dead, Initing, Started, Filling
<1>3. CountsSame(domain_list, domain_list) 
  BY DEF CountsSame, SameCounts
<1>4. ASSUME NEW id, NEW dom, NEW in, NEW out, NEW tid, NEW p,
             GetDomainPtr(id, dom, in, out, tid, p)
      PROVE  CountsSame(domain_list, domain_list')
  <2>1. \/ UNCHANGED domain_list
        \/ \E i, d : GetDomain(i, dom, in, out, tid, d)
    BY <1>4 DEF GetDomainPtr
  <2> QED
    BY <1>0, <1>3, <2>1, GetDomainCounts
<1>5. \/ UNCHANGED domain_list
      \/ \E id, dom, in, out, tid, p : GetDomainPtr(id, dom, in, out, tid, p)
  <2>1. ASSUME NEW id, NEW dom, NEW tid, NEW mode,
               DomainStateStart(id, dom, tid, mode)
        PROVE  \E in, out, p : GetDomainPtr(id, dom, in, out, tid, p)
    BY <2>1 DEF DomainStateStart
  <2>2. ASSUME DomainStateSecond
        PROVE  \E id, dom, in, out, tid, p : GetDomainPtr(id, dom, in, out, tid, p)
    BY <2>2 DEF DomainStateSecond
  <2> QED
    BY <2>1, <2>2 DEF BlockStart, SlaveStart, MasterStateStart, SdoHandler
<1>6. CountsSame(domain_list, domain_list')
  BY <1>3, <1>4, <1>5
<1>7. \A k \in DOMAIN domain_list' : ZeroCounts(domain_list'[k])
  BY <1>2, <1>6 DEF CountsSame, SameCounts, ZeroCounts
<1> QED
  BY <1>1, <1>7 DEF CountInv

LEMMA EcsStartCounts ==
  ASSUME IInv, MapInv, CountInv, EcsStart, pc' \notin Dead
  PROVE  CountInv'
<1>0. ListsOK /\ ListsOK'
  BY NextIInv DEF IInv, TypeOK, Next
<1>1. /\ pc = "mdlStart" /\ cur' = 1 /\ pc' \in {"get_master", "activate"}
      /\ UNCHANGED <<slave_list, pdo_map, domain_list>>
  BY DEF EcsStart, Dead
<1>2. \A k \in DOMAIN domain_list : ZeroCounts(domain_list[k])
  BY <1>1 DEF CountInv, Blocks, Dead, Initing, Started, Filling
<1>3. \A n \in DOMAIN slave_list : pdo_map[n].rx = Null /\ pdo_map[n].tx = Null
  <2>1. \A n : ~RxKnown(n) /\ ~TxKnown(n)
    BY <1>1 DEF RxKnown, TxKnown, Started, Filling, Initing
  <2> QED
    BY <1>1, <2>1 DEF MapInv, RxPlaced, TxPlaced, Dead
<1>4. \A k \in DOMAIN domain_list' : ~HasLists(pc', cur', domain_list'[k])
  BY <1>0, <1>1, NotFillingNext DEF Initing
<1>5. ASSUME NEW k \in DOMAIN domain_list' PROVE Listed(k)'
  <2>1. PICK Z : Z = [n \in Nat |-> 0]
    OBVIOUS
  <2>2. k # Null
    BY <1>0 DEF ListsOK, Null
  <2>3. /\ Sum(Z, RxShare(slave_list, pdo_map, k))
        /\ Sum(Z, TxShare(slave_list, pdo_map, k))
    BY <1>3, <2>1, <2>2, NoShare
  <2>4. Z[Len(slave_list)] = 0
    BY <1>0, <2>1 DEF ListsOK
  <2>5. Registered(domain_list'[k], Z, Z, Len(slave_list'))
    BY <1>1, <1>2, <2>4 DEF Registered, ZeroCounts
  <2>6. ~HasLists(pc', cur', domain_list'[k])
    BY <1>4
  <2>7. ListOK(k, Z, Z)'
    BY <2>5, <2>6 DEF ListOK
  <2> QED
    BY <1>1, <2>3, <2>7 DEF Listed
<1> QED
  BY <1>1, <1>5 DEF CountInv, Initing, Started

LEMMA InitSlaveCounts ==
  ASSUME IInv, MapInv, CountInv, InitSlave, pc' \notin Dead
  PROVE  CountInv'
<1>0. ListsOK /\ ListsOK' /\ Len(slave_list) \in Nat
  <2>1. IInv'
    BY NextIInv DEF Next
  <2> QED
    BY <2>1 DEF IInv, TypeOK, ListsOK
<1>1. pc \in Initing
  BY DEF InitSlave, InitSlaveMaster, InitSlaveConfig, RxDomain, TxDomain,
     InitSlaveDomain, RxPdos, TxPdos, SdoRequests, Initing
<1>2. \A k \in DOMAIN domain_list : Listed(k)
  BY <1>1 DEF CountInv, Initing, Blocks, Dead
<1>3. ASSUME UNCHANGED <<slave_list, pdo_map>>,
             CountsSame(domain_list, domain_list'),
             pc' \in Initing \/ (pc' = "activate" /\ cur' = 1)
      PROVE  CountInv'
  <2>1. \A k \in DOMAIN domain_list' : ~HasLists(pc', cur', domain_list'[k])
    BY <1>0, <1>3, NotFillingNext
  <2>2. pc \notin Dead
    BY <1>1 DEF Initing, Dead
  <2>3. ASSUME NEW k \in DOMAIN domain_list' PROVE Listed(k)'
    BY <1>0, <1>1, <1>2, <1>3, <2>1, <2>2, NewDomainUnused, RegisterKept
  <2>4. pc' \in Initing \cup Started
    BY <1>3 DEF Started
  <2> QED
    BY <2>3, <2>4 DEF CountInv
<1>4. CountsSame(domain_list, domain_list)
  BY DEF CountsSame, SameCounts
<1>5. CASE InitSlaveMaster
  BY <1>3, <1>4, <1>5 DEF InitSlaveMaster, Initing, Dead
<1>6. CASE InitSlaveConfig
  BY <1>3, <1>4, <1>6 DEF InitSlaveConfig, Initing, Dead
<1>7. CASE SdoRequests
  BY <1>3, <1>4, <1>7 DEF SdoRequests, Initing
<1>8. CASE RxDomain \/ TxDomain
  <2>1. UNCHANGED <<slave_list, pdo_map>> /\ pc' \in Initing
    BY <1>8 DEF RxDomain, TxDomain, InitSlaveDomain, Initing, AfterPtr, Dead
  <2>2. \/ UNCHANGED domain_list
        \/ \E in, out, d : GetDomain(master, S.domain, in, out, S.tid, d)
    BY <1>8 DEF RxDomain, TxDomain, InitSlaveDomain
  <2>3. CountsSame(domain_list, domain_list')
    BY <1>0, <1>4, <2>2, GetDomainCounts DEF ListsOK
  <2> QED
    BY <1>3, <2>1, <2>3
<1> QED
  BY <1>5, <1>6, <1>7, <1>8, RxPdosCounts, TxPdosCounts DEF InitSlave

\* The lists of a domain, freshly allocated.
LEMMA AllocatedHolds ==
  ASSUME NEW d \in Domain, NEW A \in [Nat -> Nat], NEW B \in [Nat -> Nat],
         NEW N \in Nat, A[0] = 0, B[0] = 0, Registered(d, A, B, N)
  PROVE  ListHolds(EmptyList(d), Allocated(d), A, B, N, 0, 0)
<1>1. /\ Allocated(d).output_base = B[N] + 1
      /\ Allocated(d).output_count = A[0] /\ Allocated(d).input_count = B[0]
  BY DEF Allocated, Registered, Domain
<1>2. A[N] \in Nat /\ B[N] \in Nat
  OBVIOUS
<1>3. DOMAIN EmptyList(d) = 0..(A[N] + B[N] + 1)
  <2>1. DOMAIN EmptyList(d) = 0..(B[N] + A[N] + 1)
    BY DEF EmptyList, Registered
  <2> QED
    BY <1>2, <2>1
<1>4. \A j \in DOMAIN EmptyList(d) : EmptyList(d)[j] = NoCopy
  BY DEF EmptyList
<1>5. \A j \in DOMAIN EmptyList(d) :
        j \in Nat /\ ~(j < B[0]) /\ ~(B[N] < j /\ j <= B[N] + A[0])
  <2>1. \A b \in Nat, j \in Nat : ~(j < 0) /\ ~(b < j /\ j <= b + 0)
    OBVIOUS
  <2>2. \A j \in DOMAIN EmptyList(d) : j \in Nat
    BY <1>2, <1>3
  <2> QED
    BY <1>2, <2>1, <2>2
<1> QED
  BY <1>1, <1>3, <1>4, <1>5 DEF ListHolds

LEMMA ActivateCounts ==
  ASSUME IInv, MapInv, CountInv, Activate, pc' \notin Dead
  PROVE  CountInv'
<1>0. ListsOK /\ cur \in Nat /\ Len(slave_list) \in Nat /\ Len(master_list) \in Nat
  BY DEF IInv, TypeOK, LocalsOK, ListsOK
<1>1. /\ pc = "activate"
      /\ domain_list' = [d \in DOMAIN domain_list |->
           IF domain_list[d].master = cur THEN Allocated(domain_list[d])
                                          ELSE domain_list[d]]
      /\ convert_list' =
           [d \in {k \in DOMAIN domain_list : domain_list[k].master <= cur}
              |-> IF domain_list[d].master = cur
                  THEN EmptyList(domain_list[d]) ELSE convert_list[d]]
      /\ \/ cur < Len(master_list) /\ cur' = cur + 1 /\ pc' = pc
         \/ /\ cur = Len(master_list) /\ cur' = 1
            /\ pc' = IF slave_list = <<>> THEN "running" ELSE "fill_rx"
      /\ UNCHANGED <<slave_list, pdo_map>>
  BY DEF Activate, Dead
<1>2. \A k \in DOMAIN domain_list : Listed(k)
  BY <1>1 DEF CountInv, Initing, Started, Blocks, Dead
<1>3. RxDone = 0 /\ TxDone = 0
  BY <1>1 DEF RxDone, TxDone
<1>4. RxDone' = 0 /\ TxDone' = 0
  BY <1>0, <1>1 DEF RxDone, TxDone
<1>5. \A k \in DOMAIN domain_list :
        domain_list[k].master \in Nat /\ domain_list[k].master <= Len(master_list)
  <2>1. \A k \in DOMAIN domain_list : domain_list[k].master \in DOMAIN master_list
    BY <1>1 DEF MapInv, MastersThere, Dead
  <2> QED
    BY <1>0, <2>1 DEF ListsOK
<1>6. ASSUME NEW k \in DOMAIN domain_list PROVE Listed(k)'
  <2> DEFINE d == domain_list[k]
             N == Len(slave_list)
  <2>1. PICK A, B : /\ Sum(A, RxShare(slave_list, pdo_map, k))
                    /\ Sum(B, TxShare(slave_list, pdo_map, k))
                    /\ ListOK(k, A, B)
    BY <1>2 DEF Listed
  <2>2. SUFFICES ListOK(k, A, B)'
    BY <1>1, <2>1 DEF Listed
  <2>3. d \in Domain /\ A \in [Nat -> Nat] /\ B \in [Nat -> Nat] /\ A[0] = 0 /\ B[0] = 0
    BY <1>0, <2>1, ElementTypes DEF Sum
  <2>4. ASSUME k \in DOMAIN convert_list',
               ListHolds(convert_list'[k], domain_list'[k], A, B, N, 0, 0),
               d.master <= cur, domain_list'[k].master = d.master
        PROVE  ListOK(k, A, B)'
    <3>1. HasLists(pc', cur', domain_list'[k])
      BY <1>0, <1>1, <1>5, <2>4 DEF HasLists, Filling
    <3>2. ListHolds(convert_list'[k], domain_list'[k], A, B, Len(slave_list'),
                    RxDone', TxDone')
      BY <1>1, <1>4, <2>4
    <3>3. RxEntries(convert_list[k], k, A, B[N], RxDone)'
      BY <1>4 DEF RxEntries
    <3>4. TxEntries(convert_list[k], k, B, TxDone)'
      BY <1>4 DEF TxEntries
    <3> QED
      BY <2>4, <3>1, <3>2, <3>3, <3>4 DEF ListOK
  <2>5. CASE d.master < cur
    <3>1. /\ domain_list'[k] = d /\ k \in DOMAIN convert_list'
          /\ convert_list'[k] = convert_list[k] /\ d.master <= cur
      BY <1>0, <1>1, <1>5, <2>5
    <3>2. HasLists(pc, cur, d)
      BY <1>1, <2>5 DEF HasLists
    <3>3. ListHolds(convert_list[k], d, A, B, N, 0, 0)
      BY <1>3, <2>1, <3>2 DEF ListOK
    <3> QED
      BY <2>4, <3>1, <3>3
  <2>6. CASE d.master = cur
    <3>1. /\ domain_list'[k] = Allocated(d) /\ k \in DOMAIN convert_list'
          /\ convert_list'[k] = EmptyList(d) /\ d.master <= cur
      BY <1>0, <1>1, <2>6
    <3>2. Registered(d, A, B, N)
      BY <1>0, <1>1, <2>1, <2>6 DEF ListOK, HasLists, Filling
    <3>3. ListHolds(EmptyList(d), Allocated(d), A, B, N, 0, 0)
      BY <1>0, <2>3, <3>2, AllocatedHolds
    <3>4. Allocated(d).master = d.master
      BY <2>3 DEF Allocated, Domain
    <3> QED
      BY <2>4, <3>1, <3>3, <3>4
  <2>7. CASE d.master > cur
    <3>1. domain_list'[k] = d
      BY <1>0, <1>1, <1>5, <2>7
    <3>2. pc' = "activate" /\ cur' = cur + 1
      BY <1>0, <1>1, <1>5, <2>7
    <3>3. ~HasLists(pc, cur, d) /\ ~HasLists(pc', cur', d)
      BY <1>0, <1>1, <1>5, <2>7, <3>2 DEF HasLists, Filling
    <3>4. Registered(d, A, B, N)
      BY <2>1, <3>3 DEF ListOK
    <3> QED
      BY <1>1, <3>1, <3>3, <3>4 DEF ListOK
  <2> QED
    BY <1>0, <1>5, <2>5, <2>6, <2>7
<1>7. DOMAIN domain_list' = DOMAIN domain_list /\ pc' \in Started
  BY <1>1 DEF Started, Filling
<1> QED
  BY <1>6, <1>7 DEF CountInv

\* The places of the slaves' entries are apart and in order.
LEMMA RxPlaces ==
  ASSUME ListsOK, NEW k, NEW A, Sum(A, RxShare(slave_list, pdo_map, k)),
         NEW c \in 0..Len(slave_list), NEW n \in 1..c, pdo_map[n].rx = k
  PROVE  /\ n \in DOMAIN slave_list /\ slave_list[n].rx \in Nat
         /\ n \in Nat \ {0}
         /\ A[n - 1] \in Nat /\ A[n] \in Nat /\ A[c] \in Nat
         /\ A[n] = A[n - 1] + slave_list[n].rx
         /\ A[n] <= A[c] /\ A[c] <= A[Len(slave_list)]
<1>1. Len(slave_list) \in Nat /\ DOMAIN slave_list = 1..Len(slave_list)
  BY DEF ListsOK
<1>2. n \in DOMAIN slave_list /\ n \in Nat \ {0} /\ n - 1 \in Nat /\ c \in Nat
  BY <1>1
<1>3. slave_list[n] \in Slave
  BY <1>2, ElementOfSeq DEF ListsOK
<1>4. slave_list[n].rx \in Nat
  BY <1>3, ConstantsAssumption DEF Slave
<1>5. RxShare(slave_list, pdo_map, k)[n] = slave_list[n].rx
  BY <1>2 DEF RxShare
<1>6. A[n] = A[n - 1] + slave_list[n].rx
  BY <1>2, <1>5 DEF Sum
<1>7. A[n - 1] \in Nat /\ A[n] \in Nat /\ A[c] \in Nat
  BY <1>2 DEF Sum
<1>8. n <= c /\ c <= Len(slave_list)
  BY <1>1
<1>9. A[n] <= A[c] /\ A[c] <= A[Len(slave_list)]
  BY <1>1, <1>2, <1>8 DEF Sum
<1> QED
  BY <1>2, <1>4, <1>6, <1>7, <1>9

LEMMA TxPlaces ==
  ASSUME ListsOK, NEW k, NEW B, Sum(B, TxShare(slave_list, pdo_map, k)),
         NEW c \in 0..Len(slave_list), NEW n \in 1..c, pdo_map[n].tx = k
  PROVE  /\ n \in DOMAIN slave_list /\ slave_list[n].tx \in Nat
         /\ n \in Nat \ {0}
         /\ B[n - 1] \in Nat /\ B[n] \in Nat /\ B[c] \in Nat
         /\ B[n] = B[n - 1] + slave_list[n].tx
         /\ B[n] <= B[c] /\ B[c] <= B[Len(slave_list)]
<1>1. Len(slave_list) \in Nat /\ DOMAIN slave_list = 1..Len(slave_list)
  BY DEF ListsOK
<1>2. n \in DOMAIN slave_list /\ n \in Nat \ {0} /\ n - 1 \in Nat /\ c \in Nat
  BY <1>1
<1>3. slave_list[n] \in Slave
  BY <1>2, ElementOfSeq DEF ListsOK
<1>4. slave_list[n].tx \in Nat
  BY <1>3, ConstantsAssumption DEF Slave
<1>5. TxShare(slave_list, pdo_map, k)[n] = slave_list[n].tx
  BY <1>2 DEF TxShare
<1>6. B[n] = B[n - 1] + slave_list[n].tx
  BY <1>2, <1>5 DEF Sum
<1>7. B[n - 1] \in Nat /\ B[n] \in Nat /\ B[c] \in Nat
  BY <1>2 DEF Sum
<1>8. n <= c /\ c <= Len(slave_list)
  BY <1>1
<1>9. B[n] <= B[c] /\ B[c] <= B[Len(slave_list)]
  BY <1>1, <1>2, <1>8 DEF Sum
<1> QED
  BY <1>2, <1>4, <1>6, <1>7, <1>9

\* Filling keeps the entries filled before, and adds those of the slave.
LEMMA RxFilledEntries ==
  ASSUME ListsOK, NEW k, NEW A, NEW B, NEW list, NEW c \in DOMAIN slave_list,
         c = cur,
         Sum(A, RxShare(slave_list, pdo_map, k)),
         Sum(B, TxShare(slave_list, pdo_map, k)),
         DOMAIN list = 0..(A[Len(slave_list)] + B[Len(slave_list)] + 1),
         RxEntries(list, k, A, B[Len(slave_list)], c - 1),
         TxEntries(list, k, B, c - 1), pdo_map[c].rx = k,
         NEW new, new = Filled(list, B[Len(slave_list)] + 1 + A[c - 1],
                               slave_list[c].rx, "rx")
  PROVE  /\ RxEntries(new, k, A, B[Len(slave_list)], c)
         /\ TxEntries(new, k, B, c - 1)
<1>1. PICK N, a, b, x, p : /\ N = Len(slave_list) /\ b = B[N] /\ a = A[N]
                           /\ x = slave_list[c].rx /\ p = A[c - 1]
  OBVIOUS
<1>2. /\ N \in Nat /\ c \in 1..N /\ c \in Nat \ {0} /\ c - 1 \in 0..N
      /\ c \in 0..N /\ c \in 1..c
  BY <1>1 DEF ListsOK
<1>3. /\ x \in Nat /\ p \in Nat /\ A[c] = p + x /\ A[c] <= a
  BY <1>1, <1>2, RxPlaces
<1>4. a \in Nat /\ b \in Nat
  BY <1>1, <1>2 DEF Sum
<1>5. DOMAIN list = 0..(a + b + 1)
  BY <1>1
<1>6. ASSUME NEW j \in DOMAIN list
      PROVE  /\ j < b + 1 + p => new[j] = list[j]
             /\ b + 1 + p <= j /\ j < b + 1 + p + x =>
                  new[j] = Entry(c, "rx", j - (b + 1 + p) + 1)
  <2>1. j \in Nat /\ b + 1 + p \in Nat
    BY <1>3, <1>4, <1>5
  <2>2. new = Filled(list, b + 1 + p, x, "rx")
    BY <1>1
  <2>3. j \in (b + 1 + p)..(b + 1 + p + x - 1) <=>
          ~(j < b + 1 + p) /\ j < b + 1 + p + x
    BY <1>3, <2>1
  <2>4. b + 1 + p <= j => ~(j < b + 1 + p)
    BY <2>1
  <2> QED
    BY <2>2, <2>3, <2>4 DEF Filled, Entry
<1>7. ASSUME NEW n \in 1..c, pdo_map[n].rx = k, NEW e \in 1..slave_list[n].rx
      PROVE  new[b + A[n - 1] + e] = Entry(n, "rx", e)
  <2>1. CASE n = c
    <3>1. e \in 1..x /\ A[n - 1] = p
      BY <1>1, <1>7, <2>1
    <3>2. /\ b + p + e \in 0..(a + b + 1)
          /\ b + 1 + p <= b + p + e /\ b + p + e < b + 1 + p + x
          /\ (b + p + e) - (b + 1 + p) + 1 = e
      BY <1>3, <1>4, <3>1
    <3> QED
      BY <1>5, <1>6, <2>1, <3>1, <3>2
  <2>2. CASE n # c
    <3>1. n \in 1..(c - 1)
      BY <1>2, <2>2
    <3>2. /\ slave_list[n].rx \in Nat /\ A[n - 1] \in Nat /\ A[n] \in Nat
          /\ A[n] = A[n - 1] + slave_list[n].rx /\ A[n] <= p
      BY <1>1, <1>2, <1>7, <3>1, RxPlaces
    <3>3. b + A[n - 1] + e \in 0..(a + b + 1) /\ b + A[n - 1] + e < b + 1 + p
      <4>1. PICK u, v, s : u = A[n - 1] /\ v = A[n] /\ s = slave_list[n].rx
        OBVIOUS
      <4>2. s \in Nat /\ e \in 1..s /\ u \in Nat /\ v = u + s /\ v <= p /\ p <= a
        BY <1>3, <1>4, <3>2, <4>1
      <4>3. b + u + e \in 0..(a + b + 1) /\ b + u + e < b + 1 + p
        BY <1>3, <1>4, <4>2
      <4> QED
        BY <4>1, <4>3
    <3>4. list[b + A[n - 1] + e] = Entry(n, "rx", e)
      BY <1>1, <1>7, <3>1 DEF RxEntries
    <3> QED
      BY <1>5, <1>6, <3>3, <3>4
  <2> QED
    BY <2>1, <2>2
<1>8. ASSUME NEW n \in 1..(c - 1), pdo_map[n].tx = k, NEW e \in 1..slave_list[n].tx
      PROVE  new[B[n - 1] + e - 1] = Entry(n, "tx", e)
  <2>1. /\ slave_list[n].tx \in Nat /\ B[n - 1] \in Nat /\ B[n] \in Nat
        /\ B[n] = B[n - 1] + slave_list[n].tx /\ B[n] <= B[c - 1]
        /\ B[c - 1] <= b /\ B[c - 1] \in Nat
    BY <1>1, <1>2, <1>8, TxPlaces
  <2>2. B[n - 1] + e - 1 \in 0..(a + b + 1) /\ B[n - 1] + e - 1 < b + 1 + p
    <3>1. PICK u, v, w, s : /\ u = B[n - 1] /\ v = B[n] /\ w = B[c - 1]
                            /\ s = slave_list[n].tx
      OBVIOUS
    <3>2. /\ s \in Nat /\ e \in 1..s /\ u \in Nat /\ v = u + s /\ v <= w
          /\ w <= b /\ w \in Nat
      BY <2>1, <3>1
    <3>3. u + e - 1 \in 0..(a + b + 1) /\ u + e - 1 < b + 1 + p
      BY <1>3, <1>4, <3>2
    <3> QED
      BY <3>1, <3>3
  <2>3. list[B[n - 1] + e - 1] = Entry(n, "tx", e)
    BY <1>8 DEF TxEntries
  <2> QED
    BY <1>5, <1>6, <2>2, <2>3
<1>9. RxEntries(new, k, A, b, c)
  BY <1>7 DEF RxEntries
<1> QED
  BY <1>1, <1>8, <1>9 DEF TxEntries

LEMMA TxFilledEntries ==
  ASSUME ListsOK, NEW k, NEW A, NEW B, NEW list, NEW c \in DOMAIN slave_list,
         c = cur,
         Sum(A, RxShare(slave_list, pdo_map, k)),
         Sum(B, TxShare(slave_list, pdo_map, k)),
         DOMAIN list = 0..(A[Len(slave_list)] + B[Len(slave_list)] + 1),
         RxEntries(list, k, A, B[Len(slave_list)], c),
         TxEntries(list, k, B, c - 1), pdo_map[c].tx = k,
         NEW new, new = Filled(list, B[c - 1], slave_list[c].tx, "tx")
  PROVE  /\ RxEntries(new, k, A, B[Len(slave_list)], c)
         /\ TxEntries(new, k, B, c)
<1>1. PICK N, a, b, x, p : /\ N = Len(slave_list) /\ b = B[N] /\ a = A[N]
                           /\ x = slave_list[c].tx /\ p = B[c - 1]
  OBVIOUS
<1>2. /\ N \in Nat /\ c \in 1..N /\ c \in Nat \ {0} /\ c - 1 \in 0..N
      /\ c \in 0..N /\ c \in 1..c
  BY <1>1 DEF ListsOK
<1>3. /\ x \in Nat /\ p \in Nat /\ B[c] = p + x /\ B[c] <= b
  BY <1>1, <1>2, TxPlaces
<1>4. a \in Nat /\ b \in Nat
  BY <1>1, <1>2 DEF Sum
<1>5. DOMAIN list = 0..(a + b + 1)
  BY <1>1
<1>6. ASSUME NEW j \in DOMAIN list
      PROVE  /\ j < p \/ p + x <= j => new[j] = list[j]
             /\ p <= j /\ j < p + x => new[j] = Entry(c, "tx", j - p + 1)
  <2>1. j \in Nat
    BY <1>4, <1>5
  <2>2. new = Filled(list, p, x, "tx")
    BY <1>1
  <2>3. j \in p..(p + x - 1) <=> ~(j < p \/ p + x <= j)
    BY <1>3, <2>1
  <2>4. p <= j /\ j < p + x => ~(j < p \/ p + x <= j)
    BY <1>3, <2>1
  <2> QED
    BY <2>2, <2>3, <2>4 DEF Filled, Entry
<1>7. ASSUME NEW n \in 1..c, pdo_map[n].rx = k, NEW e \in 1..slave_list[n].rx
      PROVE  new[b + A[n - 1] + e] = Entry(n, "rx", e)
  <2>1. /\ slave_list[n].rx \in Nat /\ A[n - 1] \in Nat /\ A[n] \in Nat
        /\ A[n] = A[n - 1] + slave_list[n].rx /\ A[n] <= A[c]
        /\ A[c] <= a /\ A[c] \in Nat
    BY <1>1, <1>2, <1>7, RxPlaces
  <2>2. b + A[n - 1] + e \in 0..(a + b + 1) /\ p + x <= b + A[n - 1] + e
    <3>1. PICK u, v, w, s : /\ u = A[n - 1] /\ v = A[n] /\ w = A[c]
                            /\ s = slave_list[n].rx
      OBVIOUS
    <3>2. /\ s \in Nat /\ e \in 1..s /\ u \in Nat /\ v = u + s /\ v <= w
          /\ w <= a /\ w \in Nat
      BY <2>1, <3>1
    <3>3. p + x <= b
      BY <1>3
    <3>4. b + u + e \in 0..(a + b + 1) /\ p + x <= b + u + e
      BY <1>3, <1>4, <3>2, <3>3
    <3> QED
      BY <3>1, <3>4
  <2>3. list[b + A[n - 1] + e] = Entry(n, "rx", e)
    BY <1>1, <1>7 DEF RxEntries
  <2> QED
    BY <1>5, <1>6, <2>2, <2>3
<1>8. ASSUME NEW n \in 1..c, pdo_map[n].tx = k, NEW e \in 1..slave_list[n].tx
      PROVE  new[B[n - 1] + e - 1] = Entry(n, "tx", e)
  <2>1. CASE n = c
    <3>1. e \in 1..x /\ B[n - 1] = p
      BY <1>1, <1>8, <2>1
    <3>2. /\ p + e - 1 \in 0..(a + b + 1)
          /\ p <= p + e - 1 /\ p + e - 1 < p + x
          /\ (p + e - 1) - p + 1 = e
      BY <1>3, <1>4, <3>1
    <3> QED
      BY <1>5, <1>6, <2>1, <3>1, <3>2
  <2>2. CASE n # c
    <3>1. n \in 1..(c - 1)
      BY <1>2, <2>2
    <3>2. /\ slave_list[n].tx \in Nat /\ B[n - 1] \in Nat /\ B[n] \in Nat
          /\ B[n] = B[n - 1] + slave_list[n].tx /\ B[n] <= p
      BY <1>1, <1>2, <1>8, <3>1, TxPlaces
    <3>3. B[n - 1] + e - 1 \in 0..(a + b + 1) /\ B[n - 1] + e - 1 < p
      <4>1. PICK u, v, s : u = B[n - 1] /\ v = B[n] /\ s = slave_list[n].tx
        OBVIOUS
      <4>2. s \in Nat /\ e \in 1..s /\ u \in Nat /\ v = u + s /\ v <= p /\ p <= b
        BY <1>3, <1>4, <3>2, <4>1
      <4>3. u + e - 1 \in 0..(a + b + 1) /\ u + e - 1 < p
        BY <1>3, <1>4, <4>2
      <4> QED
        BY <4>1, <4>3
    <3>4. list[B[n - 1] + e - 1] = Entry(n, "tx", e)
      BY <1>8, <3>1 DEF TxEntries
    <3> QED
      BY <1>5, <1>6, <3>3, <3>4
  <2> QED
    BY <2>1, <2>2
<1>9. RxEntries(new, k, A, b, c)
  BY <1>7 DEF RxEntries
<1> QED
  BY <1>1, <1>8, <1>9 DEF TxEntries

LEMMA FillRxCounts ==
  ASSUME IInv, MapInv, CountInv, FillRx
  PROVE  CountInv'
<1>0. /\ ListsOK /\ pc = "fill_rx"
      /\ cur \in DOMAIN slave_list /\ DOMAIN slave_list = 1..Len(slave_list)
      /\ Len(slave_list) \in Nat /\ DOMAIN domain_list \subseteq Nat \ {0}
  BY DEF FillRx, IInv, TypeOK, ListsOK, Indexed
<1>1. cur \in Nat \ {0} /\ cur - 1 \in 0..Len(slave_list) /\ cur \in 1..cur
      /\ cur \in 0..Len(slave_list) /\ cur - 1 \in Nat /\ cur - 1 <= Len(slave_list)
  BY <1>0
<1>2. /\ UNCHANGED <<slave_list, pdo_map>>
      /\ DOMAIN domain_list' = DOMAIN domain_list
      /\ pc' = "fill_tx" /\ cur' = cur
  BY DEF FillRx, locals
<1>3. \A k \in DOMAIN domain_list : Listed(k)
  BY <1>0 DEF CountInv, Initing, Started, Filling, Blocks, Dead
<1>4. RxDone = cur - 1 /\ TxDone = cur - 1 /\ RxDone' = cur /\ TxDone' = cur - 1
  BY <1>0, <1>1, <1>2 DEF RxDone, TxDone
<1>5. PICK x, to : x = slave_list[cur].rx /\ to = pdo_map[cur].rx
  OBVIOUS
<1>6. x \in Nat /\ (IF x > 0 THEN to \in DOMAIN domain_list ELSE to = Null)
  <2>1. slave_list[cur] \in Slave
    BY <1>0, ElementOfSeq DEF ListsOK
  <2>2. x \in Nat
    BY <1>5, <2>1, ConstantsAssumption DEF Slave
  <2>3. RxKnown(cur) /\ RxPlaced(cur)
    BY <1>0 DEF MapInv, RxKnown, Started, Filling, Dead
  <2> QED
    BY <1>5, <2>2, <2>3 DEF RxPlaced, InFirst, First
<1>7. ASSUME NEW k \in DOMAIN domain_list PROVE Listed(k)'
  <2> DEFINE d == domain_list[k]
             e == domain_list'[k]
             N == Len(slave_list)
             L == convert_list[k]
  <2>1. PICK A, B : /\ Sum(A, RxShare(slave_list, pdo_map, k))
                    /\ Sum(B, TxShare(slave_list, pdo_map, k))
                    /\ ListOK(k, A, B)
    BY <1>3 DEF Listed
  <2>2. SUFFICES ListOK(k, A, B)'
    BY <1>2, <2>1 DEF Listed
  <2>3. HasLists(pc, cur, d) /\ HasLists(pc', cur', e)
    BY <1>0, <1>2 DEF HasLists, Filling
  <2>4. /\ k \in DOMAIN convert_list
        /\ ListHolds(L, d, A, B, N, cur - 1, cur - 1)
        /\ RxEntries(L, k, A, B[N], cur - 1)
        /\ TxEntries(L, k, B, cur - 1)
    BY <1>4, <2>1, <2>3 DEF ListOK
  <2>5. ASSUME NEW M, M = convert_list'[k], k \in DOMAIN convert_list',
               ListHolds(M, e, A, B, N, cur, cur - 1),
               RxEntries(M, k, A, B[N], cur),
               TxEntries(M, k, B, cur - 1)
        PROVE  ListOK(k, A, B)'
    <3>1. ListHolds(convert_list'[k], e, A, B, Len(slave_list'), RxDone', TxDone')
      BY <1>2, <1>4, <2>5
    <3>2. RxEntries(convert_list[k], k, A, B[N], RxDone)'
      BY <1>2, <1>4, <2>5 DEF RxEntries
    <3>3. TxEntries(convert_list[k], k, B, TxDone)'
      BY <1>2, <1>4, <2>5 DEF TxEntries
    <3> QED
      BY <2>3, <2>5, <3>1, <3>2, <3>3 DEF ListOK
  <2>6. A \in [Nat -> Nat] /\ B \in [Nat -> Nat] /\ d \in Domain
    BY <1>0, <2>1, ElementTypes DEF Sum
  <2>7. CASE x > 0 /\ to = k
    <3>1. A[cur] = A[cur - 1] + x /\ A[cur] <= A[N]
      <4>1. PICK c : c = cur
        OBVIOUS
      <4>2. c \in 0..Len(slave_list) /\ c \in 1..c /\ pdo_map[c].rx = k
        BY <1>1, <1>5, <2>7, <4>1
      <4>3. /\ A[c] = A[c - 1] + slave_list[c].rx
            /\ A[c] <= A[Len(slave_list)]
        BY <1>0, <2>1, <4>2, RxPlaces
      <4> QED
        BY <1>5, <4>1, <4>3

    <3>2. B[cur - 1] <= B[N]
      BY <1>0, <1>1, <2>1 DEF Sum
    <3>3. PICK M : M = Filled(L, B[N] + 1 + A[cur - 1], x, "rx")
      OBVIOUS
    <3>4. d.output_base = B[N] + 1 /\ d.output_count = A[cur - 1]
      BY <2>4 DEF ListHolds
    <3>5. /\ domain_list' = [domain_list EXCEPT ![k].output_count = @ + x]
          /\ convert_list' = [convert_list EXCEPT ![k] =
               Filled(@, d.output_base + d.output_count, x, "rx")]
      BY <1>5, <2>7 DEF FillRx, S
    <3>6. k \in DOMAIN convert_list' /\ M = convert_list'[k]
      BY <2>4, <3>3, <3>4, <3>5
    <3>7. /\ e.output_base = d.output_base /\ e.output_count = A[cur]
          /\ e.input_count = d.input_count
      BY <2>6, <3>1, <3>4, <3>5 DEF Domain

    <3>8. ListHolds(M, e, A, B, N, cur, cur - 1)
      <4>1. PICK c, l, u, v : c = cur /\ l = L /\ u = d /\ v = e
        OBVIOUS
      <4>2. /\ c \in Nat \ {0} /\ N \in Nat /\ ListHolds(l, u, A, B, N, c - 1, c - 1)
            /\ M = Filled(l, B[N] + 1 + A[c - 1], x, "rx")
            /\ A[c] = A[c - 1] + x /\ A[c] <= A[N] /\ B[c - 1] <= B[N]
            /\ v.output_base = u.output_base
            /\ v.output_count = A[c] /\ v.input_count = u.input_count
            /\ c \in Nat /\ c - 1 \in Nat
        BY <1>0, <1>1, <2>4, <3>1, <3>2, <3>3, <3>7, <4>1
      <4> HIDE DEF N
      <4>3. ListHolds(M, v, A, B, N, c, c - 1)
        BY <1>6, <2>6, <4>2, RxFilledHolds
      <4> QED
        BY <4>1, <4>3
    <3>9. RxEntries(M, k, A, B[N], cur) /\ TxEntries(M, k, B, cur - 1)
      <4>1. PICK c, l : c = cur /\ l = L
        OBVIOUS
      <4>2. /\ DOMAIN l = 0..(A[Len(slave_list)] + B[Len(slave_list)] + 1)
            /\ RxEntries(l, k, A, B[Len(slave_list)], c - 1)
            /\ TxEntries(l, k, B, c - 1)
            /\ c \in DOMAIN slave_list /\ pdo_map[c].rx = k
            /\ M = Filled(l, B[Len(slave_list)] + 1 + A[c - 1], slave_list[c].rx, "rx")
        BY <1>0, <1>5, <2>4, <2>7, <3>3, <4>1 DEF ListHolds
      <4>3. /\ RxEntries(M, k, A, B[Len(slave_list)], c)
            /\ TxEntries(M, k, B, c - 1)
        BY <1>0, <2>1, <4>1, <4>2, RxFilledEntries
      <4> QED
        BY <4>1, <4>3
    <3> QED
      BY <2>5, <3>6, <3>8, <3>9
  <2>8. CASE ~(x > 0 /\ to = k)
    <3>1. pdo_map[cur].rx # k
      BY <1>0, <1>5, <1>6, <2>8 DEF Null
    <3>2. e = d /\ k \in DOMAIN convert_list' /\ L = convert_list'[k]
      <4>1. CASE x = 0
        BY <1>5, <2>4, <4>1 DEF FillRx, S
      <4>2. CASE x > 0
        BY <1>5, <1>6, <2>4, <2>8, <4>2 DEF FillRx, S
      <4> QED
        BY <1>6, <4>1, <4>2
    <3>3. A[cur] = A[cur - 1]
      <4>1. RxShare(slave_list, pdo_map, k)[cur] = 0
        BY <1>1, <3>1 DEF RxShare
      <4>2. A[cur] = A[cur - 1] + RxShare(slave_list, pdo_map, k)[cur]
        BY <1>1, <2>1 DEF Sum
      <4> QED
        BY <1>1, <2>6, <4>1, <4>2
    <3>4. ListHolds(L, e, A, B, N, cur, cur - 1)
      BY <2>4, <3>2, <3>3 DEF ListHolds
    <3>5. RxEntries(L, k, A, B[N], cur) /\ TxEntries(L, k, B, cur - 1)
      BY <1>1, <2>4, <3>1 DEF RxEntries, TxEntries
    <3> QED
      BY <2>5, <3>2, <3>4, <3>5
  <2> QED
    BY <2>7, <2>8
<1> QED
  BY <1>2, <1>7 DEF CountInv, Started, Filling

LEMMA FillTxCounts ==
  ASSUME IInv, MapInv, CountInv, FillTx
  PROVE  CountInv'
<1>0. /\ ListsOK /\ pc = "fill_tx"
      /\ cur \in DOMAIN slave_list /\ DOMAIN slave_list = 1..Len(slave_list)
      /\ Len(slave_list) \in Nat /\ DOMAIN domain_list \subseteq Nat \ {0}
  BY DEF FillTx, IInv, TypeOK, ListsOK, Indexed
<1>1. cur \in Nat \ {0} /\ cur - 1 \in 0..Len(slave_list) /\ cur \in 1..cur
      /\ cur \in 0..Len(slave_list) /\ cur - 1 \in Nat /\ cur - 1 <= Len(slave_list)
  BY <1>0
<1>2. /\ UNCHANGED <<slave_list, pdo_map>>
      /\ DOMAIN domain_list' = DOMAIN domain_list
      /\ \/ pc' = "fill_rx" /\ cur' = cur + 1
         \/ pc' = "running" /\ cur' = cur /\ cur = Len(slave_list)
  BY DEF FillTx
<1>3. \A k \in DOMAIN domain_list : Listed(k)
  BY <1>0 DEF CountInv, Initing, Started, Filling, Blocks, Dead
<1>4. RxDone = cur /\ TxDone = cur - 1 /\ RxDone' = cur /\ TxDone' = cur
  BY <1>0, <1>1, <1>2 DEF RxDone, TxDone
<1>5. PICK x, to : x = slave_list[cur].tx /\ to = pdo_map[cur].tx
  OBVIOUS
<1>6. x \in Nat /\ (IF x > 0 THEN to \in DOMAIN domain_list ELSE to = Null)
  <2>1. slave_list[cur] \in Slave
    BY <1>0, ElementOfSeq DEF ListsOK
  <2>2. x \in Nat
    BY <1>5, <2>1, ConstantsAssumption DEF Slave
  <2>3. TxKnown(cur) /\ TxPlaced(cur)
    BY <1>0 DEF MapInv, TxKnown, Started, Filling, Dead
  <2> QED
    BY <1>5, <2>2, <2>3 DEF TxPlaced, InFirst, First
<1>7. ASSUME NEW k \in DOMAIN domain_list PROVE Listed(k)'
  <2> DEFINE d == domain_list[k]
             e == domain_list'[k]
             N == Len(slave_list)
             L == convert_list[k]
  <2>1. PICK A, B : /\ Sum(A, RxShare(slave_list, pdo_map, k))
                    /\ Sum(B, TxShare(slave_list, pdo_map, k))
                    /\ ListOK(k, A, B)
    BY <1>3 DEF Listed
  <2>2. SUFFICES ListOK(k, A, B)'
    BY <1>2, <2>1 DEF Listed
  <2>3. HasLists(pc, cur, d) /\ HasLists(pc', cur', e)
    BY <1>0, <1>2 DEF HasLists, Filling
  <2>4. /\ k \in DOMAIN convert_list
        /\ ListHolds(L, d, A, B, N, cur, cur - 1)
        /\ RxEntries(L, k, A, B[N], cur)
        /\ TxEntries(L, k, B, cur - 1)
    BY <1>4, <2>1, <2>3 DEF ListOK
  <2>5. ASSUME NEW M, M = convert_list'[k], k \in DOMAIN convert_list',
               ListHolds(M, e, A, B, N, cur, cur),
               RxEntries(M, k, A, B[N], cur),
               TxEntries(M, k, B, cur)
        PROVE  ListOK(k, A, B)'
    <3>1. ListHolds(convert_list'[k], e, A, B, Len(slave_list'), RxDone', TxDone')
      BY <1>2, <1>4, <2>5
    <3>2. RxEntries(convert_list[k], k, A, B[N], RxDone)'
      BY <1>2, <1>4, <2>5 DEF RxEntries
    <3>3. TxEntries(convert_list[k], k, B, TxDone)'
      BY <1>2, <1>4, <2>5 DEF TxEntries
    <3> QED
      BY <2>3, <2>5, <3>1, <3>2, <3>3 DEF ListOK
  <2>6. A \in [Nat -> Nat] /\ B \in [Nat -> Nat] /\ d \in Domain
    BY <1>0, <2>1, ElementTypes DEF Sum
  <2>7. CASE x > 0 /\ to = k
    <3>1. B[cur] = B[cur - 1] + x /\ B[cur] <= B[N]
      <4>1. PICK c : c = cur
        OBVIOUS
      <4>2. c \in 0..Len(slave_list) /\ c \in 1..c /\ pdo_map[c].tx = k
        BY <1>1, <1>5, <2>7, <4>1
      <4>3. /\ B[c] = B[c - 1] + slave_list[c].tx
            /\ B[c] <= B[Len(slave_list)]
        BY <1>0, <2>1, <4>2, TxPlaces
      <4> QED
        BY <1>5, <4>1, <4>3

    <3>3. PICK M : M = Filled(L, B[cur - 1], x, "tx")
      OBVIOUS
    <3>4. d.input_count = B[cur - 1]
      BY <2>4 DEF ListHolds
    <3>5. /\ domain_list' = [domain_list EXCEPT ![k].input_count = @ + x]
          /\ convert_list' = [convert_list EXCEPT ![k] =
               Filled(@, d.input_count, x, "tx")]
      BY <1>5, <2>7 DEF FillTx, S
    <3>6. k \in DOMAIN convert_list' /\ M = convert_list'[k]
      BY <2>4, <3>3, <3>4, <3>5
    <3>7. /\ e.output_base = d.output_base /\ e.input_count = B[cur]
          /\ e.output_count = d.output_count
      BY <2>6, <3>1, <3>4, <3>5 DEF Domain

    <3>8. ListHolds(M, e, A, B, N, cur, cur)
      <4>1. PICK c, l, u, v : c = cur /\ l = L /\ u = d /\ v = e
        OBVIOUS
      <4>2. /\ c \in Nat \ {0} /\ N \in Nat /\ ListHolds(l, u, A, B, N, c, c - 1)
            /\ M = Filled(l, B[c - 1], x, "tx")
            /\ B[c] = B[c - 1] + x /\ B[c] <= B[N]
            /\ v.output_base = u.output_base
            /\ v.output_count = u.output_count /\ v.input_count = B[c]
            /\ c \in Nat /\ c - 1 \in Nat
        BY <1>0, <1>1, <2>4, <3>1, <3>3, <3>7, <4>1
      <4> HIDE DEF N
      <4>3. ListHolds(M, v, A, B, N, c, c)
        BY <1>6, <2>6, <4>2, TxFilledHolds
      <4> QED
        BY <4>1, <4>3
    <3>9. RxEntries(M, k, A, B[N], cur) /\ TxEntries(M, k, B, cur)
      <4>1. PICK c, l : c = cur /\ l = L
        OBVIOUS
      <4>2. /\ DOMAIN l = 0..(A[Len(slave_list)] + B[Len(slave_list)] + 1)
            /\ RxEntries(l, k, A, B[Len(slave_list)], c)
            /\ TxEntries(l, k, B, c - 1)
            /\ c \in DOMAIN slave_list /\ pdo_map[c].tx = k
            /\ M = Filled(l, B[c - 1], slave_list[c].tx, "tx")
        BY <1>0, <1>5, <2>4, <2>7, <3>3, <4>1 DEF ListHolds
      <4>3. /\ RxEntries(M, k, A, B[Len(slave_list)], c)
            /\ TxEntries(M, k, B, c)
        BY <1>0, <2>1, <4>1, <4>2, TxFilledEntries
      <4> QED
        BY <4>1, <4>3
    <3> QED
      BY <2>5, <3>6, <3>8, <3>9
  <2>8. CASE ~(x > 0 /\ to = k)
    <3>1. pdo_map[cur].tx # k
      BY <1>0, <1>5, <1>6, <2>8 DEF Null
    <3>2. e = d /\ k \in DOMAIN convert_list' /\ L = convert_list'[k]
      <4>1. CASE x = 0
        BY <1>5, <2>4, <4>1 DEF FillTx, S
      <4>2. CASE x > 0
        BY <1>5, <1>6, <2>4, <2>8, <4>2 DEF FillTx, S
      <4> QED
        BY <1>6, <4>1, <4>2
    <3>3. B[cur] = B[cur - 1]
      <4>1. TxShare(slave_list, pdo_map, k)[cur] = 0
        BY <1>1, <3>1 DEF TxShare
      <4>2. B[cur] = B[cur - 1] + TxShare(slave_list, pdo_map, k)[cur]
        BY <1>1, <2>1 DEF Sum
      <4> QED
        BY <1>1, <2>6, <4>1, <4>2
    <3>4. ListHolds(L, e, A, B, N, cur, cur)
      BY <2>4, <3>2, <3>3 DEF ListHolds
    <3>5. RxEntries(L, k, A, B[N], cur) /\ TxEntries(L, k, B, cur)
      BY <1>1, <2>4, <3>1 DEF RxEntries, TxEntries
    <3> QED
      BY <2>5, <3>2, <3>4, <3>5
  <2> QED
    BY <2>7, <2>8
<1> QED
  BY <1>2, <1>7 DEF CountInv, Started, Filling

LEMMA CountInit == Init => CountInv
<1> SUFFICES ASSUME Init PROVE CountInv
  OBVIOUS
<1>1. pc \in Blocks /\ DOMAIN domain_list = {}
  BY DEF Init, Blocks
<1> QED
  BY <1>1 DEF CountInv

LEMMA CountStep == IInv /\ MapInv /\ CountInv /\ [Next]_vars => CountInv'
<1> SUFFICES ASSUME IInv, MapInv, CountInv, [Next]_vars, pc' \notin Dead
             PROVE  CountInv'
  BY DEF CountInv
<1>1. CASE Finished \/ UNCHANGED vars
  <2>1. UNCHANGED <<pc, cur, slave_list, pdo_map, domain_list, convert_list>>
    BY <1>1 DEF Finished, vars
  <2>2. UNCHANGED RxDone /\ UNCHANGED TxDone
    BY <2>1 DEF RxDone, TxDone
  <2>3. ASSUME NEW k PROVE Listed(k)' <=> Listed(k)
    <3>1. \A A, B : ListOK(k, A, B)' <=> ListOK(k, A, B)
      BY <2>1, <2>2 DEF ListOK, RxEntries, TxEntries
    <3> QED
      BY <2>1, <3>1 DEF Listed
  <2> QED
    BY <2>1, <2>3 DEF CountInv
<1> QED
  BY <1>1, BlockStartCounts, EcsStartCounts, InitSlaveCounts, ActivateCounts,
     FillRxCounts, FillTxCounts DEF Next

\* How far the fill pass is.
LEMMA Done ==
  ASSUME IInv, pc \in Filling
  PROVE  RxDone \in 0..Len(slave_list) /\ TxDone \in 0..Len(slave_list)
<1>1. Len(slave_list) \in Nat /\ DOMAIN slave_list = 1..Len(slave_list)
  BY DEF IInv, TypeOK, ListsOK
<1>2. CASE pc = "running"
  BY <1>1, <1>2 DEF RxDone, TxDone
<1>3. CASE pc \in {"fill_rx", "fill_tx"}
  <2>1. cur \in 1..Len(slave_list)
    BY <1>1, <1>3 DEF IInv, Indexed
  <2>2. cur - 1 \in 0..Len(slave_list) /\ cur \in 0..Len(slave_list)
    BY <1>1, <2>1
  <2> QED
    BY <1>3, <2>2 DEF RxDone, TxDone
<1> QED
  BY <1>2, <1>3 DEF Filling

LEMMA CountImplies == IInv /\ CountInv => ConvertListsBounded
<1> SUFFICES ASSUME IInv, CountInv, pc \in Filling, NEW k \in DOMAIN domain_list
             PROVE  LET d == domain_list[k]
                        last == d.output_base + d.output_count
                    IN  /\ d.input_count < d.output_base
                        /\ convert_list[k][d.output_base - 1] = NoCopy
                        /\ last \in DOMAIN convert_list[k]
                        /\ convert_list[k][last] = NoCopy
  BY DEF ConvertListsBounded
<1> DEFINE d == domain_list[k]
           list == convert_list[k]
<1>1. PICK N, r, t : N = Len(slave_list) /\ r = RxDone /\ t = TxDone
  OBVIOUS
<1>2. N \in Nat /\ r \in Nat /\ t \in Nat /\ r <= N /\ t <= N
  <2>1. Len(slave_list) \in Nat
    BY DEF IInv, TypeOK, ListsOK
  <2> QED
    BY <1>1, <2>1, Done
<1>3. PICK A, B : /\ Sum(A, RxShare(slave_list, pdo_map, k))
                  /\ Sum(B, TxShare(slave_list, pdo_map, k))
                  /\ ListOK(k, A, B)
  BY DEF CountInv, Listed, Filling, Blocks, Dead
<1>4. ListHolds(list, d, A, B, N, r, t)
  BY <1>1, <1>3 DEF ListOK, HasLists
<1>5. PICK a, b, x, y : a = A[N] /\ b = B[N] /\ x = A[r] /\ y = B[t]
  OBVIOUS
<1>6. a \in Nat /\ b \in Nat /\ x \in Nat /\ y \in Nat /\ x <= a /\ y <= b
  BY <1>2, <1>3, <1>5 DEF Sum
<1>7. /\ DOMAIN list = 0..(a + b + 1)
      /\ d.output_base = b + 1 /\ d.output_count = x /\ d.input_count = y
      /\ \A j \in DOMAIN list : /\ y <= j /\ j <= b => list[j] = NoCopy
                                /\ b + x < j => list[j] = NoCopy
  BY <1>4, <1>5 DEF ListHolds
<1>8. /\ b \in DOMAIN list /\ b + 1 + x \in DOMAIN list /\ b + x < b + 1 + x
      /\ b + 1 - 1 = b /\ y < b + 1 /\ b <= b
  BY <1>6, <1>7
<1>9. list[b] = NoCopy /\ list[b + 1 + x] = NoCopy
  BY <1>6, <1>7, <1>8
<1> QED
  BY <1>7, <1>8, <1>9

\* The fill pass and the walks stay inside the allocated lists: the input
\* list ends before the output list, which ends before the array does, for
\* any number of slaves, entries and domains.
THEOREM ConvertListsBoundedAlways == Spec => []ConvertListsBounded
<1> QED
  BY MapInit, MapStep, CountInit, CountStep, CountImplies, Invariance,
     FastestInvInit, FastestStep, PTL DEF Spec

\* The walks over the filled lists: all the inputs, all the outputs.
Walked(list, base, a, b) ==
  /\ base = b + 1
  /\ \A j \in Nat : j < b => list[j] \in RunFrom(list, 0)
  /\ \A j \in Nat : b < j /\ j <= b + a => list[j] \in RunFrom(list, base)
  /\ \A c \in RunFrom(list, 0) : c.dir = "tx"
  /\ \A c \in RunFrom(list, base) : c.dir = "rx"

LEMMA Walks ==
  ASSUME NEW list, NEW d, NEW A \in [Nat -> Nat], NEW B \in [Nat -> Nat],
         NEW N \in Nat, ListHolds(list, d, A, B, N, N, N)
  PROVE  Walked(list, d.output_base, A[N], B[N])
<1>1. PICK a, b : a = A[N] /\ b = B[N]
  OBVIOUS
<1>2. a \in Nat /\ b \in Nat
  BY <1>1
<1>3. /\ DOMAIN list = 0..(a + b + 1) /\ d.output_base = b + 1
      /\ \A j \in DOMAIN list :
           /\ j < b => list[j].dir = "tx"
           /\ b <= j /\ j <= b => list[j] = NoCopy
           /\ b < j /\ j <= b + a => list[j].dir = "rx"
           /\ b + a < j => list[j] = NoCopy
  BY <1>1 DEF ListHolds
<1>4. NoCopy.dir = "none"
  BY DEF NoCopy
<1>5. ASSUME NEW j \in Nat, j < b PROVE list[j] \in RunFrom(list, 0)
  <2>1. j \in DOMAIN list /\ j >= 0
    BY <1>2, <1>3, <1>5
  <2>2. ASSUME NEW i \in 0..j PROVE list[i] # NoCopy
    <3>1. i \in DOMAIN list /\ i < b
      <4>1. i \in 0..(a + b + 1) /\ i < b
        BY <1>2, <1>5
      <4> QED
        BY <1>3, <4>1
    <3> QED
      BY <1>3, <1>4, <3>1
  <2> QED
    BY <2>1, <2>2 DEF RunFrom
<1>6. ASSUME NEW j \in Nat, b < j, j <= b + a PROVE list[j] \in RunFrom(list, b + 1)
  <2>1. j \in DOMAIN list /\ j >= b + 1
    BY <1>2, <1>3, <1>6
  <2>2. ASSUME NEW i \in (b + 1)..j PROVE list[i] # NoCopy
    <3>1. i \in DOMAIN list /\ b < i /\ i <= b + a
      BY <1>2, <1>3, <1>6
    <3> QED
      BY <1>3, <1>4, <3>1
  <2> QED
    BY <2>1, <2>2 DEF RunFrom
<1>7. ASSUME NEW c \in RunFrom(list, 0) PROVE c.dir = "tx"
  <2>1. PICK j \in DOMAIN list : /\ c = list[j]
                                 /\ \A i \in 0..j : list[i] # NoCopy
    BY DEF RunFrom
  <2>2. j \in Nat
    BY <1>2, <1>3
  <2>3. b \in DOMAIN list /\ list[b] = NoCopy
    <3>1. b \in DOMAIN list /\ b <= b
      BY <1>2, <1>3
    <3> QED
      BY <1>3, <3>1
  <2>4. b \notin 0..j
    BY <2>1, <2>3
  <2>5. j < b
    BY <1>2, <2>2, <2>4
  <2> QED
    BY <1>3, <2>1, <2>5
<1>8. ASSUME NEW c \in RunFrom(list, b + 1) PROVE c.dir = "rx"
  <2>1. PICK j \in DOMAIN list : /\ c = list[j] /\ j >= b + 1
                                 /\ \A i \in (b + 1)..j : list[i] # NoCopy
    BY DEF RunFrom
  <2>2. j \in Nat
    BY <1>2, <1>3
  <2>3. j \in (b + 1)..j
    BY <1>2, <2>1, <2>2
  <2>4. ~(b + a < j)
    BY <1>3, <2>1, <2>3
  <2>5. b < j /\ j <= b + a
    BY <1>2, <2>1, <2>2, <2>4
  <2> QED
    BY <1>3, <2>1, <2>5
<1> QED
  BY <1>1, <1>3, <1>5, <1>6, <1>7, <1>8 DEF Walked

LEMMA ConvertedImplies == IInv /\ MapInv /\ CountInv => PdosConverted
<1> SUFFICES ASSUME IInv, MapInv, CountInv, pc = "running" PROVE PdosConverted
  BY DEF PdosConverted
<1>0. ListsOK /\ DOMAIN slave_list = 1..Len(slave_list)
  BY DEF IInv, TypeOK, ListsOK
<1>1. PICK N : N = Len(slave_list) /\ N \in Nat
  BY <1>0 DEF ListsOK
<1>2. ASSUME NEW k \in DOMAIN domain_list
      PROVE  \E A, B :
               /\ Sum(A, RxShare(slave_list, pdo_map, k))
               /\ Sum(B, TxShare(slave_list, pdo_map, k))
               /\ ListHolds(convert_list[k], domain_list[k], A, B, N, N, N)
               /\ RxEntries(convert_list[k], k, A, B[N], N)
               /\ TxEntries(convert_list[k], k, B, N)
  <2>1. Listed(k)
    BY DEF CountInv, Blocks, Dead
  <2>2. RxDone = N /\ TxDone = N
    BY <1>1 DEF RxDone, TxDone
  <2>3. HasLists(pc, cur, domain_list[k])
    BY DEF HasLists, Filling
  <2> QED
    BY <1>1, <2>1, <2>2, <2>3 DEF Listed, ListOK
<1>3. ASSUME NEW n \in DOMAIN slave_list, slave_list[n].rx > 0
      PROVE  LET s == slave_list[n]
                 k == pdo_map[n].rx
                 d == domain_list[k]
             IN  /\ ServesKey(d, s) /\ d.output
                 /\ \A e \in 1..s.rx :
                      [slave |-> n, dir |-> "rx", entry |-> e]
                        \in RunFrom(convert_list[k], d.output_base)
  <2>1. PICK s, k : s = slave_list[n] /\ k = pdo_map[n].rx
    OBVIOUS
  <2>2. InFirst(k, s, "rx")
    BY <1>3, <2>1 DEF MapInv, RxPlaced, RxKnown, Started, Filling, Dead
  <2>3. /\ k \in DOMAIN domain_list
        /\ ServesKey(domain_list[k], s) /\ domain_list[k].output
    BY <2>2 DEF InFirst, First, Key, Flag, ServesKey
  <2>4. PICK A, B :
          /\ Sum(A, RxShare(slave_list, pdo_map, k))
          /\ Sum(B, TxShare(slave_list, pdo_map, k))
          /\ ListHolds(convert_list[k], domain_list[k], A, B, N, N, N)
          /\ RxEntries(convert_list[k], k, A, B[N], N)
    BY <1>2, <2>3
  <2>5. A \in [Nat -> Nat] /\ B \in [Nat -> Nat]
    BY <2>4 DEF Sum
  <2>7. Walked(convert_list[k], domain_list[k].output_base, A[N], B[N])
    BY <1>1, <2>4, <2>5, Walks
  <2>6. ASSUME NEW e \in 1..s.rx
        PROVE  Entry(n, "rx", e) \in RunFrom(convert_list[k], domain_list[k].output_base)
    <3>1. PICK u, v, a, b, x : /\ u = A[n - 1] /\ v = A[n] /\ a = A[N]
                               /\ b = B[N] /\ x = s.rx
      OBVIOUS
    <3>2. n \in 1..N /\ N \in 0..N
      BY <1>0, <1>1
    <3>3. u \in Nat /\ v = u + x /\ x \in Nat /\ v <= a
      BY <1>0, <1>1, <2>1, <2>4, <3>1, <3>2, RxPlaces
    <3>4. a \in Nat /\ b \in Nat
      BY <1>1, <2>5, <3>1
    <3>5. b + u + e \in Nat /\ b < b + u + e /\ b + u + e <= b + a
      <4>1. e \in 1..x
        BY <3>1
      <4> QED
        BY <3>3, <3>4, <4>1
    <3>6. convert_list[k][b + u + e] \in RunFrom(convert_list[k], domain_list[k].output_base)
      BY <2>7, <3>1, <3>5 DEF Walked
    <3>7. convert_list[k][b + u + e] = Entry(n, "rx", e)
      BY <2>1, <2>4, <3>1, <3>2 DEF RxEntries
    <3> QED
      BY <3>6, <3>7
  <2> QED
    BY <2>1, <2>3, <2>6 DEF Entry
<1>4. ASSUME NEW n \in DOMAIN slave_list, slave_list[n].tx > 0
      PROVE  LET s == slave_list[n]
                 k == pdo_map[n].tx
                 d == domain_list[k]
             IN  /\ ServesKey(d, s) /\ d.input
                 /\ \A e \in 1..s.tx :
                      [slave |-> n, dir |-> "tx", entry |-> e]
                        \in RunFrom(convert_list[k], 0)
  <2>1. PICK s, k : s = slave_list[n] /\ k = pdo_map[n].tx
    OBVIOUS
  <2>2. InFirst(k, s, "tx")
    BY <1>4, <2>1 DEF MapInv, TxPlaced, TxKnown, Started, Filling, Dead
  <2>3. /\ k \in DOMAIN domain_list
        /\ ServesKey(domain_list[k], s) /\ domain_list[k].input
    BY <2>2 DEF InFirst, First, Key, Flag, ServesKey
  <2>4. PICK A, B :
          /\ Sum(A, RxShare(slave_list, pdo_map, k))
          /\ Sum(B, TxShare(slave_list, pdo_map, k))
          /\ ListHolds(convert_list[k], domain_list[k], A, B, N, N, N)
          /\ TxEntries(convert_list[k], k, B, N)
    BY <1>2, <2>3
  <2>5. A \in [Nat -> Nat] /\ B \in [Nat -> Nat]
    BY <2>4 DEF Sum
  <2>7. Walked(convert_list[k], domain_list[k].output_base, A[N], B[N])
    BY <1>1, <2>4, <2>5, Walks
  <2>6. ASSUME NEW e \in 1..s.tx
        PROVE  Entry(n, "tx", e) \in RunFrom(convert_list[k], 0)
    <3>1. PICK u, v, b, x : u = B[n - 1] /\ v = B[n] /\ b = B[N] /\ x = s.tx
      OBVIOUS
    <3>2. n \in 1..N /\ N \in 0..N
      BY <1>0, <1>1
    <3>3. u \in Nat /\ v = u + x /\ x \in Nat /\ v <= b
      BY <1>0, <1>1, <2>1, <2>4, <3>1, <3>2, TxPlaces
    <3>4. b \in Nat
      BY <1>1, <2>5, <3>1
    <3>5. u + e - 1 \in Nat /\ u + e - 1 < b
      <4>1. e \in 1..x
        BY <3>1
      <4> QED
        BY <3>3, <3>4, <4>1
    <3>6. convert_list[k][u + e - 1] \in RunFrom(convert_list[k], 0)
      <4>1. PICK j : j = u + e - 1
        OBVIOUS
      <4>2. j \in Nat /\ j < B[N]
        BY <3>1, <3>5, <4>1
      <4> QED
        BY <2>7, <4>1, <4>2 DEF Walked
    <3>7. convert_list[k][u + e - 1] = Entry(n, "tx", e)
      BY <2>1, <2>4, <3>1, <3>2 DEF TxEntries
    <3> QED
      BY <3>6, <3>7
  <2> QED
    BY <2>1, <2>3, <2>6 DEF Entry
<1>5. ASSUME NEW k \in DOMAIN domain_list
      PROVE  LET d == domain_list[k]
             IN  /\ \A c \in RunFrom(convert_list[k], 0) : c.dir = "tx"
                 /\ \A c \in RunFrom(convert_list[k], d.output_base) : c.dir = "rx"
  <2>1. PICK A, B :
          /\ A \in [Nat -> Nat] /\ B \in [Nat -> Nat]
          /\ ListHolds(convert_list[k], domain_list[k], A, B, N, N, N)
    BY <1>2 DEF Sum
  <2>2. Walked(convert_list[k], domain_list[k].output_base, A[N], B[N])
    BY <1>1, <2>1, Walks
  <2> QED
    BY <2>2 DEF Walked
<1> QED
  BY <1>3, <1>4, <1>5 DEF PdosConverted

\* After a successful start every entry of every slave is converted, by the
\* slave's own task, in a list of its own direction.
THEOREM PdosConvertedAlways == Spec => []PdosConverted
<1> QED
  BY MapInit, MapStep, CountInit, CountStep, ConvertedImplies, Invariance,
     FastestInvInit, FastestStep, PTL DEF Spec
=============================================================================
