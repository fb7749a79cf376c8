------------------------- MODULE EcrtSupport_proofs -------------------------
(* Registration, for any number of masters, domains, tasks and blocks.     *)
EXTENDS EcrtSupport, SequenceTheorems, TLAPS

-----------------------------------------------------------------------------
(* What the helpers return.                                                *)

\* One element of a sequence changes, if it is there.
LEMMA ExceptType ==
  ASSUME NEW R, NEW s \in Seq(R), NEW i, NEW e, i \in DOMAIN s => e \in R
  PROVE  /\ [s EXCEPT ![i] = e] \in Seq(R)
         /\ Len([s EXCEPT ![i] = e]) = Len(s)
         /\ DOMAIN [s EXCEPT ![i] = e] = DOMAIN s
<1>1. CASE i \in DOMAIN s
  BY <1>1, ExceptSeq
<1>2. CASE i \notin DOMAIN s
  <2>1. [s EXCEPT ![i] = e] = s
    BY <1>2
  <2> QED
    BY <2>1
<1> QED
  BY <1>1, <1>2

\* A list only grows.
Grows(s, t) == DOMAIN s \subseteq DOMAIN t

LEMMA AppendType ==
  ASSUME NEW R, NEW s \in Seq(R), NEW e \in R
  PROVE  /\ Append(s, e) \in Seq(R)
         /\ Len(s) + 1 \in DOMAIN Append(s, e)
         /\ Grows(s, Append(s, e))
  BY DEF Grows

\* get_master() returns NULL or a master of the list.
LEMMA GetMasterType ==
  ASSUME master_list \in Seq(Master), NEW id \in MasterIds, NEW tid \in Tids,
         NEW i \in MasterResults, GetMaster(id, tid, i)
  PROVE  /\ master_list' \in Seq(Master)
         /\ Grows(master_list, master_list')
         /\ i # Null => i \in DOMAIN master_list' /\ i \in Nat \ {0}
<1>1. CASE /\ i \in DOMAIN master_list
           /\ master_list' = [master_list EXCEPT ![i].fastest_tid =
                                FasterTid(@, tid)]
  <2> DEFINE e == [master_list[i] EXCEPT !.fastest_tid = FasterTid(@, tid)]
  <2>1. master_list[i] \in Master
    BY <1>1, ElementOfSeq
  <2>2. e \in Master
    BY <2>1 DEF Master, FasterTid
  <2>3. master_list' = [master_list EXCEPT ![i] = e]
    BY <1>1
  <2> HIDE DEF e
  <2> QED
    BY <1>1, <2>2, <2>3, ExceptType DEF Grows
<1>2. ASSUME NEW ok \in BOOLEAN,
             master_list' = Append(master_list, NewMaster(id, tid, ok)),
             i = IF ok THEN Len(master_list) + 1 ELSE Null
      PROVE  /\ master_list' \in Seq(Master)
             /\ Grows(master_list, master_list')
             /\ i # Null => i \in DOMAIN master_list' /\ i \in Nat \ {0}
  <2>1. NewMaster(id, tid, ok) \in Master
    BY DEF NewMaster, Master
  <2> QED
    BY <1>2, <2>1, AppendType
<1> QED
  BY <1>1, <1>2 DEF GetMaster

\* get_domain() returns NULL, crashes, or returns a domain of the list.
LEMMA GetDomainType ==
  ASSUME domain_list \in Seq(Domain), NEW m \in Nat \ {0},
         NEW id \in DomainIds, NEW in \in BOOLEAN, NEW out \in BOOLEAN,
         NEW tid \in Tids, NEW d \in DomainResults,
         GetDomain(m, id, in, out, tid, d)
  PROVE  /\ domain_list' \in Seq(Domain)
         /\ Grows(domain_list, domain_list')
         /\ d \in Nat \cup {Crash}
         /\ d \notin {Null, Crash} => d \in DOMAIN domain_list'
<1> USE DEF Crash, Null
<1>0. DOMAIN domain_list \subseteq Nat \ {0}
  OBVIOUS
<1>1. CASE /\ d \in DOMAIN domain_list
           /\ domain_list' = [domain_list EXCEPT ![d].input = @ \/ in,
                                                 ![d].output = @ \/ out]
  <2> DEFINE e == [domain_list[d] EXCEPT !.input = @ \/ in, !.output = @ \/ out]
  <2>1. domain_list[d] \in Domain
    BY <1>1, ElementOfSeq
  <2>2. e \in Domain
    BY <2>1 DEF Domain
  <2>3. domain_list' = [domain_list EXCEPT ![d] = e]
    BY <1>1
  <2>4. d \in Nat
    BY <1>0, <1>1
  <2> HIDE DEF e
  <2>5. domain_list' \in Seq(Domain) /\ DOMAIN domain_list' = DOMAIN domain_list
    BY <2>2, <2>3, ExceptType
  <2> QED
    BY <1>1, <2>4, <2>5 DEF Grows
<1>2. ASSUME NEW ok \in BOOLEAN,
             domain_list' = Append(domain_list, NewDomain(m, id, tid, in, out, ok)),
             d \in {Crash, Len(domain_list) + 1, Null}
      PROVE  /\ domain_list' \in Seq(Domain)
             /\ Grows(domain_list, domain_list')
             /\ d \in Nat \cup {Crash}
             /\ d \notin {Null, Crash} => d \in DOMAIN domain_list'
  <2>1. NewDomain(m, id, tid, in, out, ok) \in Domain
    BY DEF NewDomain, Domain
  <2> QED
    BY <1>2, <2>1, AppendType
<1> QED
  BY <1>1, <1>2 DEF GetDomain

-----------------------------------------------------------------------------
(* Types.                                                                  *)

(* Where the loops of ecs_start() stand is a slave of the chain, and what  *)
(* init_slave()'s locals name is in the lists.                             *)
Indexed ==
  /\ pc \in Initing \cup {"fill_rx", "fill_tx"} => cur \in DOMAIN slave_list
  /\ pc \in Initing \ {"get_master"} => master \in DOMAIN master_list
  /\ pc \in {"rx_pdos", "tx_pdos"} => domain \in DOMAIN domain_list
  /\ pc = "secondPtr" => domain_ptrs # <<>>
  /\ DOMAIN convert_list \subseteq DOMAIN domain_list
  /\ pc = "activate" =>
       {d \in DOMAIN domain_list : domain_list[d].master < cur}
         \subseteq DOMAIN convert_list

IInv == TypeOK /\ Indexed

LEMMA InitIInv == Init => IInv
<1> SUFFICES ASSUME Init PROVE IInv
  OBVIOUS
<1> USE DEF Init
<1>1. PcOK
  BY DEF PcOK
<1>2. LocalsOK
  BY ConstantsAssumption DEF LocalsOK, Null
<1>3. ListsOK
  BY DEF ListsOK
<1>4. ConvertListsOK
  BY DEF ConvertListsOK
<1>5. Indexed
  BY DEF Indexed, Initing
<1> QED
  BY <1>1, <1>2, <1>3, <1>4, <1>5 DEF IInv, TypeOK

\* The program counter stays in its set.
LEMMA StepPc == PcOK /\ Next => PcOK'
<1> SUFFICES ASSUME PcOK, Next PROVE PcOK'
  OBVIOUS
<1> USE DEF PcOK, Initing, Started, Filling, Stopped
<1>1. CASE BlockStart
  BY <1>1 DEF BlockStart, SlaveStart, MasterStateStart, DomainStateStart,
     DomainStateSecond, SdoHandler, AfterPtr
<1>2. CASE EcsStart
  BY <1>2 DEF EcsStart
<1>3. CASE InitSlave
  BY <1>3 DEF InitSlave, InitSlaveMaster, InitSlaveConfig, RxDomain, TxDomain,
     InitSlaveDomain, RxPdos, TxPdos, SdoRequests, AfterPtr
<1>4. CASE Activate \/ FillRx \/ FillTx \/ Finished
  BY <1>4 DEF Activate, FillRx, FillTx, Finished, vars
<1> QED
  BY <1>1, <1>2, <1>3, <1>4 DEF Next

(* The Start code of the blocks.                                           *)
LEMMA SlaveStartStep ==
  ASSUME IInv, NEW s \in Slave, SlaveStart(s)
  PROVE  LocalsOK' /\ ListsOK' /\ ConvertListsOK' /\ Indexed'
<1> USE DEF IInv, TypeOK, SlaveStart, locals
<1>1. LocalsOK'
  BY ConstantsAssumption DEF LocalsOK
<1>2. [rx |-> Null, tx |-> Null] \in PdoMap
  BY DEF PdoMap, Null
<1>3. ListsOK'
  BY <1>2, AppendType DEF ListsOK
<1>4. ConvertListsOK'
  BY DEF ConvertListsOK
<1>5. Indexed'
  BY DEF Indexed, Initing
<1> QED
  BY <1>1, <1>3, <1>4, <1>5

LEMMA MasterStateStartStep ==
  ASSUME IInv, NEW id \in MasterIds, NEW dec \in 0..1, MasterStateStart(id, dec)
  PROVE  LocalsOK' /\ ListsOK' /\ ConvertListsOK' /\ Indexed'
<1> USE DEF IInv, TypeOK
<1>1. LocalsOK'
  <2>1. blocks < MaxBlocks /\ blocks' = blocks + 1 /\ UNCHANGED locals
    BY DEF MasterStateStart
  <2> QED
    BY <2>1, ConstantsAssumption DEF LocalsOK, locals
<1>2. master_list \in Seq(Master) /\ dec \in Nat
  BY DEF ListsOK
<1>3. master_list' \in Seq(Master)
  <2>1. ASSUME NEW i \in DOMAIN master_list,
               master_list' = [master_list EXCEPT
                  ![i].refclk_trigger_init = dec, ![i].refclk_trigger = 1]
        PROVE  master_list' \in Seq(Master)
    <3> DEFINE e == [master_list[i] EXCEPT !.refclk_trigger_init = dec,
                                           !.refclk_trigger = 1]
    <3>1. master_list[i] \in Master
      BY <1>2, ElementOfSeq
    <3>2. e \in Master
      BY <1>2, <3>1 DEF Master
    <3>3. master_list' = [master_list EXCEPT ![i] = e]
      BY <2>1
    <3> HIDE DEF e
    <3> QED
      BY <1>2, <3>2, <3>3, ExceptType
  <2>2. ASSUME NEW ok \in BOOLEAN
        PROVE  /\ NewMaster(id, NoTid, ok) \in Master
               /\ [NewMaster(id, NoTid, ok) EXCEPT !.refclk_trigger_init = dec,
                                                   !.refclk_trigger = 1] \in Master
    BY <1>2 DEF NewMaster, Master
  <2> QED
    BY <1>2, <2>1, <2>2, AppendType DEF MasterStateStart
<1>4. ListsOK'
  BY <1>3 DEF ListsOK, MasterStateStart
<1>5. ConvertListsOK'
  BY DEF ConvertListsOK, MasterStateStart
<1>6. Indexed'
  BY DEF Indexed, Initing, MasterStateStart
<1> QED
  BY <1>1, <1>4, <1>5, <1>6

\* Both calls of ecs_get_domain_ptr().
LEMMA GetDomainPtrType ==
  ASSUME ListsOK, NEW id \in MasterIds, NEW dom \in DomainIds,
         NEW in \in BOOLEAN, NEW out \in BOOLEAN, NEW tid \in Tids,
         NEW p \in DomainResults, GetDomainPtr(id, dom, in, out, tid, p)
  PROVE  /\ master_list' \in Seq(Master)
         /\ domain_list' \in Seq(Domain)
         /\ Grows(domain_list, domain_list')
         /\ p \in Nat \cup {Crash}
<1>1. PICK i \in MasterResults :
        /\ GetMaster(id, tid, i)
        /\ \/ i = Null /\ p = Null /\ UNCHANGED domain_list
           \/ i # Null /\ \E d \in DomainResults :
                /\ GetDomain(i, dom, in, out, tid, d)
                /\ p = IF d > 0 /\ ~domain_list'[d].handle THEN Null ELSE d
  BY DEF GetDomainPtr
<1>2. master_list' \in Seq(Master) /\ (i # Null => i \in Nat \ {0})
  BY <1>1, GetMasterType DEF ListsOK
<1>3. CASE i = Null /\ p = Null /\ UNCHANGED domain_list
  BY <1>2, <1>3 DEF ListsOK, Grows, Null
<1>4. ASSUME i # Null, NEW d \in DomainResults,
             GetDomain(i, dom, in, out, tid, d), p \in {Null, d}
      PROVE  /\ domain_list' \in Seq(Domain)
             /\ Grows(domain_list, domain_list')
             /\ p \in Nat \cup {Crash}
  <2>1. domain_list \in Seq(Domain) /\ i \in Nat \ {0}
    BY <1>2, <1>4 DEF ListsOK
  <2>2. /\ domain_list' \in Seq(Domain)
        /\ Grows(domain_list, domain_list')
        /\ d \in Nat \cup {Crash}
    BY <1>4, <2>1, GetDomainType
  <2> QED
    BY <1>4, <2>2 DEF Null
<1> QED
  BY <1>1, <1>2, <1>3, <1>4

LEMMA DomainStateStartStep ==
  ASSUME IInv, NEW id \in MasterIds, NEW dom \in DomainIds, NEW tid \in Tids,
         NEW mode \in Modes, DomainStateStart(id, dom, tid, mode)
  PROVE  LocalsOK' /\ ListsOK' /\ ConvertListsOK' /\ Indexed'
<1> DEFINE in == mode # "out"
           out == mode \in {"io", "out"}
<1> USE DEF IInv, TypeOK
<1>1. LocalsOK'
  BY ConstantsAssumption DEF LocalsOK, DomainStateStart, locals
<1>2. PICK p \in DomainResults :
        /\ GetDomainPtr(id, dom, in, out, tid, p)
        /\ domain_ptrs' = Append(domain_ptrs, Pointer(id, dom, tid, in, out, p))
  BY DEF DomainStateStart
<1>3. /\ master_list' \in Seq(Master)
      /\ domain_list' \in Seq(Domain)
      /\ Grows(domain_list, domain_list')
      /\ p \in Nat \cup {Crash}
  <2>1. in \in BOOLEAN /\ out \in BOOLEAN
    OBVIOUS
  <2> HIDE DEF in, out
  <2> QED
    BY <1>2, <2>1, GetDomainPtrType
<1>4. Pointer(id, dom, tid, in, out, p) \in DomainPtr
  BY <1>3 DEF Pointer, DomainPtr
<1>5. domain_ptrs' \in Seq(DomainPtr) /\ domain_ptrs' # <<>>
  <2> DEFINE e == Pointer(id, dom, tid, in, out, p)
  <2>1. domain_ptrs \in Seq(DomainPtr) /\ e \in DomainPtr
    BY <1>4 DEF ListsOK
  <2>2. domain_ptrs' = Append(domain_ptrs, e)
    BY <1>2
  <2> HIDE DEF e
  <2> QED
    BY <2>1, <2>2
<1>6. ListsOK'
  BY <1>3, <1>5 DEF ListsOK, DomainStateStart
<1>7. ConvertListsOK'
  BY DEF ConvertListsOK, DomainStateStart
<1>8. pc' \in {"mdlStart", "secondPtr", "failed", "nullHandle"}
  BY DEF DomainStateStart, AfterPtr
<1>9. Indexed'
  BY <1>3, <1>5, <1>8 DEF Indexed, Initing, DomainStateStart, Grows
<1> QED
  BY <1>1, <1>6, <1>7, <1>9

LEMMA DomainStateSecondStep ==
  ASSUME IInv, DomainStateSecond
  PROVE  LocalsOK' /\ ListsOK' /\ ConvertListsOK' /\ Indexed'
<1> DEFINE b == domain_ptrs[Len(domain_ptrs)]
<1> USE DEF IInv, TypeOK
<1>1. LocalsOK'
  BY DEF LocalsOK, DomainStateSecond, locals
<1>2. b \in DomainPtr
  <2>1. domain_ptrs \in Seq(DomainPtr) /\ domain_ptrs # <<>>
    BY DEF DomainStateSecond, Indexed, ListsOK
  <2> QED
    BY <2>1, ElementOfSeq
<1>3. PICK p \in DomainResults :
        /\ GetDomainPtr(b.master, b.domain, FALSE, TRUE, b.tid, p)
        /\ domain_ptrs' = Append(domain_ptrs,
             Pointer(b.master, b.domain, b.tid, FALSE, TRUE, p))
  BY DEF DomainStateSecond
<1>4. b.master \in MasterIds /\ b.domain \in DomainIds /\ b.tid \in Tids
  BY <1>2 DEF DomainPtr
<1> HIDE DEF b
<1>5. /\ master_list' \in Seq(Master)
      /\ domain_list' \in Seq(Domain)
      /\ Grows(domain_list, domain_list')
      /\ p \in Nat \cup {Crash}
  BY <1>3, <1>4, GetDomainPtrType
<1>6. Pointer(b.master, b.domain, b.tid, FALSE, TRUE, p) \in DomainPtr
  BY <1>4, <1>5 DEF Pointer, DomainPtr
<1>7. domain_ptrs' \in Seq(DomainPtr)
  BY <1>3, <1>6, AppendType DEF ListsOK
<1>8. ListsOK'
  BY <1>5, <1>7 DEF ListsOK, DomainStateSecond
<1>9. ConvertListsOK'
  BY DEF ConvertListsOK, DomainStateSecond
<1>10. pc' \in {"mdlStart", "failed", "nullHandle"}
  BY DEF DomainStateSecond, AfterPtr
<1>11. Indexed'
  BY <1>5, <1>10 DEF Indexed, Initing, DomainStateSecond, Grows
<1> QED
  BY <1>1, <1>8, <1>9, <1>11

LEMMA SdoHandlerStep ==
  ASSUME IInv, NEW id \in MasterIds, NEW p \in Positions, SdoHandler(id, p)
  PROVE  LocalsOK' /\ ListsOK' /\ ConvertListsOK' /\ Indexed'
<1> USE DEF IInv, TypeOK, SdoHandler, locals
<1>1. [master |-> id, position |-> p, asked |-> Null, bound |-> Null]
        \in SdoRequest
  BY DEF SdoRequest, Null
<1>2. ListsOK'
  BY <1>1, AppendType DEF ListsOK
<1>3. LocalsOK' /\ ConvertListsOK'
  BY DEF LocalsOK, ConvertListsOK
<1>4. Indexed'
  BY DEF Indexed, Initing
<1> QED
  BY <1>2, <1>3, <1>4

\* ecs_start(): the slave at hand is one of the chain.
LEMMA CurrentSlave ==
  ASSUME ListsOK, Indexed, pc \in Initing \cup {"fill_rx", "fill_tx"}
  PROVE  /\ S \in Slave
         /\ S.master \in MasterIds /\ S.domain \in DomainIds /\ S.tid \in Tids
         /\ S.rx \in Nat /\ S.tx \in Nat
<1>1. S \in Slave
  BY ElementOfSeq DEF ListsOK, Indexed, S
<1> QED
  BY <1>1, ConstantsAssumption DEF Slave

\* Activation begins before the first master.
LEMMA NoneActive ==
  ASSUME ListsOK PROVE {d \in DOMAIN domain_list : domain_list[d].master < 1} = {}
<1>1. ASSUME NEW d \in DOMAIN domain_list PROVE ~(domain_list[d].master < 1)
  <2>1. domain_list[d] \in Domain
    BY ElementOfSeq DEF ListsOK
  <2> QED
    BY <2>1 DEF Domain
<1> QED
  BY <1>1

LEMMA EcsStartStep ==
  ASSUME IInv, EcsStart
  PROVE  LocalsOK' /\ ListsOK' /\ ConvertListsOK' /\ Indexed'
<1> USE DEF IInv, TypeOK, EcsStart
<1>1. slave_list # <<>> => 1 \in DOMAIN slave_list
  BY DEF ListsOK
<1>2. LocalsOK' /\ ListsOK' /\ ConvertListsOK'
  BY DEF LocalsOK, ListsOK, ConvertListsOK
<1>3. Indexed'
  BY <1>1, NoneActive DEF Indexed, Initing
<1> QED
  BY <1>2, <1>3

LEMMA InitSlaveMasterStep ==
  ASSUME IInv, InitSlaveMaster
  PROVE  LocalsOK' /\ ListsOK' /\ ConvertListsOK' /\ Indexed'
<1> USE DEF IInv, TypeOK
<1>1. PICK i \in MasterResults :
        /\ GetMaster(S.master, S.tid, i)
        /\ master' = i
        /\ pc' = IF i = Null THEN "failed" ELSE "config"
  BY DEF InitSlaveMaster
<1>2. master_list \in Seq(Master) /\ S.master \in MasterIds /\ S.tid \in Tids
  BY CurrentSlave DEF InitSlaveMaster, Initing, ListsOK
<1>3. /\ master_list' \in Seq(Master)
      /\ i # Null => i \in DOMAIN master_list' /\ i \in Nat \ {0}
  BY <1>1, <1>2, GetMasterType
<1>4. LocalsOK'
  BY <1>1, <1>3 DEF LocalsOK, InitSlaveMaster, Null
<1>5. ListsOK'
  BY <1>3 DEF ListsOK, InitSlaveMaster
<1>6. ConvertListsOK'
  BY DEF ConvertListsOK, InitSlaveMaster
<1>7. Indexed'
  BY <1>1, <1>3 DEF Indexed, Initing, InitSlaveMaster
<1> QED
  BY <1>4, <1>5, <1>6, <1>7

LEMMA InitSlaveConfigStep ==
  ASSUME IInv, InitSlaveConfig
  PROVE  LocalsOK' /\ ListsOK' /\ ConvertListsOK' /\ Indexed'
<1> USE DEF IInv, TypeOK, InitSlaveConfig, locals
<1>1. LocalsOK' /\ ListsOK' /\ ConvertListsOK'
  BY DEF LocalsOK, ListsOK, ConvertListsOK
<1>2. Indexed'
  BY DEF Indexed, Initing
<1> QED
  BY <1>1, <1>2

\* Either direction: the entries are registered in a domain that exists.
LEMMA InitSlaveDomainStep ==
  ASSUME IInv, NEW here \in {"rx_domain", "tx_domain"}, NEW n,
         NEW in \in BOOLEAN, NEW out \in BOOLEAN,
         NEW found \in {"rx_pdos", "tx_pdos"}, NEW none \in {"tx_domain", "sdo_req"},
         InitSlaveDomain(here, n, in, out, found, none)
  PROVE  LocalsOK' /\ ListsOK' /\ ConvertListsOK' /\ Indexed'
<1> USE DEF IInv, TypeOK
<1>1. pc \in Initing \ {"get_master"}
  BY DEF InitSlaveDomain, Initing
<1>2. UNCHANGED <<cur, master, blocks, slave_list, master_list, convert_list,
                  pdo_map, sdo_head, domain_ptrs>>
  BY DEF InitSlaveDomain
<1>3. CASE pc' = none /\ UNCHANGED <<domain, domain_list>>
  <2>1. LocalsOK' /\ ListsOK' /\ ConvertListsOK'
    BY <1>2, <1>3 DEF LocalsOK, ListsOK, ConvertListsOK
  <2>2. Indexed'
    BY <1>1, <1>2, <1>3 DEF Indexed, Initing
  <2> QED
    BY <2>1, <2>2
<1>4. ASSUME NEW d \in DomainResults,
             GetDomain(master, S.domain, in, out, S.tid, d),
             domain' = d, pc' = AfterPtr(d, found)
      PROVE  LocalsOK' /\ ListsOK' /\ ConvertListsOK' /\ Indexed'
  <2>1. /\ domain_list \in Seq(Domain) /\ master \in Nat \ {0}
        /\ S.domain \in DomainIds /\ S.tid \in Tids
    BY <1>1, CurrentSlave DEF Indexed, ListsOK
  <2>2. /\ domain_list' \in Seq(Domain)
        /\ Grows(domain_list, domain_list')
        /\ d \in Nat \cup {Crash}
        /\ d \notin {Null, Crash} => d \in DOMAIN domain_list'
    BY <1>4, <2>1, GetDomainType
  <2>3. LocalsOK'
    BY <1>2, <1>4, <2>2 DEF LocalsOK
  <2>4. ListsOK' /\ ConvertListsOK'
    BY <1>2, <2>2 DEF ListsOK, ConvertListsOK
  <2>5. \/ pc' \in {"nullHandle", "failed"}
        \/ pc' = found /\ domain' \in DOMAIN domain_list'
    BY <1>4, <2>2 DEF AfterPtr
  <2>6. Indexed'
    BY <1>1, <1>2, <2>2, <2>5 DEF Indexed, Initing, Grows
  <2> QED
    BY <2>3, <2>4, <2>6
<1> QED
  BY <1>3, <1>4 DEF InitSlaveDomain

LEMMA RecordTypes ==
  /\ \A d \in Domain, k \in Nat :
       /\ [d EXCEPT !.input_count = @ + k] \in Domain
       /\ [d EXCEPT !.output_count = @ + k] \in Domain
  /\ \A q \in PdoMap, d \in Nat :
       [q EXCEPT !.rx = d] \in PdoMap /\ [q EXCEPT !.tx = d] \in PdoMap
  /\ \A q \in SdoRequest, n \in Nat : [q EXCEPT !.bound = n] \in SdoRequest
<1>1. ASSUME NEW d \in Domain, NEW k \in Nat
      PROVE  /\ [d EXCEPT !.input_count = @ + k] \in Domain
             /\ [d EXCEPT !.output_count = @ + k] \in Domain
  BY DEF Domain
<1>2. ASSUME NEW q \in PdoMap, NEW d \in Nat
      PROVE  [q EXCEPT !.rx = d] \in PdoMap /\ [q EXCEPT !.tx = d] \in PdoMap
  BY DEF PdoMap
<1>3. ASSUME NEW q \in SdoRequest, NEW n \in Nat
      PROVE  [q EXCEPT !.bound = n] \in SdoRequest
  BY DEF SdoRequest
<1> QED
  BY <1>1, <1>2, <1>3

\* The domain's count and the slave's map, for either direction.
LEMMA RxPdosStep ==
  ASSUME IInv, RxPdos
  PROVE  LocalsOK' /\ ListsOK' /\ ConvertListsOK' /\ Indexed'
<1> USE DEF IInv, TypeOK
<1>1. PICK k \in 1..S.rx :
        domain_list' = [domain_list EXCEPT ![domain].output_count = @ + k]
  BY DEF RxPdos
<1>2. /\ UNCHANGED <<cur, master, domain, blocks, slave_list, master_list,
                     convert_list, sdo_head, domain_ptrs>>
      /\ pdo_map' = [pdo_map EXCEPT ![cur].rx = domain]
      /\ pc = "rx_pdos" /\ pc' \in {"tx_domain", "failed"}
  BY DEF RxPdos, locals
<1>3. k \in Nat
  BY CurrentSlave, <1>2 DEF Initing
<1>4. domain \in DOMAIN domain_list /\ domain \in Nat
  BY <1>2 DEF Indexed, ListsOK
<1>5. domain_list' \in Seq(Domain) /\ DOMAIN domain_list' = DOMAIN domain_list
  <2> DEFINE e == [domain_list[domain] EXCEPT !.output_count = @ + k]
  <2>1. domain_list \in Seq(Domain) /\ domain_list[domain] \in Domain
    BY <1>4, ElementOfSeq DEF ListsOK
  <2>2. e \in Domain
    BY <1>3, <2>1, RecordTypes
  <2>3. domain_list' = [domain_list EXCEPT ![domain] = e]
    BY <1>1
  <2> HIDE DEF e
  <2> QED
    BY <2>1, <2>2, <2>3, ExceptType
<1>6. pdo_map' \in Seq(PdoMap)
  <2> DEFINE e == [pdo_map[cur] EXCEPT !.rx = domain]
  <2>1. pdo_map \in Seq(PdoMap)
    BY DEF ListsOK
  <2>2. ASSUME cur \in DOMAIN pdo_map PROVE e \in PdoMap
    <3>1. pdo_map[cur] \in PdoMap
      BY <2>1, <2>2, ElementOfSeq
    <3> QED
      BY <1>4, <3>1, RecordTypes
  <2>3. pdo_map' = [pdo_map EXCEPT ![cur] = e]
    BY <1>2
  <2> HIDE DEF e
  <2> QED
    BY <2>1, <2>2, <2>3, ExceptType
<1>7. LocalsOK' /\ ListsOK' /\ ConvertListsOK'
  BY <1>2, <1>5, <1>6 DEF LocalsOK, ListsOK, ConvertListsOK
<1>8. Indexed'
  BY <1>2, <1>5 DEF Indexed, Initing
<1> QED
  BY <1>7, <1>8

LEMMA TxPdosStep ==
  ASSUME IInv, TxPdos
  PROVE  LocalsOK' /\ ListsOK' /\ ConvertListsOK' /\ Indexed'
<1> USE DEF IInv, TypeOK
<1>1. PICK k \in 1..S.tx :
        domain_list' = [domain_list EXCEPT ![domain].input_count = @ + k]
  BY DEF TxPdos
<1>2. /\ UNCHANGED <<cur, master, domain, blocks, slave_list, master_list,
                     convert_list, sdo_head, domain_ptrs>>
      /\ pdo_map' = [pdo_map EXCEPT ![cur].tx = domain]
      /\ pc = "tx_pdos" /\ pc' \in {"sdo_req", "failed"}
  BY DEF TxPdos, locals
<1>3. k \in Nat
  BY CurrentSlave, <1>2 DEF Initing
<1>4. domain \in DOMAIN domain_list /\ domain \in Nat
  BY <1>2 DEF Indexed, ListsOK
<1>5. domain_list' \in Seq(Domain) /\ DOMAIN domain_list' = DOMAIN domain_list
  <2> DEFINE e == [domain_list[domain] EXCEPT !.input_count = @ + k]
  <2>1. domain_list \in Seq(Domain) /\ domain_list[domain] \in Domain
    BY <1>4, ElementOfSeq DEF ListsOK
  <2>2. e \in Domain
    BY <1>3, <2>1, RecordTypes
  <2>3. domain_list' = [domain_list EXCEPT ![domain] = e]
    BY <1>1
  <2> HIDE DEF e
  <2> QED
    BY <2>1, <2>2, <2>3, ExceptType
<1>6. pdo_map' \in Seq(PdoMap)
  <2> DEFINE e == [pdo_map[cur] EXCEPT !.tx = domain]
  <2>1. pdo_map \in Seq(PdoMap)
    BY DEF ListsOK
  <2>2. ASSUME cur \in DOMAIN pdo_map PROVE e \in PdoMap
    <3>1. pdo_map[cur] \in PdoMap
      BY <2>1, <2>2, ElementOfSeq
    <3> QED
      BY <1>4, <3>1, RecordTypes
  <2>3. pdo_map' = [pdo_map EXCEPT ![cur] = e]
    BY <1>2
  <2> HIDE DEF e
  <2> QED
    BY <2>1, <2>2, <2>3, ExceptType
<1>7. LocalsOK' /\ ListsOK' /\ ConvertListsOK'
  BY <1>2, <1>5, <1>6 DEF LocalsOK, ListsOK, ConvertListsOK
<1>8. Indexed'
  BY <1>2, <1>5 DEF Indexed, Initing
<1> QED
  BY <1>7, <1>8

LEMMA SdoRequestsStep ==
  ASSUME IInv, SdoRequests
  PROVE  LocalsOK' /\ ListsOK' /\ ConvertListsOK' /\ Indexed'
<1> USE DEF IInv, TypeOK
<1>1. sdo_head \in Seq(SdoRequest) /\ cur \in Nat
  BY DEF ListsOK, LocalsOK
<1>2. sdo_head' \in Seq(SdoRequest)
  <2>0. PICK made : sdo_head' = [k \in DOMAIN sdo_head |->
          IF OfSlave(sdo_head[k], S) THEN Asked(sdo_head[k], k \in made)
                                     ELSE sdo_head[k]]
    BY DEF SdoRequests
  <2> DEFINE e(k) == IF OfSlave(sdo_head[k], S)
                     THEN Asked(sdo_head[k], k \in made) ELSE sdo_head[k]
  <2>1. ASSUME NEW k \in DOMAIN sdo_head PROVE e(k) \in SdoRequest
    <3>1. sdo_head[k] \in SdoRequest
      BY <1>1, <2>1, ElementOfSeq
    <3> QED
      BY <1>1, <3>1 DEF Asked, SdoRequest, Null
  <2>2. sdo_head' = [k \in 1..Len(sdo_head) |-> e(k)]
    BY <1>1, <2>0
  <2>3. Len(sdo_head) \in Nat /\ DOMAIN sdo_head = 1..Len(sdo_head)
    BY <1>1
  <2> HIDE DEF e
  <2> QED
    BY <2>1, <2>2, <2>3, IsASeq
<1>3. \/ cur < Len(slave_list) /\ cur' = cur + 1 /\ pc' = "get_master"
      \/ cur' = 1 /\ pc' = "activate"
  BY DEF SdoRequests
<1>4. cur < Len(slave_list) => cur + 1 \in DOMAIN slave_list
  BY <1>1 DEF ListsOK
<1>5. LocalsOK' /\ ListsOK' /\ ConvertListsOK'
  BY <1>1, <1>2, <1>3 DEF LocalsOK, ListsOK, ConvertListsOK, SdoRequests
<1>6. Indexed'
  BY <1>3, <1>4, NoneActive DEF Indexed, Initing, SdoRequests
<1> QED
  BY <1>5, <1>6

(* ecs_start(): the conversion lists.                                      *)
LEMMA AllocatedType ==
  ASSUME NEW d \in Domain PROVE Allocated(d) \in Domain
<1>1. ASSUME NEW c \in Domain, NEW n \in Nat
      PROVE  /\ [c EXCEPT !.output_base = n] \in Domain
             /\ [c EXCEPT !.input_count = n] \in Domain
             /\ [c EXCEPT !.output_count = n] \in Domain
  BY DEF Domain
<1> DEFINE n == d.input_count + 1
           c1 == [d EXCEPT !.output_base = n]
           c2 == [c1 EXCEPT !.input_count = 0]
<1>2. n \in Nat
  BY DEF Domain
<1>3. c1 \in Domain
  BY <1>1, <1>2
<1>4. c2 \in Domain
  BY <1>1, <1>3
<1>5. Allocated(d) = [c2 EXCEPT !.output_count = 0]
  BY DEF Allocated
<1> QED
  BY <1>1, <1>4, <1>5

LEMMA ActivateStep ==
  ASSUME IInv, Activate
  PROVE  LocalsOK' /\ ListsOK' /\ ConvertListsOK' /\ Indexed'
<1> USE DEF IInv, TypeOK
<1>1. CASE /\ pc' = "failed"
           /\ UNCHANGED <<cur, master_list, domain_list, convert_list>>
  BY <1>1 DEF Activate, LocalsOK, ListsOK, ConvertListsOK, Indexed, Initing
<1>2. CASE pc' # "failed"
  <2>1. /\ master_list' = [master_list EXCEPT ![cur].active = TRUE]
        /\ domain_list' = [d \in DOMAIN domain_list |->
             IF domain_list[d].master = cur THEN Allocated(domain_list[d])
                                            ELSE domain_list[d]]
        /\ convert_list' =
             [d \in {k \in DOMAIN domain_list : domain_list[k].master <= cur} |->
                IF domain_list[d].master = cur THEN EmptyList(domain_list[d])
                                               ELSE convert_list[d]]
    BY <1>2 DEF Activate
  <2>2. \/ cur' = cur + 1 /\ UNCHANGED pc
        \/ cur' = 1 /\ (pc' = "running" \/ (pc' = "fill_rx" /\ slave_list # <<>>))
    BY <1>2 DEF Activate
  <2>3. master_list' \in Seq(Master)
    <3> DEFINE e == [master_list[cur] EXCEPT !.active = TRUE]
    <3>1. master_list \in Seq(Master)
      BY DEF ListsOK
    <3>2. ASSUME cur \in DOMAIN master_list PROVE e \in Master
      <4>1. master_list[cur] \in Master
        BY <3>1, <3>2, ElementOfSeq
      <4> QED
        BY <4>1 DEF Master
    <3>3. master_list' = [master_list EXCEPT ![cur] = e]
      BY <2>1
    <3> HIDE DEF e
    <3> QED
      BY <3>1, <3>2, <3>3, ExceptType
  <2>4. domain_list' \in Seq(Domain) /\ DOMAIN domain_list' = DOMAIN domain_list
    <3> DEFINE e(d) == IF domain_list[d].master = cur
                       THEN Allocated(domain_list[d]) ELSE domain_list[d]
    <3>1. domain_list \in Seq(Domain)
      BY DEF ListsOK
    <3>2. ASSUME NEW d \in DOMAIN domain_list PROVE domain_list[d] \in Domain
      BY <3>1, <3>2, ElementOfSeq
    <3>3. ASSUME NEW d \in DOMAIN domain_list PROVE e(d) \in Domain
      BY <3>2, AllocatedType
    <3>4. Len(domain_list) \in Nat /\ DOMAIN domain_list = 1..Len(domain_list)
      BY <3>1
    <3>5. domain_list' = [d \in 1..Len(domain_list) |-> e(d)]
      BY <2>1, <3>4
    <3> HIDE DEF e
    <3> QED
      BY <3>3, <3>4, <3>5, IsASeq
  <2>5. ListsOK'
    BY <2>3, <2>4 DEF ListsOK, Activate
  <2>6. LocalsOK'
    BY <2>2 DEF LocalsOK, Activate
  <2>7. ConvertListsOK'
    <3>1. NoCopy \in Convert
      BY DEF NoCopy, Convert
    <3>2. \A d \in Domain : EmptyList(d) \in [DOMAIN EmptyList(d) -> Convert]
      BY <3>1 DEF EmptyList
    <3>3. \A d \in DOMAIN domain_list : domain_list[d] \in Domain
      BY ElementOfSeq DEF ListsOK
    <3>4. ASSUME NEW d \in DOMAIN convert_list'
          PROVE  convert_list'[d] \in [DOMAIN convert_list'[d] -> Convert]
      <4>1. CASE domain_list[d].master = cur
        BY <2>1, <3>2, <3>3, <3>4, <4>1
      <4>2. CASE domain_list[d].master # cur
        <5>1. convert_list'[d] = convert_list[d]
          BY <2>1, <3>4, <4>2
        <5>2. d \in DOMAIN domain_list /\ domain_list[d].master < cur
          BY <2>1, <3>3, <3>4, <4>2 DEF Domain, LocalsOK
        <5>3. d \in DOMAIN convert_list
          BY <5>2 DEF Indexed, Activate
        <5> QED
          BY <5>1, <5>3 DEF ConvertListsOK
      <4> QED
        BY <4>1, <4>2
    <3> QED
      BY <3>4 DEF ConvertListsOK
  <2>8. slave_list # <<>> => 1 \in DOMAIN slave_list
    BY DEF ListsOK
  <2>9. DOMAIN convert_list' \subseteq DOMAIN domain_list'
    BY <2>1
  <2>10. ASSUME cur' = cur + 1, NEW d \in DOMAIN domain_list',
                domain_list'[d].master < cur'
         PROVE  d \in DOMAIN convert_list'
    <3>1. d \in DOMAIN domain_list /\ domain_list[d] \in Domain
      BY <2>4, <2>10, ElementOfSeq DEF ListsOK
    <3>2. domain_list'[d].master = domain_list[d].master
      BY <2>1, <3>1 DEF Allocated, Domain
    <3>3. domain_list[d].master <= cur
      BY <2>10, <3>1, <3>2 DEF Domain, LocalsOK
    <3> QED
      BY <2>1, <3>1, <3>3
  <2>11. Indexed'
    BY <2>2, <2>8, <2>9, <2>10 DEF Indexed, Initing, Activate
  <2> QED
    BY <2>5, <2>6, <2>7, <2>11
<1> QED
  BY <1>1, <1>2 DEF Activate

\* A fill loop writes conversions into the list of a domain.
LEMMA FilledType ==
  ASSUME cur \in Nat, NEW list, list \in [DOMAIN list -> Convert],
         NEW from \in Nat, NEW n \in Nat, NEW dir \in {"rx", "tx"}
  PROVE  Filled(list, from, n, dir) \in
           [DOMAIN Filled(list, from, n, dir) -> Convert]
<1>1. ASSUME NEW k \in from..(from + n - 1)
      PROVE  [slave |-> cur, dir |-> dir, entry |-> k - from + 1] \in Convert
  BY DEF Convert
<1> QED
  BY <1>1 DEF Filled

LEMMA FillRxStep ==
  ASSUME IInv, FillRx
  PROVE  LocalsOK' /\ ListsOK' /\ ConvertListsOK' /\ Indexed'
<1> DEFINE d == pdo_map[cur].rx
           from == domain_list[d].output_base + domain_list[d].output_count
<1>0. LocalsOK /\ ListsOK /\ ConvertListsOK /\ Indexed
  BY DEF IInv, TypeOK
<1>1. /\ pc = "fill_rx" /\ pc' = "fill_tx"
      /\ UNCHANGED <<cur, master, domain, blocks, slave_list, master_list,
                     pdo_map, sdo_head, domain_ptrs>>
  BY DEF FillRx, locals
<1>2. S.rx \in Nat /\ cur \in Nat
  BY <1>0, <1>1, CurrentSlave DEF LocalsOK
<1>3. CASE UNCHANGED <<domain_list, convert_list>>
  BY <1>0, <1>1, <1>3 DEF LocalsOK, ListsOK, ConvertListsOK, Indexed, Initing
<1>4. CASE /\ domain_list' = [domain_list EXCEPT ![d].output_count = @ + S.rx]
           /\ convert_list' = [convert_list EXCEPT ![d] =
                Filled(@, from, S.rx, "rx")]
  <2>1. domain_list \in Seq(Domain)
    BY <1>0 DEF ListsOK
  <2>2. ASSUME d \in DOMAIN domain_list
        PROVE  domain_list[d] \in Domain /\ from \in Nat
    <3>1. domain_list[d] \in Domain
      BY <2>1, <2>2, ElementOfSeq
    <3> QED
      BY <3>1 DEF Domain
  <2>3. domain_list' \in Seq(Domain) /\ DOMAIN domain_list' = DOMAIN domain_list
    <3> DEFINE e == [domain_list[d] EXCEPT !.output_count = @ + S.rx]
    <3>1. d \in DOMAIN domain_list => e \in Domain
      BY <1>2, <2>2, RecordTypes
    <3>2. domain_list' = [domain_list EXCEPT ![d] = e]
      BY <1>4
    <3> HIDE DEF d, e
    <3> QED
      BY <2>1, <3>1, <3>2, ExceptType
  <2>4. ASSUME NEW k \in DOMAIN convert_list'
        PROVE  convert_list'[k] \in [DOMAIN convert_list'[k] -> Convert]
    <3>1. k \in DOMAIN convert_list /\ k \in DOMAIN domain_list
      BY <1>0, <1>4 DEF Indexed
    <3>2. CASE k = d
      <4>1. convert_list'[k] = Filled(convert_list[k], from, S.rx, "rx")
        BY <1>4, <3>1, <3>2
      <4>2. convert_list[k] \in [DOMAIN convert_list[k] -> Convert]
        BY <1>0, <3>1 DEF ConvertListsOK
      <4>3. from \in Nat
        BY <2>2, <3>1, <3>2
      <4> HIDE DEF d, from
      <4> QED
        BY <1>2, <4>1, <4>2, <4>3, FilledType
    <3>3. CASE k # d
      <4>1. convert_list'[k] = convert_list[k]
        BY <1>4, <3>1, <3>3
      <4> QED
        BY <1>0, <3>1, <4>1 DEF ConvertListsOK
    <3> QED
      BY <3>2, <3>3
  <2>5. LocalsOK' /\ ListsOK' /\ ConvertListsOK'
    BY <1>0, <1>1, <2>3, <2>4 DEF LocalsOK, ListsOK, ConvertListsOK
  <2>6. DOMAIN convert_list' = DOMAIN convert_list
    BY <1>4
  <2>7. Indexed'
    BY <1>0, <1>1, <2>3, <2>6 DEF Indexed, Initing
  <2> QED
    BY <2>5, <2>7
<1> QED
  BY <1>3, <1>4 DEF FillRx

LEMMA FillTxStep ==
  ASSUME IInv, FillTx
  PROVE  LocalsOK' /\ ListsOK' /\ ConvertListsOK' /\ Indexed'
<1> DEFINE d == pdo_map[cur].tx
           from == domain_list[d].input_count
<1>0. LocalsOK /\ ListsOK /\ ConvertListsOK /\ Indexed
  BY DEF IInv, TypeOK
<1>1. /\ pc = "fill_tx"
      /\ \/ cur < Len(slave_list) /\ cur' = cur + 1 /\ pc' = "fill_rx"
         \/ cur' = cur /\ pc' = "running"
      /\ UNCHANGED <<master, domain, blocks, slave_list, master_list,
                     pdo_map, sdo_head, domain_ptrs>>
  BY DEF FillTx
<1>2. S.tx \in Nat /\ cur \in Nat
  BY <1>0, <1>1, CurrentSlave DEF LocalsOK
<1>3. cur < Len(slave_list) => cur + 1 \in DOMAIN slave_list
  BY <1>0, <1>2 DEF ListsOK
<1>4. LocalsOK'
  BY <1>0, <1>1 DEF LocalsOK
<1>5. CASE UNCHANGED <<domain_list, convert_list>>
  <2>1. ListsOK' /\ ConvertListsOK'
    BY <1>0, <1>1, <1>5 DEF ListsOK, ConvertListsOK
  <2>2. Indexed'
    BY <1>0, <1>1, <1>3, <1>5 DEF Indexed, Initing
  <2> QED
    BY <1>4, <2>1, <2>2
<1>6. CASE /\ domain_list' = [domain_list EXCEPT ![d].input_count = @ + S.tx]
           /\ convert_list' = [convert_list EXCEPT ![d] =
                Filled(@, from, S.tx, "tx")]
  <2>1. domain_list \in Seq(Domain)
    BY <1>0 DEF ListsOK
  <2>2. ASSUME d \in DOMAIN domain_list
        PROVE  domain_list[d] \in Domain /\ from \in Nat
    <3>1. domain_list[d] \in Domain
      BY <2>1, <2>2, ElementOfSeq
    <3> QED
      BY <3>1 DEF Domain
  <2>3. domain_list' \in Seq(Domain) /\ DOMAIN domain_list' = DOMAIN domain_list
    <3> DEFINE e == [domain_list[d] EXCEPT !.input_count = @ + S.tx]
    <3>1. d \in DOMAIN domain_list => e \in Domain
      BY <1>2, <2>2, RecordTypes
    <3>2. domain_list' = [domain_list EXCEPT ![d] = e]
      BY <1>6
    <3> HIDE DEF d, e
    <3> QED
      BY <2>1, <3>1, <3>2, ExceptType
  <2>4. ASSUME NEW k \in DOMAIN convert_list'
        PROVE  convert_list'[k] \in [DOMAIN convert_list'[k] -> Convert]
    <3>1. k \in DOMAIN convert_list /\ k \in DOMAIN domain_list
      BY <1>0, <1>6 DEF Indexed
    <3>2. CASE k = d
      <4>1. convert_list'[k] = Filled(convert_list[k], from, S.tx, "tx")
        BY <1>6, <3>1, <3>2
      <4>2. convert_list[k] \in [DOMAIN convert_list[k] -> Convert]
        BY <1>0, <3>1 DEF ConvertListsOK
      <4>3. from \in Nat
        BY <2>2, <3>1, <3>2
      <4> HIDE DEF d, from
      <4> QED
        BY <1>2, <4>1, <4>2, <4>3, FilledType
    <3>3. CASE k # d
      <4>1. convert_list'[k] = convert_list[k]
        BY <1>6, <3>1, <3>3
      <4> QED
        BY <1>0, <3>1, <4>1 DEF ConvertListsOK
    <3> QED
      BY <3>2, <3>3
  <2>5. ListsOK' /\ ConvertListsOK'
    BY <1>1, <1>0, <2>3, <2>4 DEF ListsOK, ConvertListsOK
  <2>6. DOMAIN convert_list' = DOMAIN convert_list
    BY <1>6
  <2>7. Indexed'
    BY <1>0, <1>1, <1>3, <2>3, <2>6 DEF Indexed, Initing
  <2> QED
    BY <1>4, <2>5, <2>7
<1> QED
  BY <1>5, <1>6 DEF FillTx

LEMMA StutterStep ==
  ASSUME IInv, UNCHANGED vars
  PROVE  LocalsOK' /\ ListsOK' /\ ConvertListsOK' /\ Indexed'
<1> USE DEF IInv, TypeOK, vars
<1>1. LocalsOK' /\ ListsOK' /\ ConvertListsOK'
  BY DEF LocalsOK, ListsOK, ConvertListsOK
<1>2. Indexed'
  BY DEF Indexed
<1> QED
  BY <1>1, <1>2

LEMMA NextIInv == IInv /\ [Next]_vars => IInv'
<1> SUFFICES ASSUME IInv, [Next]_vars PROVE IInv'
  OBVIOUS
<1>1. PcOK'
  <2>1. PcOK
    BY DEF IInv, TypeOK
  <2> QED
    BY <2>1, StepPc DEF PcOK, vars
<1>2. LocalsOK' /\ ListsOK' /\ ConvertListsOK' /\ Indexed'
  <2>1. CASE BlockStart
    BY <2>1, SlaveStartStep, MasterStateStartStep, DomainStateStartStep,
       SdoHandlerStep, DomainStateSecondStep DEF BlockStart
  <2>2. CASE EcsStart
    BY <2>2, EcsStartStep
  <2>3. CASE InitSlave
    <3>1. CASE RxDomain
      BY <3>1, InitSlaveDomainStep DEF RxDomain
    <3>2. CASE TxDomain
      BY <3>2, InitSlaveDomainStep DEF TxDomain
    <3> QED
      BY <2>3, <3>1, <3>2, InitSlaveMasterStep, InitSlaveConfigStep, RxPdosStep,
         TxPdosStep, SdoRequestsStep DEF InitSlave
  <2>4. CASE Activate
    BY <2>4, ActivateStep
  <2>5. CASE FillRx
    BY <2>5, FillRxStep
  <2>6. CASE FillTx
    BY <2>6, FillTxStep
  <2>7. CASE Finished \/ UNCHANGED vars
    BY <2>7, StutterStep DEF Finished
  <2> QED
    BY <2>1, <2>2, <2>3, <2>4, <2>5, <2>6, <2>7 DEF Next
<1> QED
  BY <1>1, <1>2 DEF IInv, TypeOK

(* At every moment of MdlStart the variables have their types, and the     *)
(* loops of ecs_start() stand on slaves, masters and domains in the lists. *)
THEOREM Invariance == Spec => []IInv
<1> QED
  BY InitIInv, NextIInv, PTL DEF Spec

\* Every variable keeps the type of its C declaration, and (Indexed) the
\* loops of ecs_start() and the locals of init_slave() only ever name slaves,
\* masters and domains that are in their lists.
THEOREM TypeCorrect == Spec => []TypeOK
<1>1. IInv => TypeOK
  BY DEF IInv
<1> QED
  BY <1>1, Invariance, PTL

-----------------------------------------------------------------------------
(* No failed request reaches the cyclic code, and every master is served   *)
(* by the fastest of its users.                                            *)

AllHandles ==
  /\ \A i \in DOMAIN master_list : master_list[i].handle
  /\ \A d \in DOMAIN domain_list : domain_list[d].handle

(* While MdlStart goes on, every handle in the lists is good, but for the  *)
(* moment between the two pointers of a Domain State block.                *)
HandlesInv ==
  \/ pc \in {"failed", "nullHandle"}
  \/ AllHandles
  \/ pc = "secondPtr" /\ domain_ptrs[Len(domain_ptrs)].ptr = Null

-----------------------------------------------------------------------------
(* The helpers: a good list stays good, or the caller learns of it.        *)

LEMMA AppendElements ==
  ASSUME NEW R, NEW s \in Seq(R), NEW e
  PROVE  \A k \in DOMAIN Append(s, e) :
           \/ k \in DOMAIN s /\ Append(s, e)[k] = s[k]
           \/ k = Len(s) + 1 /\ Append(s, e)[k] = e
OBVIOUS

LEMMA GetMasterHandles ==
  ASSUME master_list \in Seq(Master), NEW id, NEW tid, NEW i,
         GetMaster(id, tid, i),
         \A k \in DOMAIN master_list : master_list[k].handle
  PROVE  i = Null \/ \A k \in DOMAIN master_list' : master_list'[k].handle
<1>1. CASE master_list' = [master_list EXCEPT ![i].fastest_tid =
                             FasterTid(@, tid)]
  <2>1. ASSUME NEW k \in DOMAIN master_list PROVE master_list'[k].handle
    <3>1. master_list[k] \in Master
      BY ElementOfSeq
    <3>2. master_list'[k].handle = master_list[k].handle
      BY <1>1, <3>1 DEF Master
    <3> QED
      BY <3>2
  <2>2. DOMAIN master_list' = DOMAIN master_list
    BY <1>1
  <2> QED
    BY <2>1, <2>2
<1>2. ASSUME NEW ok \in BOOLEAN, i # Null,
             master_list' = Append(master_list, NewMaster(id, tid, ok)),
             i = IF ok THEN Len(master_list) + 1 ELSE Null
      PROVE  \A k \in DOMAIN master_list' : master_list'[k].handle
  <2>1. ok
    BY <1>2
  <2>2. NewMaster(id, tid, ok).handle
    BY <2>1 DEF NewMaster
  <2> QED
    BY <1>2, <2>2, AppendElements
<1> QED
  BY <1>1, <1>2 DEF GetMaster

LEMMA GetDomainHandles ==
  ASSUME domain_list \in Seq(Domain), NEW m, NEW id, NEW in \in BOOLEAN,
         NEW out \in BOOLEAN, NEW tid, NEW d, GetDomain(m, id, in, out, tid, d),
         \A k \in DOMAIN domain_list : domain_list[k].handle
  PROVE  \/ d \in {Null, Crash}
         \/ \A k \in DOMAIN domain_list' : domain_list'[k].handle
<1>1. CASE domain_list' = [domain_list EXCEPT ![d].input = @ \/ in,
                                              ![d].output = @ \/ out]
  <2>1. ASSUME NEW k \in DOMAIN domain_list PROVE domain_list'[k].handle
    <3>1. domain_list[k] \in Domain
      BY ElementOfSeq
    <3>2. domain_list'[k].handle = domain_list[k].handle
      BY <1>1, <3>1 DEF Domain
    <3> QED
      BY <3>2
  <2>2. DOMAIN domain_list' = DOMAIN domain_list
    BY <1>1
  <2> QED
    BY <2>1, <2>2
<1>2. ASSUME NEW ok \in BOOLEAN, d \notin {Null, Crash},
             domain_list' = Append(domain_list,
                                   NewDomain(m, id, tid, in, out, ok)),
             d = CASE ~master_list'[m].handle -> Crash
                   [] ok                      -> Len(domain_list) + 1
                   [] OTHER                   -> Null
      PROVE  \A k \in DOMAIN domain_list' : domain_list'[k].handle
  <2>1. ok
    BY <1>2
  <2>2. NewDomain(m, id, tid, in, out, ok).handle
    BY <2>1 DEF NewDomain
  <2> QED
    BY <1>2, <2>2, AppendElements
<1> QED
  BY <1>1, <1>2 DEF GetDomain

LEMMA GetDomainPtrHandles ==
  ASSUME ListsOK, AllHandles, NEW id, NEW dom, NEW in \in BOOLEAN,
         NEW out \in BOOLEAN, NEW tid, NEW p,
         GetDomainPtr(id, dom, in, out, tid, p)
  PROVE  p \in {Null, Crash} \/ AllHandles'
<1>1. PICK i \in MasterResults :
        /\ GetMaster(id, tid, i)
        /\ \/ i = Null /\ p = Null /\ UNCHANGED domain_list
           \/ i # Null /\ \E d \in DomainResults :
                /\ GetDomain(i, dom, in, out, tid, d)
                /\ p = IF d > 0 /\ ~domain_list'[d].handle THEN Null ELSE d
  BY DEF GetDomainPtr
<1>2. i = Null \/ \A k \in DOMAIN master_list' : master_list'[k].handle
  BY <1>1, GetMasterHandles DEF ListsOK, AllHandles
<1>3. ASSUME NEW d, GetDomain(i, dom, in, out, tid, d)
      PROVE  \/ d \in {Null, Crash}
             \/ \A k \in DOMAIN domain_list' : domain_list'[k].handle
  BY <1>3, GetDomainHandles DEF ListsOK, AllHandles
<1> QED
  BY <1>1, <1>2, <1>3 DEF AllHandles

\* Lists that differ in other fields only.
LEMMA SameHandles ==
  ASSUME AllHandles,
         DOMAIN master_list' = DOMAIN master_list,
         DOMAIN domain_list' = DOMAIN domain_list,
         \A i \in DOMAIN master_list :
           master_list'[i].handle = master_list[i].handle,
         \A d \in DOMAIN domain_list :
           domain_list'[d].handle = domain_list[d].handle
  PROVE  AllHandles'
BY DEF AllHandles

\* The list elements have their types.
LEMMA ElementTypes ==
  ASSUME ListsOK
  PROVE  /\ \A i \in DOMAIN master_list : master_list[i] \in Master
         /\ \A d \in DOMAIN domain_list : domain_list[d] \in Domain
BY ElementOfSeq DEF ListsOK

-----------------------------------------------------------------------------
(* The steps.                                                              *)

LEMMA BlockStartHandles ==
  ASSUME IInv, HandlesInv, BlockStart
  PROVE  HandlesInv'
<1>0. ListsOK
  BY DEF IInv, TypeOK
<1>1. ASSUME pc = "mdlStart" PROVE AllHandles
  BY <1>1 DEF HandlesInv
<1>2. ASSUME NEW s \in Slave, SlaveStart(s) PROVE HandlesInv'
  BY <1>1, <1>2 DEF SlaveStart, HandlesInv, AllHandles
<1>3. ASSUME NEW id \in MasterIds, NEW dec \in 0..1, MasterStateStart(id, dec)
      PROVE  HandlesInv'
  <2>0. AllHandles /\ UNCHANGED domain_list
    BY <1>1, <1>3 DEF MasterStateStart
  <2>1. ASSUME NEW i \in DOMAIN master_list,
               master_list' = [master_list EXCEPT
                  ![i].refclk_trigger_init = dec, ![i].refclk_trigger = 1]
        PROVE  AllHandles'
    <3>1. DOMAIN master_list' = DOMAIN master_list
      BY <2>1
    <3>2. \A k \in DOMAIN master_list :
            master_list'[k].handle = master_list[k].handle
      BY <1>0, <2>1, ElementTypes DEF Master
    <3> QED
      BY <2>0, <3>1, <3>2, SameHandles
  <2>2. ASSUME master_list' = Append(master_list,
                 [NewMaster(id, NoTid, TRUE) EXCEPT
                    !.refclk_trigger_init = dec, !.refclk_trigger = 1])
        PROVE  AllHandles'
    <3> DEFINE e == [NewMaster(id, NoTid, TRUE) EXCEPT
                       !.refclk_trigger_init = dec, !.refclk_trigger = 1]
    <3>1. e.handle
      BY DEF NewMaster
    <3>2. master_list \in Seq(Master)
      BY <1>0 DEF ListsOK
    <3> HIDE DEF e
    <3>3. master_list' = Append(master_list, e)
      BY <2>2 DEF e
    <3>4. \A k \in DOMAIN master_list' :
            \/ k \in DOMAIN master_list /\ master_list'[k] = master_list[k]
            \/ master_list'[k] = e
      BY <3>2, <3>3, AppendElements
    <3> QED
      BY <2>0, <3>1, <3>4 DEF AllHandles
  <2>3. \/ pc' = "failed"
        \/ \E i \in DOMAIN master_list :
             master_list' = [master_list EXCEPT
                ![i].refclk_trigger_init = dec, ![i].refclk_trigger = 1]
        \/ master_list' = Append(master_list,
             [NewMaster(id, NoTid, TRUE) EXCEPT
                !.refclk_trigger_init = dec, !.refclk_trigger = 1])
    BY <1>3 DEF MasterStateStart
  <2> QED
    BY <2>1, <2>2, <2>3 DEF HandlesInv
<1>4. ASSUME NEW id \in MasterIds, NEW dom \in DomainIds, NEW tid \in Tids,
             NEW mode \in Modes, DomainStateStart(id, dom, tid, mode)
      PROVE  HandlesInv'
  <2> DEFINE in == mode # "out"
             out == mode \in {"io", "out"}
  <2>1. PICK p \in DomainResults :
          /\ GetDomainPtr(id, dom, in, out, tid, p)
          /\ domain_ptrs' = Append(domain_ptrs, Pointer(id, dom, tid, in, out, p))
          /\ pc' = IF mode = "inout" /\ p # Crash THEN "secondPtr"
                   ELSE AfterPtr(p, "mdlStart")
    BY <1>4 DEF DomainStateStart
  <2>2. AllHandles
    BY <1>1, <1>4 DEF DomainStateStart
  <2>3. in \in BOOLEAN /\ out \in BOOLEAN
    OBVIOUS
  <2> HIDE DEF in, out
  <2>4. p \in {Null, Crash} \/ AllHandles'
    BY <1>0, <2>1, <2>2, <2>3, GetDomainPtrHandles
  <2>5. CASE p = Null /\ pc' = "secondPtr"
    <3> DEFINE e == Pointer(id, dom, tid, in, out, p)
    <3>1. e.ptr = Null
      BY <2>5 DEF Pointer
    <3>2. domain_ptrs \in Seq(DomainPtr)
      BY <1>0 DEF ListsOK
    <3> HIDE DEF e
    <3>3. domain_ptrs' = Append(domain_ptrs, e)
      BY <2>1 DEF e
    <3>4. domain_ptrs'[Len(domain_ptrs')] = e
      BY <3>2, <3>3
    <3> QED
      BY <2>5, <3>1, <3>4 DEF HandlesInv
  <2>6. CASE p \in {Null, Crash} /\ pc' # "secondPtr"
    BY <2>1, <2>6 DEF HandlesInv, AfterPtr, Null, Crash
  <2>7. p = Crash => pc' # "secondPtr"
    BY <2>1 DEF AfterPtr
  <2> QED
    BY <2>4, <2>5, <2>6, <2>7 DEF HandlesInv
<1>5. ASSUME NEW id \in MasterIds, NEW q \in Positions, SdoHandler(id, q)
      PROVE  HandlesInv'
  BY <1>1, <1>5 DEF SdoHandler, HandlesInv, AllHandles
<1>6. ASSUME DomainStateSecond PROVE HandlesInv'
  <2> DEFINE b == domain_ptrs[Len(domain_ptrs)]
  <2>1. PICK p \in DomainResults :
          /\ GetDomainPtr(b.master, b.domain, FALSE, TRUE, b.tid, p)
          /\ pc' = IF p # Crash /\ b.ptr = Null THEN "failed"
                   ELSE AfterPtr(p, "mdlStart")
    BY <1>6 DEF DomainStateSecond
  <2>2. b.ptr = Null \/ AllHandles
    BY <1>6 DEF DomainStateSecond, HandlesInv
  <2> HIDE DEF b
  <2>3. AllHandles => p \in {Null, Crash} \/ AllHandles'
    BY <1>0, <2>1, GetDomainPtrHandles
  <2>4. (b.ptr = Null \/ p \in {Null, Crash}) => pc' \in {"failed", "nullHandle"}
    BY <2>1 DEF AfterPtr, Null, Crash
  <2> QED
    BY <2>2, <2>3, <2>4 DEF HandlesInv
<1> QED
  BY <1>2, <1>3, <1>4, <1>5, <1>6 DEF BlockStart, SlaveStart

LEMMA InitSlaveHandles ==
  ASSUME IInv, HandlesInv, InitSlave
  PROVE  HandlesInv'
<1>0. ListsOK
  BY DEF IInv, TypeOK
<1>1. ASSUME pc \in Initing PROVE AllHandles
  BY <1>1 DEF HandlesInv, Initing
<1>2. CASE InitSlaveMaster
  <2>1. PICK i \in MasterResults :
          /\ GetMaster(S.master, S.tid, i)
          /\ pc' = IF i = Null THEN "failed" ELSE "config"
    BY <1>2 DEF InitSlaveMaster
  <2>2. AllHandles /\ UNCHANGED domain_list
    BY <1>1, <1>2 DEF InitSlaveMaster, Initing
  <2>3. i = Null \/ \A k \in DOMAIN master_list' : master_list'[k].handle
    BY <1>0, <2>1, <2>2, GetMasterHandles DEF ListsOK, AllHandles
  <2> QED
    BY <2>1, <2>2, <2>3 DEF HandlesInv, AllHandles
<1>3. CASE InitSlaveConfig
  BY <1>1, <1>3 DEF InitSlaveConfig, Initing, HandlesInv, AllHandles
<1>4. ASSUME NEW here \in {"rx_domain", "tx_domain"}, NEW n,
             NEW in \in BOOLEAN, NEW out \in BOOLEAN, NEW found, NEW none,
             InitSlaveDomain(here, n, in, out, found, none)
      PROVE  HandlesInv'
  <2>1. AllHandles /\ UNCHANGED master_list
    BY <1>1, <1>4 DEF InitSlaveDomain, Initing
  <2>2. ASSUME NEW d \in DomainResults,
               GetDomain(master, S.domain, in, out, S.tid, d),
               pc' = AfterPtr(d, found)
        PROVE  HandlesInv'
    <3>1. \/ d \in {Null, Crash}
          \/ \A k \in DOMAIN domain_list' : domain_list'[k].handle
      BY <1>0, <2>1, <2>2, GetDomainHandles DEF ListsOK, AllHandles
    <3> QED
      BY <2>1, <2>2, <3>1 DEF HandlesInv, AllHandles, AfterPtr
  <2>3. CASE UNCHANGED domain_list
    BY <2>1, <2>3 DEF HandlesInv, AllHandles
  <2> QED
    BY <1>4, <2>2, <2>3 DEF InitSlaveDomain
<1>5. CASE RxPdos
  <2>1. PICK k \in 1..S.rx :
          domain_list' = [domain_list EXCEPT ![domain].output_count = @ + k]
    BY <1>5 DEF RxPdos
  <2>2. UNCHANGED master_list /\ AllHandles
    BY <1>1, <1>5 DEF RxPdos, Initing
  <2>3. \A d \in DOMAIN domain_list :
          domain_list'[d].handle = domain_list[d].handle
    BY <1>0, <2>1, ElementTypes DEF Domain
  <2> QED
    BY <2>1, <2>2, <2>3, SameHandles DEF HandlesInv
<1>6. CASE TxPdos
  <2>1. PICK k \in 1..S.tx :
          domain_list' = [domain_list EXCEPT ![domain].input_count = @ + k]
    BY <1>6 DEF TxPdos
  <2>2. UNCHANGED master_list /\ AllHandles
    BY <1>1, <1>6 DEF TxPdos, Initing
  <2>3. \A d \in DOMAIN domain_list :
          domain_list'[d].handle = domain_list[d].handle
    BY <1>0, <2>1, ElementTypes DEF Domain
  <2> QED
    BY <2>1, <2>2, <2>3, SameHandles DEF HandlesInv
<1>7. CASE SdoRequests
  BY <1>1, <1>7 DEF SdoRequests, Initing, HandlesInv, AllHandles
<1> QED
  BY <1>2, <1>3, <1>4, <1>5, <1>6, <1>7 DEF InitSlave, RxDomain, TxDomain

LEMMA StartedHandles ==
  ASSUME IInv, HandlesInv, Activate \/ FillRx \/ FillTx
  PROVE  HandlesInv'
<1>0. ListsOK
  BY DEF IInv, TypeOK
<1>1. AllHandles
  BY DEF HandlesInv, Activate, FillRx, FillTx
<1>2. CASE UNCHANGED <<master_list, domain_list>>
  BY <1>1, <1>2 DEF HandlesInv, AllHandles
<1>3. CASE Activate /\ pc' # "failed"
  <2>1. /\ master_list' = [master_list EXCEPT ![cur].active = TRUE]
        /\ domain_list' = [d \in DOMAIN domain_list |->
             IF domain_list[d].master = cur THEN Allocated(domain_list[d])
                                            ELSE domain_list[d]]
    BY <1>3 DEF Activate
  <2>2. \A i \in DOMAIN master_list :
          master_list'[i].handle = master_list[i].handle
    BY <1>0, <2>1, ElementTypes DEF Master
  <2>3. \A d \in Domain : Allocated(d).handle = d.handle
    BY DEF Allocated, Domain
  <2>4. \A d \in DOMAIN domain_list :
          domain_list'[d].handle = domain_list[d].handle
    BY <1>0, <2>1, <2>3, ElementTypes
  <2> QED
    BY <1>1, <2>1, <2>2, <2>4, SameHandles DEF HandlesInv
<1>4. ASSUME NEW d, NEW n,
             \/ domain_list' = [domain_list EXCEPT ![d].output_count = @ + n]
             \/ domain_list' = [domain_list EXCEPT ![d].input_count = @ + n],
             UNCHANGED master_list
      PROVE  HandlesInv'
  <2>1. \A k \in DOMAIN domain_list :
          domain_list'[k].handle = domain_list[k].handle
    BY <1>0, <1>4, ElementTypes DEF Domain
  <2> QED
    BY <1>1, <1>4, <2>1, SameHandles DEF HandlesInv
<1>5. CASE FillRx
  BY <1>2, <1>4, <1>5 DEF FillRx
<1>6. CASE FillTx
  BY <1>2, <1>4, <1>6 DEF FillTx
<1> QED
  BY <1>2, <1>3, <1>5, <1>6 DEF Activate

LEMMA HandlesStep == IInv /\ HandlesInv /\ [Next]_vars => HandlesInv'
<1> SUFFICES ASSUME IInv, HandlesInv, [Next]_vars PROVE HandlesInv'
  OBVIOUS
<1>1. CASE EcsStart
  BY <1>1 DEF EcsStart, HandlesInv, AllHandles
<1>2. CASE Finished \/ UNCHANGED vars
  BY <1>2 DEF Finished, vars, HandlesInv, AllHandles
<1> QED
  BY <1>1, <1>2, BlockStartHandles, InitSlaveHandles, StartedHandles DEF Next

\* Every master and domain that ecs_receive() and ecs_send() will use has its
\* handle, whichever requests failed and whatever blocks the diagram has.
THEOREM HandlesValidAlways == Spec => []HandlesValid
<1>1. Init => HandlesInv
  BY DEF Init, HandlesInv, AllHandles
<1>2. HandlesInv => HandlesValid
  BY DEF HandlesInv, HandlesValid, AllHandles, Started, Filling
<1> QED
  BY <1>1, <1>2, Invariance, HandlesStep, PTL DEF Spec
-----------------------------------------------------------------------------
(* The task that serves a master.                                          *)

\* ml serves the tasks U[id] of every master id: no master is listed twice,
\* each has the least task of its users, and none with a user is missing.
Serving(ml, U) ==
  /\ \A i, j \in DOMAIN ml : ml[i].id = ml[j].id => i = j
  /\ \A i \in DOMAIN ml :
       /\ \A u \in U[ml[i].id] : ml[i].fastest_tid <= u
       /\ ml[i].fastest_tid \in U[ml[i].id] \cup {NoTid}
  /\ \A id \in MasterIds : U[id] # {} => \E i \in DOMAIN ml : ml[i].id = id

\* init_slave() has taken up slave j; the tasks that use a master.
Taken(j) ==
  \/ pc \in Started
  \/ pc \in Initing /\ (j < cur \/ (j = cur /\ pc # "get_master"))

SlaveTids(id) ==
  {slave_list[k].tid : k \in {j \in DOMAIN slave_list :
                               slave_list[j].master = id /\ Taken(j)}}
PtrTids(id) ==
  {domain_ptrs[k].tid :
     k \in {j \in DOMAIN domain_ptrs : domain_ptrs[j].master = id}}

Table == [id \in MasterIds |-> SlaveTids(id) \cup PtrTids(id)]

Dead == {"failed", "nullHandle", "wildHead"}

FastestInv == pc \in Dead \/ Serving(master_list, Table)

\* get_master() adds one user, whether the request succeeds or not.
LEMMA GetMasterServes ==
  ASSUME master_list \in Seq(Master), NEW U \in [MasterIds -> SUBSET Tids],
         NEW id \in MasterIds, NEW tid \in Tids, NEW i,
         GetMaster(id, tid, i), Serving(master_list, U)
  PROVE  Serving(master_list', [U EXCEPT ![id] = @ \cup {tid}])
<1> DEFINE V == [U EXCEPT ![id] = @ \cup {tid}]
<1>1. /\ V[id] = U[id] \cup {tid}
      /\ \A o \in MasterIds : o # id => V[o] = U[o]
  OBVIOUS
<1>2. tid \in Nat /\ NoTid \in Nat /\ tid < NoTid
  BY ConstantsAssumption
<1>3. \A k \in DOMAIN master_list :
        /\ master_list[k] \in Master
        /\ master_list[k].id \in MasterIds
        /\ master_list[k].fastest_tid \in Nat
  <2>1. \A k \in DOMAIN master_list : master_list[k] \in Master
    BY ElementOfSeq
  <2>2. \A e \in Master : e.id \in MasterIds /\ e.fastest_tid \in Nat
    BY ConstantsAssumption DEF Master
  <2> QED
    BY <2>1, <2>2
<1>4. \A o \in MasterIds : \A u \in U[o] : u \in Nat
  BY ConstantsAssumption
<1> HIDE DEF V
<1>5. CASE /\ i \in DOMAIN master_list
           /\ master_list[i].id = id
           /\ master_list' = [master_list EXCEPT ![i].fastest_tid =
                                FasterTid(@, tid)]
  <2> DEFINE f == master_list[i].fastest_tid
  <2>1. /\ DOMAIN master_list' = DOMAIN master_list
        /\ \A k \in DOMAIN master_list : master_list'[k].id = master_list[k].id
        /\ \A k \in DOMAIN master_list : k # i =>
             master_list'[k] = master_list[k]
        /\ master_list'[i].fastest_tid = FasterTid(f, tid)
    BY <1>3, <1>5 DEF Master
  <2>2. \A k, l \in DOMAIN master_list' :
          master_list'[k].id = master_list'[l].id => k = l
    BY <2>1 DEF Serving
  <2>3. ASSUME NEW k \in DOMAIN master_list', k # i
        PROVE  /\ \A u \in V[master_list'[k].id] :
                    master_list'[k].fastest_tid <= u
               /\ master_list'[k].fastest_tid
                    \in V[master_list'[k].id] \cup {NoTid}
    <3>1. master_list[k].id # id
      BY <1>5, <2>1, <2>3 DEF Serving
    <3>2. V[master_list[k].id] = U[master_list[k].id]
      BY <1>1, <1>3, <2>1, <2>3, <3>1
    <3> QED
      BY <2>1, <2>3, <3>2 DEF Serving
  <2>4. \A u \in U[id] : f <= u
    BY <1>5 DEF Serving
  <2>5. f \in U[id] \cup {NoTid}
    BY <1>5 DEF Serving
  <2>6. f \in Nat
    BY <1>3, <1>5
  <2> HIDE DEF f
  <2>7. \A u \in V[id] : FasterTid(f, tid) <= u
    <3>1. \A u \in Nat : u = tid \/ f <= u => FasterTid(f, tid) <= u
      BY <1>2, <2>6 DEF FasterTid
    <3>2. \A u \in V[id] : u \in Nat /\ (u = tid \/ f <= u)
      BY <1>1, <1>2, <1>4, <2>4
    <3> QED
      BY <3>1, <3>2
  <2>8. FasterTid(f, tid) \in V[id] \cup {NoTid}
    BY <1>1, <2>5 DEF FasterTid
  <2>9. \A o \in MasterIds : V[o] # {} =>
          \E k \in DOMAIN master_list' : master_list'[k].id = o
    BY <1>1, <1>5, <2>1 DEF Serving
  <2>10. master_list'[i].id = id
    BY <1>5, <2>1
  <2>11. \A k \in DOMAIN master_list' :
           /\ \A u \in V[master_list'[k].id] : master_list'[k].fastest_tid <= u
           /\ master_list'[k].fastest_tid \in V[master_list'[k].id] \cup {NoTid}
    BY <2>1, <2>3, <2>7, <2>8, <2>10
  <2> QED
    BY <2>2, <2>9, <2>11 DEF Serving, V
<1>6. ASSUME NEW ok \in BOOLEAN,
             \A k \in DOMAIN master_list : master_list[k].id # id,
             master_list' = Append(master_list, NewMaster(id, tid, ok))
      PROVE  Serving(master_list', V)
  <2> DEFINE e == NewMaster(id, tid, ok)
             n == Len(master_list) + 1
  <2>1. e.id = id /\ e.fastest_tid = tid
    BY DEF NewMaster
  <2>2. U[id] = {}
    BY <1>6 DEF Serving
  <2>3. V[id] = {tid}
    BY <1>1, <2>2
  <2> HIDE DEF e
  <2>4. master_list' = Append(master_list, e)
    BY <1>6 DEF e
  <2>5. /\ DOMAIN master_list' = DOMAIN master_list \cup {n}
        /\ n \notin DOMAIN master_list
        /\ master_list'[n] = e
        /\ \A k \in DOMAIN master_list : master_list'[k] = master_list[k]
    BY <2>4
  <2> HIDE DEF n
  <2>6. \A k, l \in DOMAIN master_list' :
          master_list'[k].id = master_list'[l].id => k = l
    BY <1>6, <2>1, <2>5 DEF Serving
  <2>7. ASSUME NEW k \in DOMAIN master_list
        PROVE  /\ \A u \in V[master_list'[k].id] :
                    master_list'[k].fastest_tid <= u
               /\ master_list'[k].fastest_tid
                    \in V[master_list'[k].id] \cup {NoTid}
    <3>1. V[master_list[k].id] = U[master_list[k].id]
      BY <1>1, <1>3, <1>6
    <3> QED
      BY <2>5, <3>1 DEF Serving
  <2>8. tid <= tid
    BY <1>2
  <2>9. /\ \A u \in V[master_list'[n].id] : master_list'[n].fastest_tid <= u
        /\ master_list'[n].fastest_tid \in V[master_list'[n].id]
    BY <2>1, <2>3, <2>5, <2>8
  <2>10. \A o \in MasterIds : V[o] # {} =>
           \E k \in DOMAIN master_list' : master_list'[k].id = o
    BY <1>1, <2>1, <2>5 DEF Serving
  <2> QED
    BY <2>5, <2>6, <2>7, <2>9, <2>10 DEF Serving
<1> QED
  BY <1>5, <1>6 DEF GetMaster, V

\* A change of other fields of the masters changes no service.
LEMMA SameServes ==
  ASSUME NEW U, Serving(master_list, U),
         DOMAIN master_list' = DOMAIN master_list,
         \A k \in DOMAIN master_list :
           /\ master_list'[k].id = master_list[k].id
           /\ master_list'[k].fastest_tid = master_list[k].fastest_tid
  PROVE  Serving(master_list', U)
BY DEF Serving

\* A master without user joins.
LEMMA UnusedServes ==
  ASSUME master_list \in Seq(Master), NEW U, NEW id \in MasterIds, NEW e,
         e.id = id, e.fastest_tid = NoTid, Serving(master_list, U),
         \A k \in DOMAIN master_list : master_list[k].id # id,
         master_list' = Append(master_list, e)
  PROVE  Serving(master_list', U)
<1> DEFINE n == Len(master_list) + 1
<1>1. U[id] = {}
  BY DEF Serving
<1>2. /\ DOMAIN master_list' = DOMAIN master_list \cup {n}
      /\ n \notin DOMAIN master_list
      /\ master_list'[n] = e
      /\ \A k \in DOMAIN master_list : master_list'[k] = master_list[k]
  OBVIOUS
<1> HIDE DEF n
<1> QED
  BY <1>1, <1>2 DEF Serving

LEMMA TableType ==
  ASSUME ListsOK
  PROVE  Table \in [MasterIds -> SUBSET Tids]
<1>1. \A k \in DOMAIN slave_list : slave_list[k].tid \in Tids
  <2>1. \A s \in Slave : s.tid \in Tids
    BY DEF Slave
  <2>2. \A k \in DOMAIN slave_list : slave_list[k] \in Slave
    BY ElementOfSeq DEF ListsOK
  <2> QED
    BY <2>1, <2>2
<1>2. \A k \in DOMAIN domain_ptrs : domain_ptrs[k].tid \in Tids
  <2>1. \A p \in DomainPtr : p.tid \in Tids
    BY DEF DomainPtr
  <2>2. \A k \in DOMAIN domain_ptrs : domain_ptrs[k] \in DomainPtr
    BY ElementOfSeq DEF ListsOK
  <2> QED
    BY <2>1, <2>2
<1> QED
  BY <1>1, <1>2 DEF Table, SlaveTids, PtrTids

\* The users change only where slaves are taken up or pointers handed out.
LEMMA SameTable ==
  ASSUME UNCHANGED <<slave_list, domain_ptrs>>,
         \A j \in DOMAIN slave_list : Taken(j)' <=> Taken(j)
  PROVE  Table' = Table
<1>1. \A id : SlaveTids(id)' = SlaveTids(id)
  BY DEF SlaveTids
<1>2. \A id : PtrTids(id)' = PtrTids(id)
  BY DEF PtrTids
<1> QED
  BY <1>1, <1>2 DEF Table

LEMMA NoneTaken ==
  ASSUME pc \in {"mdlStart", "secondPtr"}
  PROVE  \A j : ~Taken(j)
BY DEF Taken, Started, Filling, Initing

LEMMA PtrTable ==
  ASSUME ListsOK, NEW id \in MasterIds, NEW tid \in Tids, NEW e,
         e.master = id, e.tid = tid,
         domain_ptrs' = Append(domain_ptrs, e), UNCHANGED slave_list,
         \A j \in DOMAIN slave_list : Taken(j)' <=> Taken(j)
  PROVE  Table' = [Table EXCEPT ![id] = @ \cup {tid}]
<1> DEFINE n == Len(domain_ptrs) + 1
<1>1. \A o : SlaveTids(o)' = SlaveTids(o)
  BY DEF SlaveTids
<1>2. /\ DOMAIN domain_ptrs' = DOMAIN domain_ptrs \cup {n}
      /\ n \notin DOMAIN domain_ptrs
      /\ domain_ptrs'[n] = e
      /\ \A k \in DOMAIN domain_ptrs : domain_ptrs'[k] = domain_ptrs[k]
  BY DEF ListsOK
<1> HIDE DEF n
<1>3. PtrTids(id)' = PtrTids(id) \cup {tid}
  BY <1>2 DEF PtrTids
<1>4. ASSUME NEW o \in MasterIds, o # id PROVE PtrTids(o)' = PtrTids(o)
  BY <1>2, <1>4 DEF PtrTids
<1> QED
  BY <1>1, <1>3, <1>4 DEF Table

-----------------------------------------------------------------------------
LEMMA BlockStartServes ==
  ASSUME IInv, FastestInv, BlockStart
  PROVE  FastestInv'
<1>0. ListsOK
  BY DEF IInv, TypeOK
<1>1. pc \in {"mdlStart", "secondPtr"}
  BY DEF BlockStart, SlaveStart, MasterStateStart, DomainStateStart, SdoHandler,
     DomainStateSecond
<1>2. Serving(master_list, Table)
  BY <1>1 DEF FastestInv, Dead
<1>3. ASSUME pc' \in {"mdlStart", "secondPtr"}
      PROVE  \A j \in DOMAIN slave_list : Taken(j)' <=> Taken(j)
  <2>1. \A j : ~Taken(j)
    BY <1>1, NoneTaken
  <2>2. \A j : ~Taken(j)'
    BY <1>3 DEF Taken, Started, Filling, Initing
  <2> QED
    BY <2>1, <2>2
<1>4. ASSUME NEW s \in Slave, SlaveStart(s) PROVE FastestInv'
  <2>1. pc' = "mdlStart" /\ UNCHANGED <<master_list, domain_ptrs>>
    BY <1>4 DEF SlaveStart
  <2>2. \A j : ~Taken(j) /\ ~Taken(j)'
    BY <1>1, <2>1 DEF Taken, Started, Filling, Initing
  <2>3. \A id : SlaveTids(id) = {} /\ SlaveTids(id)' = {}
    BY <2>2 DEF SlaveTids
  <2>4. \A id : PtrTids(id)' = PtrTids(id)
    BY <2>1 DEF PtrTids
  <2>5. Table' = Table
    BY <2>3, <2>4 DEF Table
  <2> QED
    BY <1>2, <2>1, <2>5 DEF FastestInv
<1>5. ASSUME NEW id \in MasterIds, NEW dec \in 0..1, MasterStateStart(id, dec)
      PROVE  FastestInv'
  <2>1. pc = "mdlStart" /\ UNCHANGED <<slave_list, domain_ptrs>>
    BY <1>5 DEF MasterStateStart
  <2>2. pc' = "mdlStart" => Table' = Table
    BY <1>3, <2>1, SameTable
  <2>3. ASSUME NEW i \in DOMAIN master_list,
               master_list' = [master_list EXCEPT
                  ![i].refclk_trigger_init = dec, ![i].refclk_trigger = 1]
        PROVE  Serving(master_list', Table)
    <3>1. DOMAIN master_list' = DOMAIN master_list
      BY <2>3
    <3>2. \A k \in DOMAIN master_list :
            /\ master_list'[k].id = master_list[k].id
            /\ master_list'[k].fastest_tid = master_list[k].fastest_tid
      BY <1>0, <2>3, ElementTypes DEF Master
    <3> QED
      BY <1>2, <3>1, <3>2, SameServes
  <2>4. ASSUME \A i \in DOMAIN master_list : master_list[i].id # id,
               master_list' = Append(master_list,
                 [NewMaster(id, NoTid, TRUE) EXCEPT
                    !.refclk_trigger_init = dec, !.refclk_trigger = 1])
        PROVE  Serving(master_list', Table)
    <3> DEFINE e == [NewMaster(id, NoTid, TRUE) EXCEPT
                       !.refclk_trigger_init = dec, !.refclk_trigger = 1]
    <3>1. e.id = id /\ e.fastest_tid = NoTid
      BY DEF NewMaster
    <3>2. master_list \in Seq(Master)
      BY <1>0 DEF ListsOK
    <3> HIDE DEF e
    <3>3. master_list' = Append(master_list, e)
      BY <2>4 DEF e
    <3> QED
      BY <1>2, <2>4, <3>1, <3>2, <3>3, UnusedServes
  <2>5. \/ pc' = "failed"
        \/ /\ pc' = pc
           /\ \/ \E i \in DOMAIN master_list :
                   master_list' = [master_list EXCEPT
                      ![i].refclk_trigger_init = dec, ![i].refclk_trigger = 1]
              \/ /\ \A i \in DOMAIN master_list : master_list[i].id # id
                 /\ master_list' = Append(master_list,
                      [NewMaster(id, NoTid, TRUE) EXCEPT
                         !.refclk_trigger_init = dec, !.refclk_trigger = 1])
    BY <1>5 DEF MasterStateStart
  <2> QED
    BY <2>1, <2>2, <2>3, <2>4, <2>5 DEF FastestInv, Dead
<1>6. ASSUME NEW id \in MasterIds, NEW dom, NEW in, NEW out, NEW tid \in Tids,
             NEW p, NEW e, GetDomainPtr(id, dom, in, out, tid, p),
             e.master = id, e.tid = tid, domain_ptrs' = Append(domain_ptrs, e),
             UNCHANGED slave_list, pc' \in {"mdlStart", "secondPtr"}
      PROVE  FastestInv'
  <2>1. PICK i \in MasterResults : GetMaster(id, tid, i)
    BY <1>6 DEF GetDomainPtr
  <2>2. Table' = [Table EXCEPT ![id] = @ \cup {tid}]
    BY <1>0, <1>3, <1>6, PtrTable
  <2>3. master_list \in Seq(Master)
    BY <1>0 DEF ListsOK
  <2>4. Table \in [MasterIds -> SUBSET Tids]
    BY <1>0, TableType
  <2>5. Serving(master_list', [Table EXCEPT ![id] = @ \cup {tid}])
    BY <1>2, <2>1, <2>3, <2>4, GetMasterServes
  <2> QED
    BY <2>2, <2>5 DEF FastestInv
<1>7. ASSUME NEW id \in MasterIds, NEW dom \in DomainIds, NEW tid \in Tids,
             NEW mode \in Modes, DomainStateStart(id, dom, tid, mode)
      PROVE  FastestInv'
  <2> DEFINE in == mode # "out"
             out == mode \in {"io", "out"}
  <2>1. PICK p \in DomainResults :
          /\ GetDomainPtr(id, dom, in, out, tid, p)
          /\ domain_ptrs' = Append(domain_ptrs, Pointer(id, dom, tid, in, out, p))
          /\ pc' = IF mode = "inout" /\ p # Crash THEN "secondPtr"
                   ELSE AfterPtr(p, "mdlStart")
    BY <1>7 DEF DomainStateStart
  <2>2. UNCHANGED slave_list
    BY <1>7 DEF DomainStateStart
  <2> HIDE DEF in, out
  <2> DEFINE e == Pointer(id, dom, tid, in, out, p)
  <2>3. e.master = id /\ e.tid = tid
    BY DEF Pointer
  <2>4. pc' \in {"mdlStart", "secondPtr"} \cup Dead
    BY <2>1 DEF AfterPtr, Dead
  <2>5. domain_ptrs' = Append(domain_ptrs, e)
    BY <2>1
  <2> HIDE DEF e
  <2>6. pc' \in {"mdlStart", "secondPtr"} => FastestInv'
    BY <1>6, <2>1, <2>2, <2>3, <2>5
  <2> QED
    BY <2>4, <2>6 DEF FastestInv, Dead
<1>8. ASSUME NEW id \in MasterIds, NEW q \in Positions, SdoHandler(id, q)
      PROVE  FastestInv'
  <2>1. UNCHANGED <<pc, slave_list, master_list, domain_ptrs>>
    BY <1>8 DEF SdoHandler
  <2>2. Table' = Table
    BY <1>1, <1>3, <2>1, SameTable
  <2> QED
    BY <1>2, <2>1, <2>2 DEF FastestInv
<1>9. ASSUME DomainStateSecond PROVE FastestInv'
  <2> DEFINE b == domain_ptrs[Len(domain_ptrs)]
  <2>1. PICK p \in DomainResults :
          /\ GetDomainPtr(b.master, b.domain, FALSE, TRUE, b.tid, p)
          /\ domain_ptrs' = Append(domain_ptrs,
               Pointer(b.master, b.domain, b.tid, FALSE, TRUE, p))
          /\ pc' = IF p # Crash /\ b.ptr = Null THEN "failed"
                   ELSE AfterPtr(p, "mdlStart")
    BY <1>9 DEF DomainStateSecond
  <2>2. UNCHANGED slave_list
    BY <1>9 DEF DomainStateSecond
  <2>3. b \in DomainPtr
    <3>1. domain_ptrs # <<>>
      BY <1>9 DEF DomainStateSecond, IInv, Indexed
    <3>2. Len(domain_ptrs) \in DOMAIN domain_ptrs
      BY <1>0, <3>1 DEF ListsOK
    <3> QED
      BY <1>0, <3>2, ElementOfSeq DEF ListsOK
  <2>4. b.master \in MasterIds /\ b.tid \in Tids
    BY <2>3 DEF DomainPtr
  <2> HIDE DEF b
  <2> DEFINE e == Pointer(b.master, b.domain, b.tid, FALSE, TRUE, p)
  <2>5. e.master = b.master /\ e.tid = b.tid
    BY DEF Pointer
  <2>6. domain_ptrs' = Append(domain_ptrs, e)
    BY <2>1
  <2> HIDE DEF e
  <2>7. pc' \in {"mdlStart"} \cup Dead
    BY <2>1 DEF AfterPtr, Dead
  <2>8. pc' \in {"mdlStart", "secondPtr"} => FastestInv'
    BY <1>6, <2>1, <2>2, <2>4, <2>5, <2>6
  <2> QED
    BY <2>7, <2>8 DEF FastestInv, Dead
<1> QED
  BY <1>4, <1>5, <1>7, <1>8, <1>9 DEF BlockStart

LEMMA InitSlaveServes ==
  ASSUME IInv, FastestInv, InitSlave
  PROVE  FastestInv'
<1>0. ListsOK /\ Indexed
  BY DEF IInv, TypeOK
<1>1. pc \in Initing
  BY DEF InitSlave, InitSlaveMaster, InitSlaveConfig, RxDomain, TxDomain,
     InitSlaveDomain, RxPdos, TxPdos, SdoRequests, Initing
<1>2. Serving(master_list, Table)
  BY <1>1 DEF FastestInv, Dead, Initing
<1>3. cur \in DOMAIN slave_list /\ cur \in Nat
  BY <1>0, <1>1 DEF Indexed, IInv, TypeOK, LocalsOK
<1>4. CASE InitSlaveMaster
  <2>1. PICK i \in MasterResults :
          /\ GetMaster(S.master, S.tid, i)
          /\ pc' = IF i = Null THEN "failed" ELSE "config"
    BY <1>4 DEF InitSlaveMaster
  <2>2. /\ UNCHANGED <<cur, slave_list, domain_ptrs>>
        /\ pc = "get_master"
    BY <1>4 DEF InitSlaveMaster
  <2>3. PICK id \in MasterIds, tid \in Tids : id = S.master /\ tid = S.tid
    BY <1>0, <1>1, CurrentSlave
  <2>4. ASSUME pc' = "config"
        PROVE  Table' = [Table EXCEPT ![id] = @ \cup {tid}]
    <3>1. \A j \in DOMAIN slave_list : Taken(j)' <=> (Taken(j) \/ j = cur)
      BY <2>2, <2>4 DEF Taken, Started, Filling, Initing
    <3>2. SlaveTids(id)' = SlaveTids(id) \cup {tid}
      BY <1>3, <2>2, <2>3, <3>1 DEF SlaveTids, S
    <3>3. \A o : o # id => SlaveTids(o)' = SlaveTids(o)
      BY <2>2, <2>3, <3>1 DEF SlaveTids, S
    <3>4. \A o : PtrTids(o)' = PtrTids(o)
      BY <2>2 DEF PtrTids
    <3> QED
      BY <3>2, <3>3, <3>4 DEF Table
  <2>5. Serving(master_list', [Table EXCEPT ![id] = @ \cup {tid}])
    <3>1. master_list \in Seq(Master)
      BY <1>0 DEF ListsOK
    <3>2. Table \in [MasterIds -> SUBSET Tids]
      BY <1>0, TableType
    <3> QED
      BY <1>2, <2>1, <2>3, <3>1, <3>2, GetMasterServes
  <2>6. pc' \in {"failed", "config"}
    BY <2>1
  <2> QED
    BY <2>4, <2>5, <2>6 DEF FastestInv, Dead
<1>5. ASSUME UNCHANGED <<cur, slave_list, domain_ptrs, master_list>>,
             pc # "get_master",
             pc' \in (Initing \ {"get_master"}) \cup Dead
      PROVE  FastestInv'
  <2>1. CASE pc' \in Dead
    BY <2>1 DEF FastestInv
  <2>2. CASE pc' \in Initing \ {"get_master"}
    <3>1. \A j \in DOMAIN slave_list : Taken(j)' <=> Taken(j)
      BY <1>1, <1>5, <2>2 DEF Taken, Started, Filling, Initing
    <3>2. Table' = Table
      BY <1>5, <3>1, SameTable
    <3> QED
      BY <1>2, <1>5, <3>2 DEF FastestInv
  <2> QED
    BY <1>5, <2>1, <2>2
<1>6. CASE InitSlaveConfig
  BY <1>5, <1>6 DEF InitSlaveConfig, locals, Initing, Dead
<1>7. ASSUME NEW here \in {"rx_domain", "tx_domain"}, NEW n,
             NEW in, NEW out, NEW found \in {"rx_pdos", "tx_pdos"},
             NEW none \in {"tx_domain", "sdo_req"},
             InitSlaveDomain(here, n, in, out, found, none)
      PROVE  FastestInv'
  <2>1. UNCHANGED <<cur, slave_list, domain_ptrs, master_list>>
    BY <1>7 DEF InitSlaveDomain
  <2>2. pc # "get_master"
    BY <1>7 DEF InitSlaveDomain
  <2>3. pc' \in (Initing \ {"get_master"}) \cup Dead
    BY <1>7 DEF InitSlaveDomain, AfterPtr, Initing, Dead
  <2> QED
    BY <1>5, <2>1, <2>2, <2>3
<1>8. CASE RxPdos \/ TxPdos
  <2>1. UNCHANGED <<cur, slave_list, domain_ptrs, master_list>>
    BY <1>8 DEF RxPdos, TxPdos, locals
  <2>2. pc # "get_master" /\ pc' \in (Initing \ {"get_master"}) \cup Dead
    BY <1>8 DEF RxPdos, TxPdos, Initing, Dead
  <2> QED
    BY <1>5, <2>1, <2>2
<1>9. CASE SdoRequests
  <2>1. /\ UNCHANGED <<slave_list, domain_ptrs, master_list>>
        /\ pc = "sdo_req"
        /\ \/ cur' = cur + 1 /\ pc' = "get_master"
           \/ cur = Len(slave_list) /\ pc' = "activate"
    BY <1>9 DEF SdoRequests
  <2>2. \A j \in DOMAIN slave_list : j \in Nat /\ j <= Len(slave_list)
    BY <1>0 DEF ListsOK
  <2>3. \A j \in DOMAIN slave_list : Taken(j) <=> j < cur \/ j = cur
    BY <2>1 DEF Taken, Started, Filling, Initing
  <2>4. CASE cur' = cur + 1 /\ pc' = "get_master"
    <3>1. \A j \in DOMAIN slave_list : Taken(j)' <=> j < cur'
      BY <2>4 DEF Taken, Started, Filling, Initing
    <3>2. \A j \in DOMAIN slave_list : j < cur' <=> j < cur \/ j = cur
      BY <1>3, <2>2, <2>4
    <3> QED
      BY <1>2, <2>1, <2>3, <3>1, <3>2, SameTable DEF FastestInv
  <2>5. CASE cur = Len(slave_list) /\ pc' = "activate"
    <3>1. \A j \in DOMAIN slave_list : Taken(j)'
      BY <2>5 DEF Taken, Started
    <3>2. \A j \in DOMAIN slave_list : j < cur \/ j = cur
      BY <1>3, <2>2, <2>5
    <3> QED
      BY <1>2, <2>1, <2>3, <3>1, <3>2, SameTable DEF FastestInv
  <2> QED
    BY <2>1, <2>4, <2>5
<1> QED
  BY <1>4, <1>6, <1>7, <1>8, <1>9 DEF InitSlave, RxDomain, TxDomain

\* From ecs_start()'s second loop on all slaves are taken up.
LEMMA StartedServes ==
  ASSUME IInv, FastestInv, Activate \/ FillRx \/ FillTx
  PROVE  FastestInv'
<1>0. ListsOK
  BY DEF IInv, TypeOK
<1>1. /\ pc \in Started
      /\ pc' \in Started \cup Dead
      /\ UNCHANGED <<slave_list, domain_ptrs>>
  BY DEF Activate, FillRx, FillTx, Started, Filling, Dead, locals
<1>2. Serving(master_list, Table)
  BY <1>1 DEF FastestInv, Started, Filling, Dead
<1>3. CASE pc' \in Dead
  BY <1>3 DEF FastestInv
<1>4. CASE pc' \in Started
  <2>1. \A j \in DOMAIN slave_list : Taken(j)' <=> Taken(j)
    BY <1>1, <1>4 DEF Taken
  <2>2. Table' = Table
    BY <1>1, <2>1, SameTable
  <2>3. \/ UNCHANGED master_list
        \/ master_list' = [master_list EXCEPT ![cur].active = TRUE]
    BY DEF Activate, FillRx, FillTx
  <2>4. /\ DOMAIN master_list' = DOMAIN master_list
        /\ \A k \in DOMAIN master_list :
             /\ master_list'[k].id = master_list[k].id
             /\ master_list'[k].fastest_tid = master_list[k].fastest_tid
    BY <1>0, <2>3, ElementTypes DEF Master
  <2> QED
    BY <1>2, <2>2, <2>4, SameServes DEF FastestInv
<1> QED
  BY <1>1, <1>3, <1>4

LEMMA FastestStep == IInv /\ FastestInv /\ [Next]_vars => FastestInv'
<1> SUFFICES ASSUME IInv, FastestInv, [Next]_vars PROVE FastestInv'
  OBVIOUS
<1>1. CASE EcsStart
  <2>1. /\ pc = "mdlStart" /\ cur' = 1
        /\ UNCHANGED <<slave_list, domain_ptrs, master_list>>
        /\ \/ pc' = "get_master"
           \/ slave_list = <<>> /\ pc' \in {"activate", "wildHead"}
    BY <1>1 DEF EcsStart
  <2>2. Serving(master_list, Table)
    BY <2>1 DEF FastestInv, Dead
  <2>3. \A j \in DOMAIN slave_list : ~Taken(j)
    BY <2>1, NoneTaken
  <2>4. CASE pc' = "wildHead"
    BY <2>4 DEF FastestInv, Dead
  <2>5. CASE pc' # "wildHead"
    <3>1. \A j \in DOMAIN slave_list : j \in Nat /\ ~(j < 1)
      BY DEF IInv, TypeOK, ListsOK
    <3>2. \A j \in DOMAIN slave_list : ~Taken(j)'
      BY <2>1, <2>5, <3>1 DEF Taken, Started, Filling, Initing
    <3> QED
      BY <2>1, <2>2, <2>3, <3>2, SameTable DEF FastestInv
  <2> QED
    BY <2>4, <2>5
<1>2. CASE Finished \/ UNCHANGED vars
  <2>1. UNCHANGED <<pc, cur, slave_list, domain_ptrs, master_list>>
    BY <1>2 DEF Finished, vars
  <2>2. \A j \in DOMAIN slave_list : Taken(j)' <=> Taken(j)
    BY <2>1 DEF Taken
  <2>3. Table' = Table
    BY <2>1, <2>2, SameTable
  <2> QED
    BY <2>1, <2>3 DEF FastestInv
<1> QED
  BY <1>1, <1>2, BlockStartServes, InitSlaveServes, StartedServes DEF Next

LEMMA FastestInvInit == Init => FastestInv
<1> SUFFICES ASSUME Init PROVE FastestInv
  OBVIOUS
<1>1. \A id : SlaveTids(id) = {} /\ PtrTids(id) = {}
  BY DEF Init, SlaveTids, PtrTids
<1> QED
  BY <1>1 DEF Init, FastestInv, Serving, Table

LEMMA FastestInvImplies == IInv /\ FastestInv => FastestTask
<1> SUFFICES ASSUME IInv, FastestInv, pc \notin Dead,
                    NEW i \in DOMAIN master_list
             PROVE  /\ \A u \in Users(i) : master_list[i].fastest_tid <= u
                    /\ master_list[i].fastest_tid \in Users(i) \cup {NoTid}
  BY DEF FastestTask, Dead
<1>1. master_list[i].id \in MasterIds
  BY ElementTypes DEF IInv, TypeOK, Master
<1>2. Users(i) = SlaveTids(master_list[i].id) \cup PtrTids(master_list[i].id)
  BY DEF Users, SlaveTids, PtrTids, Taken
<1>3. Users(i) = Table[master_list[i].id]
  BY <1>1, <1>2 DEF Table
<1> QED
  BY <1>3 DEF FastestInv, Serving

\* Whatever blocks use a master and in whichever order, it is received and
\* sent by the fastest of their tasks.
THEOREM FastestTaskAlways == Spec => []FastestTask
<1> QED
  BY FastestInvInit, FastestStep, FastestInvImplies, Invariance, PTL DEF Spec
=============================================================================
