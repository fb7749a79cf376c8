---------------------------- MODULE EcrtSupport ----------------------------
(***************************************************************************)
(* The registration half of rtw/src/ecrt_support.c: how the Start code of  *)
(* the EtherCAT blocks (MdlStart of the generated model) builds the list   *)
(* of slaves, the masters and their domains, and how ecs_start(), the      *)
(* trailer of MdlStart, registers every PDO entry, activates the masters   *)
(* and fills the conversion lists that ecs_receive() and ecs_send() run.   *)
(*                                                                         *)
(* MdlStart is sequential; the alternatives are the block diagram (which   *)
(* blocks, in which order) and the outcome of every call of the EtherCAT   *)
(* library, each of which may fail.                                        *)
(***************************************************************************)
EXTENDS Integers, Sequences

CONSTANTS
  MasterIds,    \* EtherCAT master numbers
  DomainIds,    \* domain numbers of the blocks' Sample Time parameter
  Tids,         \* task ids of the blocks
  NoTid,        \* ~0U, the task id ecs_setup_master() passes
  Positions,    \* slave addresses (alias and position)
  Modes,        \* Domain State modes: "io", "in", "out", "inout"
  MaxPdo,       \* bound: PDO entries of a slave in one direction
  MaxBlocks,    \* bound: EtherCAT blocks of the model
  MaxReq        \* bound: SDO requests of the model

ASSUME ConstantsAssumption ==
  /\ Tids \subseteq Nat
  /\ NoTid \in Nat
  /\ \A t \in Tids : t < NoTid
  /\ Modes \subseteq {"io", "in", "out", "inout"}
  /\ MaxPdo \in Nat
  /\ MaxBlocks \in Nat
  /\ MaxReq \in Nat

VARIABLES
  pc,           \* where MdlStart is
  cur,          \* slave or master the loops of ecs_start() are at
  master,       \* init_slave()'s local variables master and domain:
  domain,       \*   places in master_list and domain_list
  blocks,       \* number of blocks whose Start code has run
  slave_list,   \* the chain of struct ec_slave, in Start order
  master_list,  \* ecat_data.master_list
  domain_list,  \* the domain lists of all masters, in creation order
  convert_list, \* the conversion list array of each domain, once allocated
  pdo_map,      \* per slave: the domain its rx and tx entries point to
  sdo_head,     \* ec_slave_sdo_head: the SDO requests to create
  domain_ptrs   \* what ecs_get_domain_ptr() gave to the Domain State blocks

vars == <<pc, cur, master, domain, blocks, slave_list, master_list,
          domain_list, convert_list, pdo_map, sdo_head, domain_ptrs>>
locals == <<cur, master, domain>>

Null == 0        \* a NULL pointer: the lists are numbered from 1
Crash == -1      \* the library was handed a NULL handle

Master == [id : MasterIds, fastest_tid : Tids \cup {NoTid}, handle : BOOLEAN,
           active : BOOLEAN, refclk_trigger_init : Nat, refclk_trigger : Nat]

Domain == [master : Nat \ {0}, id : DomainIds, tid : Tids, input : BOOLEAN,
           output : BOOLEAN, handle : BOOLEAN, input_count : Nat,
           output_count : Nat, output_base : Nat]

Slave == [master : MasterIds, domain : DomainIds, tid : Tids,
          position : Positions, rx : 0..MaxPdo, tx : 0..MaxPdo]

\* The domains of a slave's rx and tx entries; an SDO request, with the slave
\* init_slave() asked last and the one whose request *addr points to; what a
\* Domain State block has got.
PdoMap == [rx : Nat, tx : Nat]
SdoRequest == [master : MasterIds, position : Positions, asked : Nat,
               bound : Nat]
DomainPtr == [master : MasterIds, domain : DomainIds, tid : Tids,
              input : BOOLEAN, output : BOOLEAN, ptr : Nat \cup {Crash}]

\* An entry of a conversion list; NoCopy is the calloc'ed copy == NULL.
NoCopy == [slave |-> 0, dir |-> "none", entry |-> 0]
Convert == [slave : Nat, dir : {"rx", "tx", "none"}, entry : Nat]

NewMaster(id, tid, ok) ==
  [id |-> id, fastest_tid |-> tid, handle |-> ok, active |-> FALSE,
   refclk_trigger_init |-> 0, refclk_trigger |-> 0]

NewDomain(m, id, tid, in, out, ok) ==
  [master |-> m, id |-> id, tid |-> tid, input |-> in, output |-> out,
   handle |-> ok, input_count |-> 0, output_count |-> 0, output_base |-> 0]

-----------------------------------------------------------------------------
\* The task that serves a master: tid, if it is faster. And wrong: the first
\* user's, for ever.
FirstTid(fastest_tid, tid) == fastest_tid
FasterTid(fastest_tid, tid) == IF fastest_tid > tid THEN tid ELSE fastest_tid

(* get_master(): i is the master returned. A new master joins the list     *)
(* before it is requested, and stays there when the request fails.         *)

GetMaster(id, tid, i) ==
  \/ /\ i \in DOMAIN master_list
     /\ master_list[i].id = id
     /\ \A k \in 1..(i - 1) : master_list[k].id # id
     /\ master_list' = [master_list EXCEPT ![i].fastest_tid =
                          FasterTid(@, tid)]
  \/ /\ \A k \in DOMAIN master_list : master_list[k].id # id
     /\ \E ok \in BOOLEAN :
          /\ master_list' = Append(master_list, NewMaster(id, tid, ok))
          /\ i = IF ok THEN Len(master_list) + 1 ELSE Null

MasterResults == 0..(Len(master_list) + 1)

\* The test of get_domain()'s search. And wrong: a domain of outputs only, or
\* of exactly the same directions.
OutputMatches(k, m, id, in, out, tid) ==
  LET d == domain_list[k]
  IN  d.master = m /\ d.id = id /\ d.output /\ out /\ d.tid = tid

ExactlyMatches(k, m, id, in, out, tid) ==
  LET d == domain_list[k]
  IN  /\ d.master = m /\ d.id = id /\ d.tid = tid
      /\ d.output = out /\ d.input = in

DomainMatches(k, m, id, in, out, tid) ==
  LET d == domain_list[k]
  IN  /\ d.master = m
      /\ d.id = id
      /\ (d.output /\ out) \/ (d.input /\ in)
      /\ d.tid = tid

(* get_domain(), d is the domain returned: the first one that matches, its *)
(* direction flags widened, or a new one. master_list' is already known.   *)
GetDomain(m, id, in, out, tid, d) ==
  \/ /\ d \in DOMAIN domain_list
     /\ DomainMatches(d, m, id, in, out, tid)
     /\ \A k \in 1..(d - 1) : ~DomainMatches(k, m, id, in, out, tid)
     /\ domain_list' = [domain_list EXCEPT ![d].input = @ \/ in,
                                           ![d].output = @ \/ out]
  \/ /\ \A k \in DOMAIN domain_list : ~DomainMatches(k, m, id, in, out, tid)
     /\ \E ok \in BOOLEAN :
          /\ master_list'[m].handle \/ ~ok
          /\ domain_list' = Append(domain_list,
                                   NewDomain(m, id, tid, in, out, ok))
          /\ d = CASE ~master_list'[m].handle -> Crash
                   [] ok                      -> Len(domain_list) + 1
                   [] OTHER                   -> Null

DomainResults == -1..(Len(domain_list) + 1)

\* ecs_get_domain_ptr(): the handle of the domain, p its number.
GetDomainPtr(id, dom, in, out, tid, p) ==
  \E i \in MasterResults :
    /\ GetMaster(id, tid, i)
    /\ \/ i = Null /\ p = Null /\ UNCHANGED domain_list
       \/ i # Null /\ \E d \in DomainResults :
            /\ GetDomain(i, dom, in, out, tid, d)
            /\ p = IF d > 0 /\ ~domain_list'[d].handle THEN Null ELSE d

-----------------------------------------------------------------------------
(* MdlStart: the Start code of the blocks.                                 *)

\* An EtherCAT slave block appends its structure to the chain.
SlaveStart(s) ==
  /\ pc = "mdlStart"
  /\ blocks < MaxBlocks
  /\ blocks' = blocks + 1
  /\ slave_list' = Append(slave_list, s)
  /\ pdo_map' = Append(pdo_map, [rx |-> Null, tx |-> Null])
  /\ UNCHANGED <<convert_list, pc, locals, master_list, domain_list, sdo_head,
                 domain_ptrs>>

\* A Master State block: ecs_setup_master() with the decimation of the
\* reference clock synchronisation.
MasterStateStart(id, dec) ==
  /\ pc = "mdlStart"
  /\ blocks < MaxBlocks
  /\ blocks' = blocks + 1
  /\ \/ /\ \E i \in DOMAIN master_list :
             /\ master_list[i].id = id
             /\ master_list' = [master_list EXCEPT
                  ![i].refclk_trigger_init = dec, ![i].refclk_trigger = 1]
        /\ UNCHANGED pc
     \/ /\ \A i \in DOMAIN master_list : master_list[i].id # id
        /\ \E ok \in BOOLEAN :
             /\ master_list' = Append(master_list,
                  IF ok THEN [NewMaster(id, NoTid, ok) EXCEPT
                                !.refclk_trigger_init = dec,
                                !.refclk_trigger = 1]
                        ELSE NewMaster(id, NoTid, ok))
             /\ pc' = IF ok THEN pc ELSE "failed"
  /\ UNCHANGED <<convert_list, locals, slave_list, domain_list, pdo_map,
                 sdo_head, domain_ptrs>>

\* A failed request ends MdlStart. And wrong: its result is not tested.
Untested(p, next) == IF p = Crash THEN "nullHandle" ELSE next

AfterPtr(p, next) ==
  CASE p = Crash -> "nullHandle"
    [] p = Null  -> "failed"
    [] OTHER     -> next

Pointer(id, dom, tid, in, out, p) ==
  [master |-> id, domain |-> dom, tid |-> tid, input |-> in, output |-> out,
   ptr |-> p]

(* A Domain State block: its first domain pointer. With separate input and *)
(* output domains the second one is fetched before either is tested.       *)
DomainStateStart(id, dom, tid, mode) ==
  /\ pc = "mdlStart"
  /\ blocks < MaxBlocks
  /\ blocks' = blocks + 1
  /\ LET in  == mode # "out"
         out == mode \in {"io", "out"}
     IN  \E p \in DomainResults :
           /\ GetDomainPtr(id, dom, in, out, tid, p)
           /\ domain_ptrs' = Append(domain_ptrs,
                                    Pointer(id, dom, tid, in, out, p))
           /\ pc' = IF mode = "inout" /\ p # Crash THEN "secondPtr"
                    ELSE AfterPtr(p, "mdlStart")
  /\ UNCHANGED <<convert_list, locals, slave_list, pdo_map, sdo_head>>

DomainStateSecond ==
  /\ pc = "secondPtr"
  /\ LET b == domain_ptrs[Len(domain_ptrs)]
     IN  \E p \in DomainResults :
           /\ GetDomainPtr(b.master, b.domain, FALSE, TRUE, b.tid, p)
           /\ domain_ptrs' = Append(domain_ptrs,
                Pointer(b.master, b.domain, b.tid, FALSE, TRUE, p))
           /\ pc' = IF p # Crash /\ b.ptr = Null THEN "failed"
                    ELSE AfterPtr(p, "mdlStart")
  /\ UNCHANGED <<convert_list, locals, blocks, slave_list, pdo_map, sdo_head>>

\* ecs_sdo_handler(), called by model code before ecs_start().
SdoHandler(id, position) ==
  /\ pc = "mdlStart"
  /\ Len(sdo_head) < MaxReq
  /\ sdo_head' = Append(sdo_head, [master |-> id, position |-> position,
                                   asked |-> Null, bound |-> Null])
  /\ UNCHANGED <<convert_list, pc, locals, blocks, slave_list, master_list,
                 domain_list, pdo_map, domain_ptrs>>

(* The trailer of MdlStart calls ecs_start(). Without a slave block the    *)
(* head of the chain is an uninitialised local: NULL or anything else.     *)
EcsStart ==
  /\ pc = "mdlStart"
  /\ blocks > 0
  /\ \/ slave_list # <<>> /\ pc' = "get_master"
     \/ slave_list = <<>> /\ pc' \in {"activate", "wildHead"}
  /\ cur' = 1
  /\ UNCHANGED <<convert_list, master, domain, blocks, slave_list,
                 master_list, domain_list, pdo_map, sdo_head, domain_ptrs>>

-----------------------------------------------------------------------------
(* ecs_start(), first loop: init_slave() of every slave of the chain.      *)

S == slave_list[cur]

InitSlaveMaster ==
  /\ pc = "get_master"
  /\ \E i \in MasterResults :
       /\ GetMaster(S.master, S.tid, i)
       /\ master' = i
       /\ pc' = IF i = Null THEN "failed" ELSE "config"
  /\ UNCHANGED <<convert_list, cur, domain, blocks, slave_list, domain_list,
                 pdo_map, sdo_head, domain_ptrs>>

(* ecrt_master_slave_config, the PDO, SDO, SoE and distributed clock        *)
(* configuration: any of the calls may fail, an SDO of unknown type and a  *)
(* clock without cycle time do, and each ends init_slave().                *)
InitSlaveConfig ==
  /\ pc = "config"
  /\ pc' \in {"rx_domain", "failed"}
  /\ UNCHANGED <<convert_list, locals, blocks, slave_list, master_list,
                 domain_list, pdo_map, sdo_head, domain_ptrs>>

\* The domain of the slave's entries of one direction, if it has any.
InitSlaveDomain(here, n, in, out, found, none) ==
  /\ pc = here
  /\ UNCHANGED master_list
  /\ \/ n = 0 /\ pc' = none /\ UNCHANGED <<domain, domain_list>>
     \/ n > 0 /\ \E d \in DomainResults :
          /\ GetDomain(master, S.domain, in, out, S.tid, d)
          /\ domain' = d
          /\ pc' = AfterPtr(d, found)
  /\ UNCHANGED <<convert_list, cur, master, blocks, slave_list, pdo_map,
                 sdo_head, domain_ptrs>>

RxDomain ==
  InitSlaveDomain("rx_domain", S.rx, FALSE, TRUE, "rx_pdos", "tx_domain")
TxDomain ==
  InitSlaveDomain("tx_domain", S.tx, TRUE, FALSE, "tx_pdos", "sdo_req")

(* register_pdos(): the entries 1..k are counted; the k-th is not          *)
(* registered, or not byte aligned, when init_slave() stops at it.         *)
RxPdos ==
  /\ pc = "rx_pdos"
  /\ pdo_map' = [pdo_map EXCEPT ![cur].rx = domain]
  /\ \E k \in 1..S.rx :
       /\ domain_list' = [domain_list EXCEPT ![domain].output_count = @ + k]
       /\ \/ k = S.rx /\ pc' = "tx_domain"
          \/ pc' = "failed"
  /\ UNCHANGED <<convert_list, locals, blocks, slave_list, master_list,
                 sdo_head, domain_ptrs>>

TxPdos ==
  /\ pc = "tx_pdos"
  /\ pdo_map' = [pdo_map EXCEPT ![cur].tx = domain]
  /\ \E k \in 1..S.tx :
       /\ domain_list' = [domain_list EXCEPT ![domain].input_count = @ + k]
       /\ \/ k = S.tx /\ pc' = "sdo_req"
          \/ pc' = "failed"
  /\ UNCHANGED <<convert_list, locals, blocks, slave_list, master_list,
                 sdo_head, domain_ptrs>>

\* The request names the slave. And wrong: the master is not compared.
SamePosition(q, s) == q.position = s.position
OfSlave(q, s) == q.master = s.master /\ q.position = s.position

\* What ecrt_slave_config_create_sdo_request() returns, NULL when it fails,
\* goes untested to *addr, over an earlier slave's request.
Asked(q, made) == [q EXCEPT !.asked = cur, !.bound = IF made THEN cur ELSE Null]

\* Create the SDO requests that name this slave, each of which may fail, then
\* take the next slave.
SdoRequests ==
  /\ pc = "sdo_req"
  /\ \E made \in SUBSET {k \in DOMAIN sdo_head : OfSlave(sdo_head[k], S)} :
       sdo_head' = [k \in DOMAIN sdo_head |->
         IF OfSlave(sdo_head[k], S) THEN Asked(sdo_head[k], k \in made)
                                    ELSE sdo_head[k]]
  /\ \/ cur < Len(slave_list) /\ cur' = cur + 1 /\ pc' = "get_master"
     \/ cur = Len(slave_list) /\ cur' = 1 /\ pc' = "activate"
  /\ UNCHANGED <<convert_list, master, domain, blocks, slave_list,
                 master_list, domain_list, pdo_map, domain_ptrs>>

-----------------------------------------------------------------------------
(* Second loop: activate the master, then allocate the conversion lists of *)
(* its domains, both in one array, and start counting again from 0.        *)

\* And wrong: the counts go on from the registration; the places before the
\* outputs end one short, or two.
CountsKept(d) == [d EXCEPT !.output_base = d.input_count + 1]

OutputsBefore(d) ==
  [d EXCEPT !.output_base = d.input_count - 1,
            !.input_count = 0,
            !.output_count = 0]

Allocated(d) ==
  [d EXCEPT !.output_base = d.input_count + 1,
            !.input_count = 0,
            !.output_count = 0]

EmptyList(d) == [k \in 0..(d.input_count + d.output_count + 1) |-> NoCopy]

Activate ==
  /\ pc = "activate"
  /\ \/ /\ pc' = "failed"
        /\ UNCHANGED <<cur, master_list, domain_list, convert_list>>
     \/ /\ master_list' = [master_list EXCEPT ![cur].active = TRUE]
        /\ domain_list' = [d \in DOMAIN domain_list |->
             IF domain_list[d].master = cur THEN Allocated(domain_list[d])
                                            ELSE domain_list[d]]
        /\ convert_list' =
             [d \in {k \in DOMAIN domain_list : domain_list[k].master <= cur}
                |-> IF domain_list[d].master = cur
                    THEN EmptyList(domain_list[d])
                    ELSE convert_list[d]]
        /\ \/ cur < Len(master_list) /\ cur' = cur + 1 /\ UNCHANGED pc
           \/ /\ cur = Len(master_list)
              /\ cur' = 1
              /\ pc' = IF slave_list = <<>> THEN "running" ELSE "fill_rx"
  /\ UNCHANGED <<master, domain, blocks, slave_list, pdo_map, sdo_head,
                 domain_ptrs>>

(* Third loop: one conversion per PDO entry of the slave, at the place the *)
(* domain has counted to.                                                  *)
\* And wrong: one place too far.
FilledBehind(list, from, n, dir) ==
  [k \in DOMAIN list |->
     IF k \in (from + 1)..(from + n)
     THEN [slave |-> cur, dir |-> dir, entry |-> k - from]
     ELSE list[k]]

Filled(list, from, n, dir) ==
  [k \in DOMAIN list |->
     IF k \in from..(from + n - 1)
     THEN [slave |-> cur, dir |-> dir, entry |-> k - from + 1]
     ELSE list[k]]

FillRx ==
  /\ pc = "fill_rx"
  /\ LET d == pdo_map[cur].rx
     IN  IF S.rx = 0 THEN UNCHANGED <<domain_list, convert_list>>
         ELSE /\ domain_list' =
                   [domain_list EXCEPT ![d].output_count = @ + S.rx]
              /\ convert_list' = [convert_list EXCEPT ![d] =
                   Filled(@, domain_list[d].output_base
                               + domain_list[d].output_count, S.rx, "rx")]
  /\ pc' = "fill_tx"
  /\ UNCHANGED <<locals, blocks, slave_list, master_list, pdo_map, sdo_head,
                 domain_ptrs>>

FillTx ==
  /\ pc = "fill_tx"
  /\ LET d == pdo_map[cur].tx
     IN  IF S.tx = 0 THEN UNCHANGED <<domain_list, convert_list>>
         ELSE /\ domain_list' =
                   [domain_list EXCEPT ![d].input_count = @ + S.tx]
              /\ convert_list' = [convert_list EXCEPT ![d] =
                   Filled(@, domain_list[d].input_count, S.tx, "tx")]
  /\ \/ cur < Len(slave_list) /\ cur' = cur + 1 /\ pc' = "fill_rx"
     \/ cur = Len(slave_list) /\ pc' = "running" /\ UNCHANGED cur
  /\ UNCHANGED <<master, domain, blocks, slave_list, master_list, pdo_map,
                 sdo_head, domain_ptrs>>

-----------------------------------------------------------------------------
Init ==
  /\ pc = "mdlStart"
  /\ cur = 1
  /\ master = Null
  /\ domain = Null
  /\ blocks = 0
  /\ slave_list = <<>>
  /\ master_list = <<>>
  /\ domain_list = <<>>
  /\ convert_list = <<>>
  /\ pdo_map = <<>>
  /\ sdo_head = <<>>
  /\ domain_ptrs = <<>>

BlockStart ==
  \/ \E s \in Slave : SlaveStart(s)
  \/ \E id \in MasterIds, dec \in 0..1 : MasterStateStart(id, dec)
  \/ \E id \in MasterIds, dom \in DomainIds, t \in Tids, mode \in Modes :
       DomainStateStart(id, dom, t, mode)
  \/ \E id \in MasterIds, p \in Positions : SdoHandler(id, p)
  \/ DomainStateSecond

InitSlave ==
  \/ InitSlaveMaster \/ InitSlaveConfig
  \/ RxDomain \/ RxPdos
  \/ TxDomain \/ TxPdos
  \/ SdoRequests

\* MdlStart has returned, or the program died in it.
Stopped == {"running", "failed", "nullHandle", "wildHead"}
Finished == pc \in Stopped /\ UNCHANGED vars

Next ==
  \/ BlockStart \/ EcsStart \/ InitSlave
  \/ Activate \/ FillRx \/ FillTx
  \/ Finished

Spec == Init /\ [][Next]_vars

-----------------------------------------------------------------------------
(* Properties                                                              *)

Filling == {"fill_rx", "fill_tx", "running"}
Started == Filling \cup {"activate"}
Initing == {"get_master", "config", "rx_domain", "rx_pdos", "tx_domain",
            "tx_pdos", "sdo_req"}

PcOK ==
  pc \in {"mdlStart", "secondPtr"} \cup Initing \cup Started \cup Stopped

LocalsOK ==
  /\ cur \in Nat
  /\ master \in Nat
  /\ domain \in Nat \cup {Crash}
  /\ blocks \in 0..MaxBlocks

ListsOK ==
  /\ slave_list \in Seq(Slave)
  /\ master_list \in Seq(Master)
  /\ domain_list \in Seq(Domain)
  /\ pdo_map \in Seq(PdoMap)
  /\ sdo_head \in Seq(SdoRequest)
  /\ domain_ptrs \in Seq(DomainPtr)

ConvertListsOK ==
  \A k \in DOMAIN convert_list :
    convert_list[k] \in [DOMAIN convert_list[k] -> Convert]

\* The variables hold values of the types of the C declarations.
TypeOK == PcOK /\ LocalsOK /\ ListsOK /\ ConvertListsOK

\* The tasks that use master i so far: those of the slaves init_slave() has
\* taken up and of the Domain State blocks.
Users(i) ==
  LET id == master_list[i].id
  IN  {slave_list[k].tid : k \in {j \in DOMAIN slave_list :
         /\ slave_list[j].master = id
         /\ \/ pc \in Started
            \/ pc \in Initing /\ (j < cur \/ (j = cur /\ pc # "get_master"))}}
      \cup {domain_ptrs[k].tid :
              k \in {j \in DOMAIN domain_ptrs : domain_ptrs[j].master = id}}

(* fastest_tid of a master is the smallest task id among all its users,    *)
(* and ~0U, which no task has, only when nobody uses it: the one task that *)
(* receives and sends the master's frames exists and is the fastest one.   *)
FastestTask ==
  pc \notin {"failed", "nullHandle", "wildHead"} =>
    \A i \in DOMAIN master_list :
      LET t == master_list[i].fastest_tid
      IN  /\ \A u \in Users(i) : t <= u
          /\ t \in Users(i) \cup {NoTid}

(* Every master and domain has a handle once ecs_start() activates and     *)
(* from then on: a failed request never reaches the cyclic code, although  *)
(* get_master() and get_domain() leave the failed object in their lists.   *)
HandlesValid ==
  pc \in Started =>
    /\ \A i \in DOMAIN master_list : master_list[i].handle
    /\ \A d \in DOMAIN domain_list : domain_list[d].handle

(* The counts of the registration pass size the array; the fill pass       *)
(* counts again. Neither list may reach its terminating empty entry, the   *)
(* input list not the output list behind it (ecs_receive() and ecs_send()  *)
(* run each list up to the first entry without a copy function).           *)
ConvertListsBounded ==
  pc \in Filling =>
    \A k \in DOMAIN domain_list :
      LET d == domain_list[k]
          last == d.output_base + d.output_count
      IN  /\ d.input_count < d.output_base
          /\ convert_list[k][d.output_base - 1] = NoCopy
          /\ last \in DOMAIN convert_list[k]
          /\ convert_list[k][last] = NoCopy

\* The entries a list walk from place `from` runs.
RunFrom(list, from) ==
  {list[k] : k \in {j \in DOMAIN list :
     j >= from /\ \A i \in from..j : list[i] # NoCopy}}

(* After a successful start every PDO entry of every slave is converted    *)
(* by the task of the slave's block: it stands in the list that the task   *)
(* runs, in a domain of the slave's master, domain number and task whose   *)
(* flag lets ecs_receive() or ecs_send() run that list; and the lists hold *)
(* no other entries.                                                       *)
ServesKey(d, s) ==
  /\ master_list[d.master].id = s.master
  /\ d.id = s.domain
  /\ d.tid = s.tid

PdosConverted ==
  pc = "running" =>
    /\ \A n \in DOMAIN slave_list :
         LET s == slave_list[n]
         IN  /\ s.rx > 0 => LET k == pdo_map[n].rx
                                d == domain_list[k] IN
                  /\ ServesKey(d, s) /\ d.output
                  /\ \A e \in 1..s.rx :
                       [slave |-> n, dir |-> "rx", entry |-> e]
                         \in RunFrom(convert_list[k], d.output_base)
             /\ s.tx > 0 => LET k == pdo_map[n].tx
                                d == domain_list[k] IN
                  /\ ServesKey(d, s) /\ d.input
                  /\ \A e \in 1..s.tx :
                       [slave |-> n, dir |-> "tx", entry |-> e]
                         \in RunFrom(convert_list[k], 0)
    /\ \A k \in DOMAIN domain_list :
         LET d == domain_list[k]
         IN  /\ \A c \in RunFrom(convert_list[k], 0) : c.dir = "tx"
             /\ \A c \in RunFrom(convert_list[k], d.output_base) : c.dir = "rx"

\* Two slaves of one key [master, sample time, domain].
SameKey(a, b) == a.master = b.master /\ a.domain = b.domain /\ a.tid = b.tid

(* Slaves of the same key share the domain of their outputs, and that of   *)
(* their inputs, whatever Domain State blocks came before them.            *)
SameDirectionSameDomain ==
  pc = "running" =>
    \A a, b \in DOMAIN slave_list :
      SameKey(slave_list[a], slave_list[b]) =>
        /\ slave_list[a].rx > 0 /\ slave_list[b].rx > 0 =>
             pdo_map[a].rx = pdo_map[b].rx
        /\ slave_list[a].tx > 0 /\ slave_list[b].tx > 0 =>
             pdo_map[a].tx = pdo_map[b].tx

\* What general.html says of a Domain State block: the domain it watches
\* holds the entries of its direction of every slave of its key.
Monitors(p) ==
  \A n \in DOMAIN slave_list :
    SameKey(slave_list[n], p) =>
      /\ p.output /\ slave_list[n].rx > 0 => pdo_map[n].rx = p.ptr
      /\ p.input /\ slave_list[n].tx > 0 => pdo_map[n].tx = p.ptr

(* It does as long as no two blocks disagree whether the key has one domain *)
(* for both directions or one for each. Else the later block widens the    *)
(* first domain, and the earlier one is left with a domain without slaves. *)
UniformKeys ==
  \A j, k \in DOMAIN domain_ptrs :
    LET p == domain_ptrs[j]
        q == domain_ptrs[k]
    IN  SameKey(p, q) => (p.input /\ p.output) = (q.input /\ q.output)

UniformKeysMonitored ==
  pc = "running" /\ UniformKeys =>
    \A k \in DOMAIN domain_ptrs : Monitors(domain_ptrs[k])

(* A failing request ends MdlStart before its NULL handle is used, except  *)
(* for the second pointer of a Domain State block: it is fetched before    *)
(* domain_state.tlc's test of the first one.                               *)
NullHandleOnlySecond ==
  pc = "nullHandle" =>
    \E k \in 2..Len(domain_ptrs) :
      /\ domain_ptrs[k - 1].ptr = Null
      /\ domain_ptrs[k].ptr = Crash
      /\ SameKey(domain_ptrs[k - 1], domain_ptrs[k])

(* init_slave() ignores a refused SDO request, and each slave of a         *)
(* request's address writes *addr anew. So after a successful start the    *)
(* request is that of the last slave block of its master and address; or   *)
(* *addr is NULL, because that block's was refused, whatever an earlier    *)
(* one had got; or it is not written, because no block has the address.    *)
SdoRequestsBound ==
  pc = "running" =>
    \A k \in DOMAIN sdo_head :
      LET q == sdo_head[k]
          named == {n \in DOMAIN slave_list :
                      slave_list[n].master = q.master
                        /\ slave_list[n].position = q.position}
      IN  /\ q.bound \in {q.asked, Null}
          /\ IF named = {} THEN q.asked = Null
             ELSE q.asked \in named /\ \A n \in named : n <= q.asked
=============================================================================
