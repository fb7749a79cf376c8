------------------------------ MODULE EcSlave3 ------------------------------
(***************************************************************************)
(* A slave block from its configuration structure to the tables in the     *)
(* generated program: ec_slave3.c reads and checks the structure, settles  *)
(* the data types and widths of its inputs with Simulink, and numbers the  *)
(* records that ec_slave3.tlc finds again by these numbers when it writes  *)
(* the PDO map, the configuration tables and the code of the ports.        *)
(*                                                                         *)
(* Matlab's arrays are sequences; indices of the configuration count from  *)
(* 0 as in the C code. Allocation never fails. External: Simulink calls    *)
(* the methods of an S-function in stages, and those that settle its       *)
(* inputs in any order.                                                    *)
(***************************************************************************)
EXTENDS Integers, FiniteSets, SequencesExt

CONSTANTS
  Configs,      \* the configurations of the block
  ClockTick,    \* sample time of a continuous block, in the unit of `dc`
  Others,       \* other slave blocks of the diagram: [key, sm]
  MaxOthers,    \* bound: how many of them are generated before this one
  InputTypes    \* the data types a signal of the model may have

(* What Matlab hands over: arrays, with numbers where the code reads        *)
(* numbers. A port without rows has the form "none".                       *)
Array(s) == s \in Seq(Range(s))

SyncManagers ==
  Seq([cells : Nat, index : Int, direction : Int,
       pdo : Seq([cells : Nat, index : Int, columns : Nat,
                  entry : Seq([index : Nat, subindex : Nat, bitlen : Nat])])])

ParamSpecOK(spec) == spec.form \in {"vector", "named"} => Array(spec.value)

PortSpecOK(spec) ==
  /\ spec.form = "raw" => spec.pdo \in Nat \X Nat
  /\ spec.form = "entries" =>
       /\ spec.pdo \in Seq(Nat \X Nat \X Nat \X Nat) \ {<<>>}
       /\ spec.pdo_data_type \in [class : Nat, bits : Nat]
       /\ ParamSpecOK(spec.gain) /\ ParamSpecOK(spec.offset)
       /\ ParamSpecOK(spec.filter)

ASSUME ConfigsAssumption ==
  \A c \in Configs :
    /\ c.sm \in SyncManagers
    /\ Array(c.output) /\ Array(c.input) /\ Array(c.parameter)
    /\ Array(c.sdo) /\ Array(c.soe)
    /\ \A i \in DOMAIN c.output : PortSpecOK(c.output[i])
    /\ \A i \in DOMAIN c.input : PortSpecOK(c.input[i])
    /\ \A i \in DOMAIN c.parameter : Array(c.parameter[i].value)

ASSUME OthersAssumption == \A o \in Others : o.sm \in SyncManagers

\* The times are numbers, and no cycle lasts less than no time.
ASSUME SettingsAssumption ==
  /\ ClockTick \in Nat
  /\ \A c \in Configs :
       /\ c.SampleTime \in Nat
       /\ c.dc \in Seq(Int) /\ (Len(c.dc) > 1 => c.dc[2] >= 0)
       /\ \A i \in DOMAIN c.sdo : Array(c.sdo[i].value)

ASSUME TypesAssumption == "dynamic" \notin InputTypes

VARIABLES
  cfg,          \* the mask parameters of the block
  pc,           \* the method that is due, "done" or "error"
  slave,        \* struct ecat_slave
  connected,    \* the inputs that a signal is connected to
  inType,       \* data type of each input port, Dynamic until settled
  inWidth,      \* width of each input port, Dynamic until settled
  dwork,        \* the work vectors: [width, type]
  rtp,          \* the runtime parameters: [name, value]
  rtw,          \* what mdlRTW() writes
  gen,          \* what ec_slave3.tlc writes
  PDO_Map,      \* product -> its sync manager tables so far
  users         \* history: [sm, id], a block and the tables it was given

sizes == <<connected, inType, inWidth>>
vars == <<cfg, pc, slave, sizes, dwork, rtp, rtw, gen, PDO_Map, users>>

Dynamic == -1
DynamicType == "dynamic"
Untold == -1    \* -1 of the code: no such index; no number in cfg.sm
NoName == <<"", "", 0>>    \* a name is a prefix, a word and a number

\* A loop over a sequence is a recursive function of the number of its turns,
\* so that the proofs can unroll it. This one adds up the first n elements.
SumTo(s, n) ==
  LET sum[k \in 0..Len(s)] == IF k = 0 THEN 0 ELSE sum[k - 1] + s[k]
  IN  sum[n]

Sum(s) == SumTo(s, Len(s))

-----------------------------------------------------------------------------
(* Data types: the class (1 unsigned, 2 signed, 3 float) and the bits make *)
(* the id; datatype_info[] lists the ids there are.                        *)

DataTypeIds ==
  (1001..1008) \cup {1016, 1024, 1032, 1040, 1048, 1056, 1064}
    \cup {2008, 2016, 2032, 2064} \cup {3032, 3064}

MantBits(id) == id % 1000

SlType(id) ==
  CASE id = 1001 -> "boolean"
    [] id \in 1002..1008 -> "uint8"
    [] id = 1016 -> "uint16"
    [] id \in {1024, 1032} -> "uint32"
    [] id = 2008 -> "int8"
    [] id = 2016 -> "int16"
    [] id = 2032 -> "int32"
    [] id = 3032 -> "single"
    [] OTHER -> "double"

\* get_data_type(): 0 where no row of the table fits.
GetDataType(spec) ==
  LET id == 1000 * spec.class + spec.bits
  IN  IF id \in DataTypeIds THEN id ELSE 0

-----------------------------------------------------------------------------
(* get_slave_config(): the settings of the slave.                          *)

SdoValid(sdo) ==
  /\ sdo.subindex \in -1..255
  /\ sdo.value # <<>>
  /\ sdo.bitlen # 0 => Len(sdo.value) = 1 /\ sdo.bitlen \in {8, 16, 32}

\* The type of a single value; arrays are bytes. And wrong: always bytes.
SdoTypeBytes(bitlen) == 1008
SdoType(bitlen) == IF bitlen = 0 THEN 1008 ELSE 1000 + bitlen

GetSlaveSdo(sdo) ==
  [index |-> sdo.index, subindex |-> sdo.subindex,
   datatype |-> SdoType(sdo.bitlen),
   value |-> IF sdo.bitlen = 0 THEN Len(sdo.value) ELSE Head(sdo.value),
   byte_array |-> IF sdo.bitlen = 0 THEN sdo.value ELSE <<>>]

SoeValid(soe) == soe.form \in {"string", "numbers"} /\ soe.value # <<>>

\* mxGetString() is given room for n characters, the end mark included.
GetSlaveSoe(soe) ==
  [index |-> soe.index,
   octet_string |-> IF soe.form = "string" THEN Front(soe.value) ELSE soe.value]

ParameterValid(p) ==
  p.name # NoName /\ p.value # <<>> /\ p.source \in {"mask", "value"}

\* get_numeric_field(): there, a number or logical, and not NaN; zero may be.
\* get_numeric_scalar() asks less of the cells of a sync manager.
NumericField(c, name) == name \in c.numbers
NumericScalar(x) == x # Untold

\* get_slave_info() and get_slave_config().
Required == {"master", "domain", "alias", "position", "vendor", "product"}

\* get_slave_dc(): AssignActivate alone, or with four times and their factors
\* and, between them, the input shift.
DcValid(dc) == Len(dc) \in {0, 1, 10}

NoDc == [AssignActivate |-> 0, ShiftTimeSync0Input |-> FALSE,
         Time |-> <<0, 0, 0, 0>>, Factor |-> <<0, 0, 0, 0>>]

GetSlaveDc(dc) ==
  IF dc = <<>> THEN NoDc
  ELSE IF Len(dc) = 1 \/ Head(dc) = 0
  THEN [NoDc EXCEPT !.AssignActivate = Head(dc)]
  ELSE [AssignActivate |-> Head(dc), ShiftTimeSync0Input |-> dc[6] # 0,
        Time |-> <<dc[2], dc[4], dc[7], dc[9]>>,
        Factor |-> <<dc[3], dc[5], dc[8], dc[10]>>]

\* get_sync_manager_pdo() and get_sync_manager(): cells with an index, and the
\* entries in rows of three numbers if there are any.
PdoValid(pdo) ==
  /\ pdo.cells = 2 /\ NumericScalar(pdo.index)
  /\ pdo.entry # <<>> => pdo.columns = 3

SyncManagerValid(sm) ==
  /\ sm.cells = 3 /\ NumericScalar(sm.index) /\ NumericScalar(sm.direction)
  /\ \A k \in DOMAIN sm.pdo : PdoValid(sm.pdo[k])

GetSyncManager(sm) ==
  [index |-> sm.index, input |-> sm.direction # 0,
   pdo |-> [k \in DOMAIN sm.pdo |->
              [index |-> sm.pdo[k].index, entry |-> sm.pdo[k].entry]]]

ConfigValid(c) ==
  /\ \A name \in Required : NumericField(c, name)
  /\ DcValid(c.dc)
  /\ \A i \in DOMAIN c.sm : SyncManagerValid(c.sm[i])
  /\ \A i \in DOMAIN c.sdo : SdoValid(c.sdo[i])
  /\ \A i \in DOMAIN c.soe : SoeValid(c.soe[i])
  /\ \A i \in DOMAIN c.parameter : ParameterValid(c.parameter[i])

-----------------------------------------------------------------------------
(* get_port_parameter(): gain, offset and filter of a port.                *)

NoParam == [name |-> NoName, value |-> <<>>, is_ref |-> FALSE,
            element_idx |-> Untold]

ParamOf(c, spec) ==
  CASE spec.form \in {"vector", "named"} /\ spec.value # <<>> ->
         [NoParam EXCEPT !.name = spec.name, !.value = spec.value]
    [] spec.form = "ref" ->
         LET p == c.parameter[spec.parameter + 1]
         IN  [name |-> p.name, value |-> p.value, is_ref |-> TRUE,
              element_idx |-> spec.element]
    [] OTHER -> NoParam

FitsWidth(p, width) ==
  p.element_idx < 0 => Len(p.value) \in {0, 1, width}

ParamValid(c, spec, width) ==
  /\ spec.form \in {"none", "vector", "named", "ref"}
  /\ spec.form = "named" /\ spec.value # <<>> => spec.name # NoName
  /\ spec.form = "ref" =>
       /\ spec.parameter \in 0..(Len(c.parameter) - 1)
       /\ spec.element
            \in Untold..(Len(c.parameter[spec.parameter + 1].value) - 1)
  /\ FitsWidth(ParamOf(c, spec), width)

IsSet(p) == p.value # <<>>                    \* ptr is not NULL
Counted(p) == IF p.name # NoName /\ ~p.is_ref THEN 1 ELSE 0

-----------------------------------------------------------------------------
(* get_port_config(): a port's PDO elements, data type and work vector.    *)

PdoOf(c, row) == c.sm[row[1] + 1].pdo[row[2] + 1]

RowValid(c, id, row) ==
  /\ row[1] < Len(c.sm)
  /\ row[2] < Len(c.sm[row[1] + 1].pdo)
  /\ row[3] < Len(PdoOf(c, row).entry)
  /\ LET e == PdoOf(c, row).entry[row[3] + 1]
     IN  /\ e.index # 0
         /\ e.bitlen % MantBits(id) = 0
         /\ MantBits(id) * (row[4] + 1) <= e.bitlen

PortValid(c, spec, dir) ==
  CASE spec.form = "none" -> TRUE
    [] spec.form = "raw" -> /\ spec.pdo[1] < Len(c.sm)
                            /\ spec.pdo[2] < Len(c.sm[spec.pdo[1] + 1].pdo)
    [] spec.form = "entries" ->
         LET id == GetDataType(spec.pdo_data_type)
         IN  /\ id # 0
             /\ \A j \in DOMAIN spec.pdo : RowValid(c, id, spec.pdo[j])
             /\ ParamValid(c, spec.gain, Len(spec.pdo))
             /\ ParamValid(c, spec.offset, Len(spec.pdo))
             /\ dir = "in" => ParamValid(c, spec.filter, Len(spec.pdo))
    [] OTHER -> FALSE

\* get_port_raw_pdo_spec(): all bytes of a PDO, counted from its first entry.
RawPort(c, spec) ==
  LET entry == PdoOf(c, spec.pdo).entry
      bits == Sum([i \in DOMAIN entry |-> entry[i].bitlen])
  IN  [pdo |-> [j \in 1..((bits + 7) \div 8) |->
                  [entry |-> entry[1], element_idx |-> j - 1]],
       data_type |-> 1008, big_endian |-> FALSE, gain |-> NoParam,
       offset |-> NoParam, filter |-> NoParam, fullscale |-> 0,
       dwork_idx |-> 0, sl_port_data_type |-> "uint8"]

Converted(port) ==
  \/ IsSet(port.gain) \/ IsSet(port.offset) \/ IsSet(port.filter)
  \/ port.fullscale # 0

\* Work vectors are counted from 1, 0 is none.
NextDwork(dwork_count) == dwork_count + 1

\* get_port_pdo_spec(): dwork_count work vectors are taken before.
PdoPort(c, spec, dir, dwork_count) ==
  LET id == GetDataType(spec.pdo_data_type)
      port ==
        [pdo |-> [j \in DOMAIN spec.pdo |->
                    [entry |-> PdoOf(c, spec.pdo[j]).entry[spec.pdo[j][3] + 1],
                     element_idx |-> spec.pdo[j][4]]],
         data_type |-> id, big_endian |-> spec.big_endian,
         gain |-> ParamOf(c, spec.gain), offset |-> ParamOf(c, spec.offset),
         filter |-> IF dir = "in" THEN ParamOf(c, spec.filter) ELSE NoParam,
         fullscale |-> spec.full_scale, dwork_idx |-> 0,
         sl_port_data_type |-> IF dir = "out" THEN DynamicType ELSE SlType(id)]
  IN  IF Converted(port)
      THEN [port EXCEPT !.dwork_idx = NextDwork(dwork_count),
                        !.sl_port_data_type = "double"]
      ELSE port

\* A round of the loop of get_port_config(). A port without PDOs is dropped.
AddPort(c, s, spec, dir) ==
  LET port == IF spec.form = "raw" THEN RawPort(c, spec)
              ELSE PdoPort(c, spec, dir, s.dwork_count)
  IN  IF spec.form = "none" THEN s
      ELSE [o_port |-> IF dir = "in" THEN Append(s.o_port, port) ELSE s.o_port,
            i_port |-> IF dir = "in" THEN s.i_port ELSE Append(s.i_port, port),
            filter_count |-> s.filter_count
              + (IF IsSet(port.filter) THEN Len(port.pdo) ELSE 0),
            runtime_param_count |-> s.runtime_param_count
              + Counted(port.gain) + Counted(port.offset)
              + Counted(port.filter),
            dwork_count |-> s.dwork_count
              + (IF port.dwork_idx # 0 THEN 1 ELSE 0)]

NoSlave == [o_port |-> <<>>, i_port |-> <<>>, filter_count |-> 0,
            runtime_param_count |-> 0, dwork_count |-> 0]

\* get_ioport_config(): outputs of the block are inputs of the master.
ReadPort(c, s, k) ==
  LET outputs == Len(c.output)
  IN  IF k <= outputs THEN AddPort(c, s, c.output[k], "in")
      ELSE AddPort(c, s, c.input[k - outputs], "out")

GetIoportConfig(c) ==
  LET none == [NoSlave EXCEPT !.runtime_param_count = Len(c.parameter)]
      count == Len(c.output) + Len(c.input)
      read[k \in 0..count] ==
        IF k = 0 THEN none ELSE ReadPort(c, read[k - 1], k)
  IN  read[count]

PortsValid(c) ==
  /\ \A i \in DOMAIN c.output : PortValid(c, c.output[i], "in")
  /\ \A i \in DOMAIN c.input : PortValid(c, c.input[i], "out")

-----------------------------------------------------------------------------
(* mdlSetWorkWidths(): work vectors and runtime parameters.                *)

Ports == slave.o_port \o slave.i_port
Widths == [i \in DOMAIN slave.o_port |-> Len(slave.o_port[i].pdo)] \o inWidth

\* The type of a work vector is that of the PDO. And wrong: of the signal.
SignalType(port) == port.sl_port_data_type
WorkType(port) == SlType(port.data_type)

DWorks ==
  [k \in 1..slave.dwork_count |->
     LET with == {i \in DOMAIN Ports : Ports[i].dwork_idx = k}
     IN  IF with = {} THEN [width |-> 0, type |-> "none"]
         ELSE [width |-> Widths[Max(with)],
               type |-> WorkType(Ports[Max(with)])]]

\* create_runtime_parameter(). And wrong: also for a reference.
CreateAlso(r, p) ==
  IF p.name = NoName THEN r
  ELSE Append(r, [name |-> p.name, value |-> p.value])

Create(r, p) ==
  IF p.name = NoName \/ p.is_ref THEN r
  ELSE Append(r, [name |-> p.name, value |-> p.value])

CreateOf(r, port) ==
  Create(Create(Create(r, port.gain), port.offset), port.filter)

RuntimeParams ==
  LET globals == [i \in DOMAIN cfg.parameter |->
                    [name |-> cfg.parameter[i].name,
                     value |-> cfg.parameter[i].value]]
      create[k \in 0..Len(Ports)] ==
        IF k = 0 THEN globals ELSE CreateOf(create[k - 1], Ports[k])
  IN  create[Len(Ports)]

-----------------------------------------------------------------------------
(* mdlRTW(): the records of the block, numbered as they are written. The   *)
(* code generator finds them as SFcnParamSettings[number].                 *)

NoRtw == [settings |-> <<>>, param_idx |-> 0, param |-> <<>>,
          SdoConfig |-> <<>>, SoeConfig |-> <<>>, DcOpMode |-> Untold,
          OutputPortIdx |-> <<>>, InputPortIdx |-> <<>>, FilterCount |-> 0,
          tables |-> <<>>]

\* A record whose number is noted in a list.
WriteListed(w, list, r) ==
  [w EXCEPT !.settings = Append(@, r), ![list] = Append(@, w.param_idx),
            !.param_idx = @ + 1]

WriteDc(w) ==
  LET dc == GetSlaveDc(cfg.dc)
  IN  IF dc.AssignActivate = 0 \/ cfg.sm = <<>> THEN w
      ELSE [w EXCEPT !.settings = Append(@, dc),
                     !.DcOpMode = w.param_idx, !.param_idx = @ + 1]

\* mdlRTWWritePortParameter(): name and element, or the values. And wrong:
\* the element is forgotten.
ParamRecordWhole(p) ==
  IF p.name # NoName THEN [Name |-> p.name, Element |-> Untold]
  ELSE [Value |-> p.value]

ParamRecord(p) ==
  IF p.name # NoName THEN [Name |-> p.name, Element |-> p.element_idx]
  ELSE [Value |-> p.value]

WritePortParameter(w, k, p) ==
  IF ~IsSet(p) THEN w
  ELSE [w EXCEPT !.settings = Append(@, ParamRecord(p)),
                 !.param[k] = w.param_idx, !.param_idx = @ + 1]

\* mdlRTWWritePort()
WritePort(w, list, port) ==
  LET fresh == [w EXCEPT !.param = <<Untold, Untold, Untold>>]
      gain == WritePortParameter(fresh, 1, port.gain)
      offset == WritePortParameter(gain, 2, port.offset)
      filter == WritePortParameter(offset, 3, port.filter)
  IN  WriteListed(filter, list,
        [Pdo |-> [j \in DOMAIN port.pdo |->
                    <<port.pdo[j].entry.index, port.pdo[j].entry.subindex,
                      port.pdo[j].element_idx>>],
         PdoDataTypeId |-> port.data_type, BigEndian |-> port.big_endian,
         Param |-> filter.param, FullScale |-> port.fullscale,
         DWorkIndex |-> port.dwork_idx])

WriteAll(w, list, records) ==
  LET write[k \in 0..Len(records)] ==
        IF k = 0 THEN w ELSE WriteListed(write[k - 1], list, records[k])
  IN  write[Len(records)]

WritePorts(w, list, ports) ==
  LET write[k \in 0..Len(ports)] ==
        IF k = 0 THEN w ELSE WritePort(write[k - 1], list, ports[k])
  IN  write[Len(ports)]

\* The nested definition of the sync managers as three flat tables.
Tables(def) ==
  LET sm == [i \in DOMAIN def |-> GetSyncManager(def[i])]
      pdos == FlattenSeq([i \in DOMAIN sm |-> sm[i].pdo])
  IN  [SyncManager |-> [i \in DOMAIN sm |->
         [index |-> sm[i].index, input |-> sm[i].input,
          PdoCount |-> Len(sm[i].pdo)]],
       PdoInfo |-> [i \in DOMAIN pdos |->
         [index |-> pdos[i].index, PdoEntryCount |-> Len(pdos[i].entry)]],
       PdoEntryInfo |-> FlattenSeq([i \in DOMAIN pdos |-> pdos[i].entry])]

Rtw ==
  LET w1 == WriteAll(NoRtw, "SdoConfig",
                     [i \in DOMAIN cfg.sdo |-> GetSlaveSdo(cfg.sdo[i])])
      w2 == WriteAll(w1, "SoeConfig",
                     [i \in DOMAIN cfg.soe |-> GetSlaveSoe(cfg.soe[i])])
      w3 == WritePorts(WriteDc(w2), "OutputPortIdx", slave.o_port)
      w4 == WritePorts(w3, "InputPortIdx", slave.i_port)
  IN  [w4 EXCEPT !.FilterCount = slave.filter_count,
                 !.tables = IF cfg.sm = <<>> THEN @ ELSE Tables(cfg.sm)]

SFcnParamSettings(i) == rtw.settings[i + 1]
OutputPort(i) == SFcnParamSettings(rtw.OutputPortIdx[i])
InputPort(i) == SFcnParamSettings(rtw.InputPortIdx[i])

-----------------------------------------------------------------------------
(* ec_slave3.tlc: the tables of the generated program.                     *)

\* GetSdoConfig(): a byte array is always sent by complete access.
GetSdoConfig ==
  [i \in DOMAIN rtw.SdoConfig |->
     LET r == SFcnParamSettings(rtw.SdoConfig[i])
     IN  IF r.byte_array # <<>>
         THEN [datatype |-> 1008, index |-> r.index, subindex |-> -1,
               value |-> Len(r.byte_array), byte_array |-> r.byte_array]
         ELSE [r EXCEPT !.byte_array = <<>>]]

GetSoeConfig ==
  [i \in DOMAIN rtw.SoeConfig |-> SFcnParamSettings(rtw.SoeConfig[i])]

\* The clock mode as it is written into the table of the slave.
NoClock == [assign |-> 0, input |-> FALSE, cycle0 |-> 0, cycle1 |-> 0,
            shift |-> 0]

Scale(t, f) == IF f >= 0 THEN t * f ELSE t \div (-f)
SampleTime == IF cfg.SampleTime # 0 THEN cfg.SampleTime ELSE ClockTick

CycleTime0(DC) ==
  IF DC.Time[1] # 0 THEN DC.Time[1] ELSE Scale(SampleTime, DC.Factor[1])

T1(DC) ==
  IF DC.Time[3] # 0 THEN DC.Time[3]
  ELSE IF DC.Factor[3] > 0 THEN CycleTime0(DC) * DC.Factor[3]
  ELSE IF DC.Factor[3] < 0 THEN SampleTime * (-DC.Factor[3])
  ELSE Max({SampleTime, CycleTime0(DC)})

GetDcOpModeConfigId ==
  IF rtw.DcOpMode = Untold THEN NoClock
  ELSE LET DC == SFcnParamSettings(rtw.DcOpMode)
       IN  [assign |-> DC.AssignActivate, input |-> DC.ShiftTimeSync0Input,
            cycle0 |-> CycleTime0(DC),
            cycle1 |-> T1(DC) - CycleTime0(DC) + DC.Time[4],
            shift |-> DC.Time[2] + Scale(CycleTime0(DC), DC.Factor[2])]

\* A row of the map; addr is the work vector or signal, and the place in it.
MapRow(port, j, signal) ==
  [index |-> port.Pdo[j][1], subindex |-> port.Pdo[j][2],
   datatype |-> port.PdoDataTypeId, bigendian |-> port.BigEndian,
   idx |-> port.Pdo[j][3],
   addr |-> IF port.DWorkIndex # 0 THEN <<"dwork", port.DWorkIndex, j>>
            ELSE Append(signal, j)]

\* LibBlockInputSignalWidth(). And wrong: the width of the PDO specification.
SpecWidth(i) == Len(slave.i_port[i].pdo)
InputWidth(i) == inWidth[i]

GetPdoMap ==
  LET inputs == [i \in DOMAIN rtw.InputPortIdx |->
        [j \in 1..InputWidth(i) |-> MapRow(InputPort(i), j, <<"u", i>>)]]
      outputs == [i \in DOMAIN rtw.OutputPortIdx |->
        [j \in DOMAIN slave.o_port[i].pdo |->
           MapRow(OutputPort(i), j, <<"y", i>>)]]
  IN  [InputCount |-> Len(FlattenSeq(inputs)),
       OutputCount |-> Len(FlattenSeq(outputs)),
       rows |-> FlattenSeq(inputs) \o FlattenSeq(outputs)]

\* The C arrays of GetSyncManagerConfigId(): a PDO points to its first entry
\* and a sync manager to its first PDO, counted up in the order of the tables.
Arrays(t) ==
  LET Before(s, i) == SumTo(s, i - 1)
      entries == [i \in DOMAIN t.PdoInfo |-> t.PdoInfo[i].PdoEntryCount]
      pdos == [i \in DOMAIN t.SyncManager |-> t.SyncManager[i].PdoCount]
  IN  [entry |-> t.PdoEntryInfo,
       pdo |-> [i \in DOMAIN t.PdoInfo |->
                  [index |-> t.PdoInfo[i].index, n_entries |-> entries[i],
                   entries |-> Before(entries, i)]],
       sync |-> [i \in DOMAIN t.SyncManager |->
                  [index |-> t.SyncManager[i].index,
                   input |-> t.SyncManager[i].input,
                   n_pdos |-> IF t.PdoInfo = <<>> THEN 0 ELSE pdos[i],
                   pdos |-> Before(pdos, i)]]]

\* GetSyncManagerConfigId(): equal tables of a product are written once.
Known(map, key) == IF key \in DOMAIN map THEN map[key] ELSE <<>>

\* And wrong: the entries are not compared.
SamePdos(t, u) == t.PdoInfo = u.PdoInfo /\ t.SyncManager = u.SyncManager

Same(t, u) ==
  /\ t.PdoEntryInfo = u.PdoEntryInfo
  /\ t.PdoInfo = u.PdoInfo
  /\ t.SyncManager = u.SyncManager

GetSyncManagerConfigId(sm, key, t) ==
  LET maps == Known(PDO_Map, key)
      same == {i \in DOMAIN maps : Same(maps[i].tables, t)}
      id == IF same # {} THEN CHOOSE i \in same : \A k \in same : i <= k
            ELSE Len(maps) + 1
      added == IF same # {} THEN maps
               ELSE Append(maps, [tables |-> t, arrays |-> Arrays(t)])
  IN  IF sm = <<>> THEN UNCHANGED <<PDO_Map, users>>
      ELSE /\ PDO_Map' = [k \in DOMAIN PDO_Map \cup {key} |->
                            IF k = key THEN added ELSE PDO_Map[k]]
           /\ users' = Append(users, [sm |-> sm, key |-> key, id |-> id])

-----------------------------------------------------------------------------
(* ec_slave3.tlc: the code that converts between a port and its work       *)
(* vector, one statement per port, looped over the width.                  *)

NoSetting == [none |-> TRUE]
Setting(i) == IF i = Untold THEN NoSetting ELSE SFcnParamSettings(i)

Statement(port, i, width) ==
  [port |-> i, dwork |-> port.DWorkIndex, width |-> width,
   gain |-> Setting(port.Param[1]), offset |-> Setting(port.Param[2]),
   filter |-> Setting(port.Param[3]), fullscale |-> port.FullScale,
   state |-> Untold]

Filtered(i) == OutputPort(i).Param[3] # Untold
OutWidth(i) == Len(slave.o_port[i].pdo)

\* FilterOffset at port i, in Outputs and in WriteFilter alike. And wrong: one
\* state for a port.
FilterOffsetPorts(i) ==
  Cardinality({k \in 1..(i - 1) : Filtered(k)})

FilterOffset(i) ==
  SumTo([k \in DOMAIN rtw.OutputPortIdx |->
           IF Filtered(k) THEN OutWidth(k) ELSE 0], i - 1)

\* Outputs: a filtered port is a copy of its states.
OutputCode ==
  { IF Filtered(i)
    THEN [port |-> i, state |-> FilterOffset(i), width |-> OutWidth(i)]
    ELSE Statement(OutputPort(i), i, OutWidth(i)) :
      i \in {k \in DOMAIN rtw.OutputPortIdx : OutputPort(k).DWorkIndex # 0} }

\* WriteFilter(), called by Update or, in continuous time, by Derivatives.
FilterCode ==
  { [Statement(OutputPort(i), i, OutWidth(i)) EXCEPT !.state = FilterOffset(i)] :
      i \in {k \in DOMAIN rtw.OutputPortIdx : Filtered(k)} }

\* Update for the inputs: a Boolean is compared with 0 and nothing else.
InputStatement(i) ==
  LET port == InputPort(i)
      all == Statement(port, i, InputWidth(i))
  IN  IF dwork[port.DWorkIndex].type = "boolean"
      THEN [all EXCEPT !.gain = NoSetting, !.offset = NoSetting,
                       !.filter = NoSetting, !.fullscale = 0]
      ELSE all

InputCode ==
  { InputStatement(i) : i \in {k \in DOMAIN rtw.InputPortIdx :
                                 k \in connected /\ InputPort(k).DWorkIndex # 0} }

\* The loop over a wide filtered port asks for `filter`, which is not defined.
FilterRolls ==
  \E i \in DOMAIN rtw.OutputPortIdx :
    Filtered(i) /\ OutWidth(i) >= cfg.RollThreshold

NoGen == [sdo |-> <<>>, soe |-> <<>>, dc |-> NoClock,
          map |-> [InputCount |-> 0, OutputCount |-> 0, rows |-> <<>>],
          outputs |-> {}, filters |-> {}, inputs |-> {}]

-----------------------------------------------------------------------------
Init ==
  /\ cfg \in Configs
  /\ pc = "sizes"
  /\ slave = NoSlave
  /\ connected = {} /\ inType = <<>> /\ inWidth = <<>>
  /\ dwork = <<>> /\ rtp = <<>> /\ rtw = NoRtw /\ gen = NoGen
  /\ PDO_Map = <<>> /\ users = <<>>

Fail == /\ pc' = "error"
        /\ UNCHANGED <<cfg, slave, sizes, dwork, rtp, rtw, gen, PDO_Map, users>>

mdlInitializeSizesFails ==
  pc = "sizes" /\ ~(ConfigValid(cfg) /\ PortsValid(cfg)) /\ Fail

mdlInitializeSizes ==
  /\ pc = "sizes" /\ ConfigValid(cfg) /\ PortsValid(cfg)
  /\ slave' = GetIoportConfig(cfg)
  /\ connected' \in SUBSET (DOMAIN slave'.i_port)
  /\ inWidth' = [i \in DOMAIN slave'.i_port |-> Dynamic]
  /\ inType' = [i \in DOMAIN slave'.i_port |->
                  slave'.i_port[i].sl_port_data_type]
  /\ pc' = "settle"
  /\ UNCHANGED <<cfg, dwork, rtp, rtw, gen, PDO_Map, users>>

\* The signal of an input has a type of its own.
TypeAccepted(port, id) ==
  \/ id \in {SlType(port.data_type), "double", "single"}
  \/ port.data_type = 1001

mdlSetInputPortDataType(p, id) ==
  /\ pc = "settle" /\ p \in connected /\ inType[p] = DynamicType
  /\ TypeAccepted(slave.i_port[p], id)
  /\ slave' = IF SlType(slave.i_port[p].data_type) = id THEN slave
              ELSE [slave EXCEPT
                     !.dwork_count = @ + 1,
                     !.i_port[p].dwork_idx = NextDwork(slave.dwork_count),
                     !.i_port[p].sl_port_data_type = id]
  /\ inType' = [inType EXCEPT ![p] = id]
  /\ UNCHANGED <<cfg, pc, connected, inWidth, dwork, rtp, rtw, gen, PDO_Map,
                 users>>

mdlSetInputPortDataTypeFails(p, id) ==
  /\ pc = "settle" /\ p \in connected /\ inType[p] = DynamicType
  /\ ~TypeAccepted(slave.i_port[p], id)
  /\ Fail

mdlSetInputPortWidth(p, width) ==
  /\ pc = "settle" /\ p \in connected /\ inWidth[p] = Dynamic
  /\ inWidth' = [inWidth EXCEPT ![p] = width]
  /\ pc' = IF width > Len(slave.i_port[p].pdo) THEN "error" ELSE pc
  /\ UNCHANGED <<cfg, slave, connected, inType, dwork, rtp, rtw, gen, PDO_Map,
                 users>>

mdlSetDefaultPortDataTypes ==
  /\ pc = "settle"
  /\ \E i \in DOMAIN inType : inType[i] = DynamicType
  /\ inType' = [i \in DOMAIN inType |->
                  IF inType[i] = DynamicType
                  THEN SlType(slave.i_port[i].data_type) ELSE inType[i]]
  /\ UNCHANGED <<cfg, pc, slave, connected, inWidth, dwork, rtp, rtw, gen,
                 PDO_Map, users>>

mdlSetDefaultPortDimensionInfo ==
  /\ pc = "settle"
  /\ \E i \in DOMAIN inWidth : inWidth[i] = Dynamic
  /\ inWidth' = [i \in DOMAIN inWidth |->
                   IF inWidth[i] = Dynamic THEN Len(slave.i_port[i].pdo)
                   ELSE inWidth[i]]
  /\ UNCHANGED <<cfg, pc, slave, connected, inType, dwork, rtp, rtw, gen,
                 PDO_Map, users>>

mdlSetWorkWidths ==
  /\ pc = "settle"
  /\ \A i \in DOMAIN inType : inType[i] # DynamicType /\ inWidth[i] # Dynamic
  /\ dwork' = DWorks /\ rtp' = RuntimeParams
  /\ pc' = "rtw"
  /\ UNCHANGED <<cfg, slave, sizes, rtw, gen, PDO_Map, users>>

mdlRTW ==
  /\ pc = "rtw" /\ rtw' = Rtw /\ pc' = "start"
  /\ UNCHANGED <<cfg, slave, sizes, dwork, rtp, gen, PDO_Map, users>>

\* The Start code of another slave block is written before that of this one.
StartOther(o) ==
  /\ pc = "start" /\ Len(users) < MaxOthers
  /\ GetSyncManagerConfigId(o.sm, o.key, Tables(o.sm))
  /\ UNCHANGED <<cfg, pc, slave, sizes, dwork, rtp, rtw, gen>>

Start ==
  /\ pc = "start"
  /\ GetSyncManagerConfigId(cfg.sm, cfg.key, rtw.tables)
  /\ gen' = [gen EXCEPT !.sdo = GetSdoConfig, !.soe = GetSoeConfig,
                        !.dc = GetDcOpModeConfigId, !.map = GetPdoMap]
  /\ pc' = "outputs"
  /\ UNCHANGED <<cfg, slave, sizes, dwork, rtp, rtw>>

Outputs ==
  /\ pc = "outputs"
  /\ gen' = [gen EXCEPT !.outputs = OutputCode]
  /\ pc' = "update"
  /\ UNCHANGED <<cfg, slave, sizes, dwork, rtp, rtw, PDO_Map, users>>

\* Update and Derivatives: the one writes the filters in a block with sample
\* time, the other in a continuous one.
Update ==
  /\ pc = "update" /\ ~FilterRolls
  /\ gen' = [gen EXCEPT !.inputs = InputCode,
               !.filters = IF rtw.FilterCount # 0 THEN FilterCode ELSE {}]
  /\ pc' = "done"
  /\ UNCHANGED <<cfg, slave, sizes, dwork, rtp, rtw, PDO_Map, users>>

UpdateFails == pc = "update" /\ FilterRolls /\ Fail

Ended == pc \in {"done", "error"} /\ UNCHANGED vars

Next ==
  \/ mdlInitializeSizes \/ mdlInitializeSizesFails
  \/ \E p \in DOMAIN inType :
       \/ \E id \in InputTypes : \/ mdlSetInputPortDataType(p, id)
                                 \/ mdlSetInputPortDataTypeFails(p, id)
       \/ \E width \in 1..(Len(slave.i_port[p].pdo) + 1) :
            mdlSetInputPortWidth(p, width)
  \/ mdlSetDefaultPortDataTypes \/ mdlSetDefaultPortDimensionInfo
  \/ mdlSetWorkWidths \/ mdlRTW
  \/ \E o \in Others : StartOther(o)
  \/ Start \/ Outputs \/ Update \/ UpdateFails
  \/ Ended

Spec == Init /\ [][Next]_vars

-----------------------------------------------------------------------------
(* Properties of the generated program.                                    *)

Done == pc = "done"

\* The PDO map in terms of the configuration: the rows of the input ports as
\* far as their signals go, then those of the output ports, each with its
\* entry, type, byte order and element; GetPdoMap() in ec_slave3.tlc finds
\* them through the numbers of mdlRTW().
Used(specs) ==
  FlattenSeq([i \in DOMAIN specs |->
                IF specs[i].form = "none" THEN <<>> ELSE <<specs[i]>>])

Told(c, spec) ==
  IF spec.form = "raw"
  THEN LET entry == PdoOf(c, spec.pdo).entry
           bits == Sum([i \in DOMAIN entry |-> entry[i].bitlen])
       IN  [j \in 1..(IF bits % 8 = 0 THEN bits \div 8 ELSE bits \div 8 + 1) |->
              <<entry[1].index, entry[1].subindex, 1008, FALSE, j - 1>>]
  ELSE [j \in DOMAIN spec.pdo |->
          LET e == PdoOf(c, spec.pdo[j]).entry[spec.pdo[j][3] + 1]
          IN  <<e.index, e.subindex, GetDataType(spec.pdo_data_type),
                spec.big_endian, spec.pdo[j][4]>>]

MapInputs ==
  FlattenSeq([i \in DOMAIN inWidth |->
    [j \in 1..inWidth[i] |-> Told(cfg, Used(cfg.input)[i])[j]]])

MapOutputs ==
  FlattenSeq([i \in DOMAIN Used(cfg.output) |->
    Told(cfg, Used(cfg.output)[i])])

Says(row) ==
  <<row.index, row.subindex, row.datatype, row.bigendian, row.idx>>

MapFaithful ==
  Done =>
    LET rows == gen.map.rows
    IN  /\ gen.map.InputCount = Len(MapInputs)
        /\ gen.map.OutputCount = Len(MapOutputs)
        /\ [k \in DOMAIN rows |-> Says(rows[k])] = MapInputs \o MapOutputs

\* No two ports of the block have the same work vector, whatever the order in
\* which Simulink settles them: mdlSetInputPortDataType() takes further ones.
WorkVectorsOwn ==
  /\ {Ports[i].dwork_idx : i \in DOMAIN Ports} \ {0} = 1..slave.dwork_count
  /\ \A i, k \in DOMAIN Ports :
       Ports[i].dwork_idx = Ports[k].dwork_idx /\ i # k =>
         Ports[i].dwork_idx = 0

\* The conversion functions store through the address of a row with the C type
\* of the row's data type: behind every address lies a variable of that type,
\* inside its array, and no two rows have the same one.
Place(addr) ==
  CASE addr[1] = "dwork" -> dwork[addr[2]]
    [] addr[1] = "u" -> [width |-> inWidth[addr[2]], type |-> inType[addr[2]]]
    [] OTHER -> [width |-> Len(slave.o_port[addr[2]].pdo),
                 type |-> slave.o_port[addr[2]].sl_port_data_type]

BuffersTyped ==
  /\ WorkVectorsOwn
  /\ Done =>
       /\ \A k \in DOMAIN gen.map.rows :
            LET row == gen.map.rows[k]
            IN  /\ Place(row.addr).type = SlType(row.datatype)
                /\ row.addr[3] \in 1..Place(row.addr).width
       /\ \A k, l \in DOMAIN gen.map.rows :
            gen.map.rows[k].addr = gen.map.rows[l].addr => k = l

Means(setting, p) ==
  IF ~IsSet(p) THEN setting = NoSetting
  ELSE IF p.name # NoName
       THEN setting = [Name |-> p.name, Element |-> p.element_idx]
       ELSE setting = [Value |-> p.value]

Applies(s, port) ==
  /\ s.dwork = port.dwork_idx
  /\ Means(s.gain, port.gain)
  /\ Means(s.offset, port.offset)
  /\ Means(s.filter, port.filter)
  /\ s.fullscale = port.fullscale

(* Every work vector has its conversion, and ports without one have none.  *)
(* The conversion uses the parameters configured for its port, which the   *)
(* code looks up by numbers that count SDOs, SoEs, the clock mode and all  *)
(* ports before. Of an input of Booleans it says only that it is converted *)
(* from its own signal: see BooleanInputsScaled.                           *)
ConversionFaithful ==
  Done =>
    /\ {s.port : s \in gen.outputs}
         = {i \in DOMAIN slave.o_port : Converted(slave.o_port[i])}
    /\ {s.port : s \in gen.inputs}
         = {i \in connected : inType[i] # SlType(slave.i_port[i].data_type)
                                \/ Converted(slave.i_port[i])}
    /\ \A s \in gen.filters \cup {t \in gen.outputs : t.state = Untold} :
         Applies(s, slave.o_port[s.port])
    /\ \A s \in gen.inputs :
         LET port == slave.i_port[s.port]
         IN  /\ s.dwork = port.dwork_idx
             /\ port.data_type # 1001 => Applies(s, port)

\* ec_slave3.c:175: "PDO = (input * gain + offset) * full_scale" for an input,
\* also one whose PDO entries are Booleans.
BooleanInputsScaled ==
  Done => \A s \in gen.inputs :
            slave.i_port[s.port].data_type = 1001 =>
              Applies(s, slave.i_port[s.port])

\* A tuneable parameter in the code is a runtime parameter of the block, all
\* that were announced are there, and no parameter is read behind its end.
Long(value, width) == Len(value) = 1 \/ width <= Len(value)

ParametersThere ==
  Done =>
    /\ Len(rtp) = slave.runtime_param_count
    /\ \A s \in gen.inputs \cup gen.filters
                  \cup {t \in gen.outputs : t.state = Untold} :
         \A p \in {s.gain, s.offset, s.filter} \ {NoSetting} :
           IF "Name" \in DOMAIN p
           THEN \E i \in DOMAIN rtp :
                  /\ rtp[i].name = p.Name
                  /\ IF p.Element = Untold
                     THEN Long(rtp[i].value, s.width)
                     ELSE p.Element < Len(rtp[i].value)
           ELSE Long(p.Value, s.width)

\* Each element of a filtered port has a state of its own among the states the
\* block declared, and Outputs reads the states that WriteFilter writes.
States(s) == s.state..(s.state + s.width - 1)

FilterStatesOwn ==
  Done =>
    LET reads == {s \in gen.outputs : s.state # Untold}
    IN  /\ {<<s.port, States(s)>> : s \in reads}
             = {<<s.port, States(s)>> : s \in gen.filters}
        /\ \A s \in reads : States(s) \subseteq 0..(slave.filter_count - 1)
        /\ \A s, t \in reads : s # t => States(s) \cap States(t) = {}

\* html/general.html:183-229: the times of the clock mode c, in the terms of
\* the help. A single number gives no times: SYNC0 is off. For n < 0 the base
\* is -n times t, up to the remainder of the division.
Ratio(t, base, n) ==
  IF n < 0 THEN base - t * (-n) \in 0..(-n - 1) ELSE t = base * n

ClockFaithful(c, clock) ==
  LET time(k) == IF Len(c) = 1 THEN 0 ELSE c[k]
      sample == IF cfg.SampleTime = 0 THEN ClockTick ELSE cfg.SampleTime
      sync1 == clock.cycle0 + clock.cycle1 - time(9)
  IN  /\ clock.assign = c[1]
      /\ IF time(2) # 0 THEN clock.cycle0 = time(2)
         ELSE Ratio(clock.cycle0, sample, time(3))
      /\ Ratio(clock.shift - time(4), clock.cycle0, time(5))
      /\ CASE time(7) # 0 -> sync1 = time(7)
           [] time(7) = 0 /\ time(8) # 0 ->
                sync1 = IF time(8) > 0 THEN clock.cycle0 * time(8)
                        ELSE sample * (-time(8))
           [] OTHER -> sync1 \in {sample, clock.cycle0}
                       /\ sync1 >= sample /\ sync1 >= clock.cycle0

(* The slave gets its SDOs in order: single values as configured, and      *)
(* arrays whole by complete access, whatever their subindex, which is what *)
(* html/generic.html:144 says ("ignored"); ec_slave3.c:30 has a subindex   *)
(* for them. It gets its SoE settings in order, numbers as configured; of  *)
(* a string only the index is compared: see SoeStringWhole. And if it has  *)
(* sync managers it gets its clock mode.                                   *)
SettingsFaithful ==
  Done =>
    /\ Len(gen.sdo) = Len(cfg.sdo)
    /\ \A i \in DOMAIN cfg.sdo :
         LET g == gen.sdo[i]
             c == cfg.sdo[i]
         IN  /\ g.index = c.index
             /\ IF c.bitlen = 0
                THEN /\ g.byte_array = c.value /\ g.value = Len(c.value)
                     /\ g.subindex = -1
                ELSE /\ g.subindex = c.subindex /\ g.byte_array = <<>>
                     /\ g.datatype = 1000 + c.bitlen /\ <<g.value>> = c.value
    /\ Len(gen.soe) = Len(cfg.soe)
    /\ \A i \in DOMAIN cfg.soe :
         LET g == gen.soe[i]
             c == cfg.soe[i]
         IN  /\ g.index = c.index
             /\ c.form = "numbers" => g.octet_string = c.value
    /\ IF cfg.sm = <<>> \/ cfg.dc = <<>> \/ Head(cfg.dc) = 0
       THEN gen.dc = NoClock
       ELSE ClockFaithful(cfg.dc, gen.dc)

\* What the library reads through the pointers of a sync manager table.
ReadBack(a) ==
  [i \in DOMAIN a.sync |->
     [index |-> a.sync[i].index, input |-> a.sync[i].input,
      pdo |-> [k \in 1..a.sync[i].n_pdos |->
        LET p == a.pdo[a.sync[i].pdos + k]
        IN  [index |-> p.index,
             entry |-> [m \in 1..p.n_entries |-> a.entry[p.entries + m]]]]]]

\* html/generic.html:74-92: what a sync manager is configured with.
Meant(sm) ==
  [i \in DOMAIN sm |->
     [index |-> sm[i].index, input |-> sm[i].direction # 0,
      pdo |-> [k \in DOMAIN sm[i].pdo |->
        [index |-> sm[i].pdo[k].index, entry |-> sm[i].pdo[k].entry]]]]

\* Every block of the diagram has sync manager tables that say what it was
\* configured with, also where GetSyncManagerConfigId() lets it share the
\* tables of an earlier block of the same product.
TablesFaithful ==
  \A u \in Range(users) :
    ReadBack(PDO_Map[u.key][u.id].arrays) = Meant(u.sm)

\* ec_slave3.c:43 and html/generic.html:194: an SoE setting may be a string.
\* All of its characters should be sent.
SoeStringWhole ==
  Done => \A i \in DOMAIN cfg.soe :
            gen.soe[i].octet_string = cfg.soe[i].value

=============================================================================
