---------------------------- MODULE SlaveLibrary ----------------------------
(***************************************************************************)
(* Terminals of the slave library: Matlab classes that turn the dialog of  *)
(* a block into the configuration structure of EcSlave3. The base class    *)
(* EtherCATSlave.m finds the entries and builds the ports; ep2xxx.m        *)
(* (digital), el4xxx.m (analog outputs), el30xx_1.m (analog inputs) and    *)
(* ep43xx_1.m (both) are four of the classes that use it.                  *)
(*                                                                         *)
(* An address is <<sync manager, PDO, entry, element>>, counted from 0.    *)
(* Indices of objects keep their numbers, products are members of a set.   *)
(***************************************************************************)
EXTENDS EcSlave3

Entry(index, subindex, bitlen) ==
  [index |-> index, subindex |-> subindex, bitlen |-> bitlen]
PdoCell(index, entry) ==
  [cells |-> 2, index |-> index, columns |-> 3, entry |-> entry]
SmCell(index, direction, pdo) ==
  [cells |-> 3, index |-> index, direction |-> direction, pdo |-> pdo]
SdoCell(index, subindex, bitlen, value) ==
  [index |-> index, subindex |-> subindex, bitlen |-> bitlen,
   value |-> <<value>>]

-----------------------------------------------------------------------------
(* EtherCATSlave.m                                                         *)

\* The addresses of the entries of PDO k of sync manager i, padding left out.
\* And wrong: numbered after the padding is gone.
EntriesRenumbered(i, k, entry) ==
  [m \in DOMAIN SelectSeq(entry, LAMBDA e : e.index # 0) |->
     <<i - 1, k - 1, m - 1, 0>>]

PdoEntries(i, k, entry) ==
  LET all == [m \in DOMAIN entry |-> <<i - 1, k - 1, m - 1, 0>>]
  IN  SelectSeq(all, LAMBDA row : entry[row[3] + 1].index # 0)

findPdoEntries(sm, dir) ==
  FlattenSeq([i \in DOMAIN sm |->
    IF sm[i].direction # dir THEN <<>>
    ELSE FlattenSeq([k \in DOMAIN sm[i].pdo |->
                       PdoEntries(i, k, sm[i].pdo[k].entry)])])

Limited(rows, limit) == SubSeq(rows, 1, Min({limit, Len(rows)}))

NoScale == [gain |-> <<>>, offset |-> <<>>, filter |-> <<>>, prefix |-> "",
            full_scale |-> 0]

configureScale(full_scale, gain, offset, filter, pfx) ==
  IF gain \o offset \o filter = <<>> THEN NoScale
  ELSE [gain |-> gain, offset |-> offset, filter |-> filter, prefix |-> pfx,
        full_scale |-> IF gain = <<>> /\ offset = <<>> THEN 1 ELSE full_scale]

NoSpec == [form |-> "none"]

\* {[pfx, name, number], value}, number 0 for a port that is the only one.
\* And wrong: the prefix is left out.
NamedPlain(pfx, name, number, value) ==
  [form |-> "named", name |-> <<"", name, number>>, value |-> value]
NamedParam(pfx, name, number, value) ==
  [form |-> "named", name |-> <<pfx, name, number>>, value |-> value]

\* The value of port i: one for all, or its own, if there are so many.
PortParam(scale, name, value, i) ==
  CASE Len(value) = 1 -> NamedParam(scale.prefix, name, i, value)
    [] i \in DOMAIN value -> NamedParam(scale.prefix, name, i, <<value[i]>>)
    [] OTHER -> NoSpec

\* One wide port, or a port for every PDO entry. Without scale the parameters
\* are empty, which ec_slave3.c takes for fields that are missing.
configurePorts(pdo, dtype, vector, scale) ==
  LET Ported(rows, Param(_, _)) ==
        [form |-> "entries", pdo |-> rows, pdo_data_type |-> dtype,
         big_endian |-> FALSE, full_scale |-> scale.full_scale,
         gain |-> Param("Gain", scale.gain),
         offset |-> Param("Offset", scale.offset),
         filter |-> Param("Filter", scale.filter)]
      Single(name, value) == NamedParam(scale.prefix, name, 0, value)
  IN  CASE pdo = <<>> -> <<>>
        [] pdo # <<>> /\ vector -> <<Ported(pdo, Single)>>
        [] OTHER ->
             [i \in DOMAIN pdo |->
                Ported(<<pdo[i]>>,
                       LAMBDA name, value : PortParam(scale, name, value, i))]

Uint(bits) == [class |-> 1, bits |-> bits]
Sint(bits) == [class |-> 2, bits |-> bits]

-----------------------------------------------------------------------------
(* The terminals. A dialog m has the fields vector, status, o_gain,        *)
(* o_offset, tau, i_gain, dc and filter, each used by some of them.        *)

\* The clock mode of a dialog: a row of the class's table, or its own times.
DcOf(table, dc) == IF dc[1] > 2 THEN Tail(dc) ELSE table[dc[1]]

\* ep2xxx.m: sm numbers groups of PDOs and the sync managers they are for.
Ep2xxxGroups ==
  LET Bit(pdo, index) == PdoCell(pdo, <<Entry(index, 1, 1)>>)
      Bits(index, subindices) ==
        [s \in subindices |-> Entry(index, s, 1)]
      pad(n) == <<Entry(0, 0, n)>>
  IN  <<[i \in 1..8 |-> Bit(\H15ff + i, \H6ff0 + 16 * i)],
        [i \in 1..8 |-> Bit(\H1607 + i, \H7070 + 16 * i)],
        [i \in 1..8 |-> Bit(\H19ff + i, \H5ff0 + 16 * i)],
        [i \in 1..8 |-> Bit(\H1a07 + i, \H6070 + 16 * i)],
        <<PdoCell(\H1604, pad(4) \o <<Entry(\H7040, 1, 1)>>)>>
          \o [i \in 1..3 |-> Bit(\H1604 + i, \H7040 + 16 * i)],
        [i \in 1..3 |-> Bit(\H19ff + i, \H5ff0 + 16 * i)]
          \o <<PdoCell(\H1a03, <<Entry(\H6030, 1, 1)>> \o pad(4))>>,
        <<PdoCell(\H1600, Bits(\H7000, 1..4)),
          PdoCell(\H1601, Bits(\H7010, 1..4))>>,
        [i \in 1..4 |-> Bit(\H15ff + i, \H6ff0 + 16 * i)],
        <<PdoCell(\H1600, Bits(\H7000, 1..8) \o pad(8)),
          PdoCell(\H1601, Bits(\Hf700, 1..2) \o pad(14))>>,
        <<PdoCell(\H1a00, Bits(\H6000, 1..8) \o pad(5)
                            \o <<Entry(\H1c32, 32, 1)>> \o pad(2)),
          PdoCell(\H1a01, Bits(\H6001, 1..8) \o pad(8)),
          PdoCell(\H1a02, Bits(\Hf600, 1..3) \o pad(10)
                            \o <<Entry(\H1c32, 32, 1)>> \o pad(1)
                            \o <<Entry(\H1800, 9, 1)>>)>>>>

ep2xxx(model, m) ==
  LET sm == [i \in DOMAIN model.sm |->
               SmCell(model.sm[i][3], model.sm[i][2],
                      Ep2xxxGroups[model.sm[i][1]])]
      Found(dir) == Limited(findPdoEntries(sm, dir), model.limit)
  IN  [sm |-> sm, dc |-> <<>>, sdo |-> <<>>,
       output |-> configurePorts(Found(1), Uint(1), m.vector, NoScale),
       input |-> configurePorts(Found(0), Uint(1), m.vector, NoScale)]

\* el4xxx.m: one entry of 16 bits for each channel.
El4xxxPdo ==
  [i \in 1..8 |-> <<\H15ff + i, \H6ff0 + 16 * i, 17>>]
    \o [i \in 1..2 |-> <<\H15ff + i, \H3000 + i, 17>>]
    \o [i \in 1..2 |-> <<\H15ff + i, \H6411, i>>]
    \o [i \in 1..8 |-> <<\H15ff + i, \H6ff0 + 16 * i, 1>>]

El4xxxDc == <<<<0, 0, 0, 0, 0, 0, 0, 1, 0, 0>>,
              <<\H700, 0, 1, 0, 0, 0, 0, 1, 10000, 0>>>>

el4xxx(model, m) ==
  LET Channel(row) == PdoCell(row[1], <<Entry(row[2], row[3], 16)>>)
      sm == <<SmCell(2, 0, [i \in 1..model.pdo_count |->
                              Channel(El4xxxPdo[i - 1 + model.offset])])>>
      scale == configureScale(32768, m.i_gain, <<>>, <<>>, "")
  IN  [sm |-> sm, dc |-> DcOf(El4xxxDc, m.dc), sdo |-> <<>>, output |-> <<>>,
       input |-> configurePorts(findPdoEntries(sm, 0), Sint(16), m.vector,
                                scale)]

\* Entry e of the first n PDOs of a sync manager.
Column(sm, n, e) == [i \in 1..n |-> <<sm, i - 1, e, 0>>]

\* el30xx_1.m: the value alone, or after the bits of the status. The models
\* have them in one of two layouts.
El30xxPdo(i) ==
  LET index == \H5ff0 + 16 * i
      Status(e15, e16) ==
        PdoCell(\H19fe + 2 * i,
          <<Entry(index, 1, 1), Entry(index, 2, 1), Entry(index, 3, 2),
            Entry(index, 5, 2), Entry(index, 7, 1), Entry(0, 0, 1),
            Entry(0, 0, 6), e15, e16, Entry(index, 17, 16)>>)
  IN  [value |-> PdoCell(\H19ff + 2 * i, <<Entry(index, 17, 16)>>),
       new |-> Status(Entry(index, 15, 1), Entry(index, 16, 1)),
       old |-> Status(Entry(\H17fe + 2 * i, 7, 1), Entry(\H17fe + 2 * i, 9, 1))]

el30xx_1(model, m) ==
  LET n == model.pdo_count
      pdo == [i \in 1..n |->
                El30xxPdo(i)[IF m.status THEN model.layout ELSE "value"]]
      scale == configureScale(32768, m.o_gain, m.o_offset, m.tau, "")
  IN  [sm |-> <<SmCell(3, 1, pdo)>>, dc |-> <<>>,
       sdo |-> <<SdoCell(\H8000, 6, 8, IF m.filter > 1 THEN 1 ELSE 0),
                 SdoCell(\H8000, \H15, 16, Max({0, m.filter - 2}))>>
                 \o IF m.filter = 1
                    THEN <<SdoCell(\H1C33, 1, 16, m.fastop * 32768 + m.opmode - 1)>>
                    ELSE <<>>,
       input |-> <<>>,
       output |->
         configurePorts(Column(0, n, IF m.status THEN 9 ELSE 0), Sint(16),
                        m.vector, scale)
         \o IF m.status
            THEN configurePorts(Column(0, n, 4), Uint(1), m.vector, NoScale)
            ELSE <<>>]

\* ep43xx_1.m: two inputs and two outputs, with the names of their parameters
\* told apart by a prefix. Several ports of status do not fit where the class
\* appends one: with status, the ports are vectors.
Ep43xxSm(status) ==
  LET Pdo1(index, entry) == PdoCell(index, <<Entry(entry, 17, 16)>>)
      Pdo11(index, entry) ==
        PdoCell(index,
          <<Entry(entry, 1, 1), Entry(entry, 2, 1), Entry(entry, 3, 2),
            Entry(entry, 5, 2), Entry(entry, 7, 1), Entry(0, 0, 1),
            Entry(0, 0, 5), Entry(entry, 14, 1), Entry(entry, 15, 1),
            Entry(entry, 16, 1), Entry(entry, 17, 16)>>)
  IN  <<SmCell(2, 0, <<Pdo1(\H1600, \H7020), Pdo1(\H1601, \H7030)>>),
        SmCell(3, 1, IF status
                     THEN <<Pdo11(\H1a00, \H6000), Pdo11(\H1a02, \H6010)>>
                     ELSE <<Pdo1(\H1a01, \H6000), Pdo1(\H1a03, \H6010)>>)>>

Ep43xxDc == <<<<0, 0, 0, 0, 0, 0, 0, 1, 0, 0>>,
              <<\H700, 0, 1, -5000, 0, 0, 0, 1, 80000, 0>>>>

ep43xx_1(m) ==
  LET tx_scale == configureScale(32768, m.o_gain, m.o_offset, m.tau, "I")
      rx_scale == configureScale(32768, m.i_gain, <<>>, <<>>, "O")
      mode == <<0, 1, 2, 6>>
  IN  [sm |-> Ep43xxSm(m.status), dc |-> DcOf(Ep43xxDc, m.dc),
       sdo |-> <<SdoCell(\H8000, 6, 8, IF m.filter > 1 THEN 1 ELSE 0),
                 SdoCell(\H8000, \H15, 16, Max({0, m.filter - 2}))>>
                 \o [i \in 1..4 |-> SdoCell(\HF800, i, 16, mode[m.type[i]])],
       input |-> configurePorts(Column(0, 2, 0), Sint(16), m.vector, rx_scale),
       output |->
         configurePorts(Column(1, 2, IF m.status THEN 10 ELSE 0), Sint(16),
                        m.vector, tx_scale)
         \o IF m.status
            THEN configurePorts(Column(1, 2, 4), Uint(1), m.vector, NoScale)
            ELSE <<>>]

-----------------------------------------------------------------------------
(* From the dialog to the generated program. The configuration of such a   *)
(* block has the field terminal: its dialog and what the terminal has, the *)
(* bits of a channel and the channels of each direction.                   *)

\* The entries of a direction that are not padding, in their order.
Objects(dir) ==
  SelectSeq(FlattenSeq([i \in DOMAIN cfg.sm |->
              IF cfg.sm[i].direction # dir THEN <<>>
              ELSE FlattenSeq([k \in DOMAIN cfg.sm[i].pdo |->
                                 cfg.sm[i].pdo[k].entry])]),
            LAMBDA e : e.index # 0)

Channels(dir) ==
  LET t == cfg.terminal
      all == SelectSeq(Objects(dir), LAMBDA e : e.bitlen = t.bits)
  IN  SubSeq(all, 1, Min({Len(all), t.channels}))

\* Subindex 7 of the object of a channel is its error bit.
Errors ==
  LET objects == {e.index : e \in Range(Channels(1))}
  IN  IF cfg.terminal.status
      THEN SelectSeq(Objects(1), LAMBDA e : e.subindex = 7 /\ e.index \in objects)
      ELSE <<>>

\* The values that element j of a statement may read for a setting.
Read(setting, j) ==
  IF setting = NoSetting THEN {}
  ELSE {IF Len(p.value) = 1 THEN p.value[1] ELSE p.value[j] :
          p \in {q \in Range(rtp) : q.name = setting.Name}}

\* The values behind a row of the map: those of the port it is converted for.
ReadFor(row, field) ==
  UNION {Read(s[field], row.addr[3]) :
    s \in {t \in gen.inputs \cup gen.filters
                   \cup {u \in gen.outputs : u.state = Untold} :
             row.addr[1] = "dwork" /\ t.dwork = row.addr[2]}}

\* What the dialog says of channel i: one value for all of them or its own.
Said(value, i) ==
  CASE Len(value) = 1 -> {value[1]}
    [] i \in DOMAIN value -> {value[i]}
    [] OTHER -> {}

\* A terminal of the library is not refused, and its generated map reads and
\* writes its channels one after the other, then the error bits, each channel
\* scaled with the values that the dialog has for it and no others. An input
\* without a signal is not converted.
TerminalMapped ==
  "terminal" \in DOMAIN cfg =>
    /\ pc = "error" => slave # NoSlave
    /\ Done =>
         LET m == cfg.terminal
             n == gen.map.InputCount
             ins == SubSeq(gen.map.rows, 1, n)
             outs == SubSeq(gen.map.rows, n + 1, Len(gen.map.rows))
             Is(row, e) == row.index = e.index /\ row.subindex = e.subindex
             none == [f \in {"gain", "offset", "filter"} |-> <<>>]
             Scaled(row, i, said) ==
               \A f \in DOMAIN said : ReadFor(row, f) = Said(said[f], i)
             wanted == Channels(1) \o Errors
         IN  /\ n = Sum(inWidth)
             /\ \A i \in 1..n :
                  /\ Is(ins[i], Channels(0)[i])
                  /\ (IF m.vector THEN 1 ELSE i) \in connected =>
                       Scaled(ins[i], i, [none EXCEPT !.gain = m.i_gain])
             /\ Len(outs) = Len(wanted)
             /\ \A i \in DOMAIN outs :
                  /\ Is(outs[i], wanted[i])
                  /\ Scaled(outs[i], i,
                       IF i > Len(Channels(1)) THEN none
                       ELSE [gain |-> m.o_gain, offset |-> m.o_offset,
                             filter |-> m.tau])

=============================================================================
