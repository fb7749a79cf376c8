----------------------------- MODULE MCEcSlave3 -----------------------------
(* A generic slave with one output and one input sync manager and ports of *)
(* every kind over its entries, and terminals of the slave library.        *)
EXTENDS SlaveLibrary

Ent(i, s, n) == [index |-> i, subindex |-> s, bitlen |-> n]
Pdo(i, es) == [cells |-> 2, index |-> i, columns |-> 3, entry |-> es]
Sm(i, d, ps) == [cells |-> 3, index |-> i, direction |-> d, pdo |-> ps]

Rx == Sm(2, 0, <<Pdo(100, <<Ent(70, 1, 32), Ent(0, 0, 8), Ent(70, 2, 8)>>)>>)
Tx == Sm(3, 1, <<Pdo(200, <<Ent(60, 1, 16)>>),
                    Pdo(201, <<Ent(61, 1, 16), Ent(61, 2, 4)>>)>>)
SmBoth == <<Rx, Tx>>
SmWide == <<Rx, Sm(3, 1, <<Pdo(200, <<Ent(60, 1, 32)>>),
                              Pdo(201, <<Ent(61, 1, 16), Ent(61, 2, 4)>>)>>)>>
SmWrong ==
  {[Rx EXCEPT !.cells = 2], [Rx EXCEPT !.index = Untold],
   [Rx EXCEPT !.direction = Untold], [Rx EXCEPT !.pdo[1].cells = 3],
   [Rx EXCEPT !.pdo[1].columns = 4], [Rx EXCEPT !.pdo[1].index = Untold]}
SmSwapped == <<Tx, Rx>>
SmPlain == <<Sm(2, 0, <<>>), Sm(3, 1, <<Pdo(201, <<>>)>>)>>

None == [form |-> "none"]
Values(v, n) == [i \in 1..n |-> <<v, i>>]
Const(v, n) == [form |-> "vector", name |-> NoName, value |-> Values(v, n)]
Named(v, n) == [form |-> "named", name |-> <<"", v, 0>>, value |-> Values(v, n)]
Mask(p, e) == [form |-> "ref", parameter |-> p, element |-> e]

Of(class, bits) == [class |-> class, bits |-> bits]
Port(rows, type, g, o, f, full) ==
  [form |-> "entries", pdo |-> rows, pdo_data_type |-> type,
   big_endian |-> full = 2, gain |-> g, offset |-> o, filter |-> f,
   full_scale |-> full]
Raw(s, p) == [form |-> "raw", pdo |-> <<s, p>>]

Word == <<1, 0, 0, 0>>
OutPorts ==
  {None, Raw(1, 1),
   Port(<<Word>>, Of(2, 16), None, None, None, 0),
   Port(<<Word>>, Of(1, 16), Const("g", 1), Named("o", 1), None, 2),
   Port(<<Word, <<1, 1, 0, 0>>>>, Of(2, 16), Mask(0, -1), Const("c", 2),
        Named("f", 2), 0),
   Port(<<Word>>, Of(1, 8), Mask(0, 1), None, Const("k", 1), 0)}
OutWrong ==
  {Raw(1, 2), [form |-> "bad"],
   Port(<<Word>>, Of(2, 24), None, None, None, 0),
   Port(<<Word>>, Of(1, 32), None, None, None, 0),
   Port(<<<<1, 0, 1, 0>>>>, Of(1, 16), None, None, None, 0),
   Port(<<Word>>, Of(1, 16), Const("g", 2), None, None, 0),
   Port(<<Word>>, Of(1, 16), None, Mask(1, -1), None, 0),
   Port(<<Word>>, Of(1, 16), None, None, Mask(0, 2), 0)}

InPorts ==
  {None, Raw(0, 0),
   Port(<<<<0, 0, 0, 0>>>>, Of(1, 32), None, None, None, 0),
   Port(<<<<0, 0, 2, 0>>, <<0, 0, 2, 5>>>>, Of(1, 1), Const("b", 1),
        Const("z", 1), None, 0),
   Port(<<<<0, 0, 2, 0>>, <<0, 0, 2, 7>>>>, Of(1, 1), None, None, None, 0),
   Port(<<<<0, 0, 0, 0>>, <<0, 0, 0, 1>>>>, Of(2, 16), Named("m", 2),
        Mask(0, 0), None, 2),
   Port(<<<<0, 0, 0, 0>>, <<0, 0, 0, 3>>>>, Of(1, 8), None, None, None, 0)}
InWrong == {Port(<<<<0, 0, 1, 0>>>>, Of(1, 8), None, None, None, 0),
            Port(<<<<0, 0, 0, 4>>>>, Of(1, 8), None, None, None, 0)}

Sdo(i, s, n, v) == [index |-> i, subindex |-> s, bitlen |-> n, value |-> v]
Soe(i, form, v) == [index |-> i, form |-> form, value |-> v]
Global == [name |-> <<"", "p", 0>>, value |-> Values("p", 2), source |-> "mask"]

Config(outs, ins, sdo, soe, dc, sm) ==
  [output |-> outs, input |-> ins, sdo |-> sdo, soe |-> soe, dc |-> dc,
   sm |-> sm, key |-> 1, parameter |-> <<Global>>, RollThreshold |-> 5,
   SampleTime |-> 12, numbers |-> Required]

Sdos == <<Sdo(5, 1, 16, <<300>>), Sdo(6, 2, 0, <<7, 8>>), Sdo(7, -1, 0, <<9>>)>>
Soes == <<Soe(9, "numbers", <<1, 2>>), Soe(9, "string", <<1, 2>>),
          Soe(10, "numbers", <<3>>)>>

\* AssignActivate, and the times and factors of SYNC0, its shift and SYNC1.
Clocks ==
  {<<a>> \o s0 \o sh \o <<i>> \o s1 : a \in {0, 768}, i \in {0, 1},
     s0 \in {<<10, 5>>, <<0, 2>>, <<0, 0>>, <<0, -5>>},
     sh \in {<<3, 0>>, <<1, 2>>, <<-1, -2>>},
     s1 \in {<<9, 7, 0, 0>>, <<0, 2, 3, 5>>, <<0, -2, 0, 1>>, <<0, 0, 1, 0>>}}

OutOne == Port(<<Word>>, Of(1, 8), None, None, Const("k", 1), 0)
InOne == Port(<<<<0, 0, 0, 0>>>>, Of(1, 32), None, None, None, 0)

(* Terminals, each with its dialogs; EP2xxx: group, direction, index. *)
Block(t, m) ==
  [Config(t.output, t.input, t.sdo, <<>>, t.dc, t.sm) EXCEPT !.key = 3]
    @@ [terminal |-> m]

Dialog(bits, channels, vector) ==
  [bits |-> bits, channels |-> channels, vector |-> vector, status |-> FALSE,
   o_gain |-> <<>>, o_offset |-> <<>>, tau |-> <<>>, i_gain |-> <<>>,
   dc |-> <<1>>, filter |-> 1, opmode |-> 1, fastop |-> 0,
   type |-> <<1, 2, 3, 4>>]

Gains == {<<>>, Values("g", 1), Values("g", 2)}

Digital ==
  LET Ep(sm, limit) == Block(ep2xxx([sm |-> sm, limit |-> limit],
                                    Dialog(1, limit, TRUE)),
                             Dialog(1, limit, TRUE))
  IN  {Ep(<<<<7, 0, 0>>>>, 8), Ep(<<<<5, 0, 0>>, <<6, 1, 1>>>>, 4),
       Ep(<<<<9, 0, 2>>, <<10, 1, 3>>>>, 8), Ep(<<<<8, 0, 0>>>>, 4),
       Ep(<<<<1, 0, 0>>, <<2, 0, 1>>, <<3, 1, 2>>, <<4, 1, 3>>>>, 16)}

AnalogOut ==
  UNION {LET m == [Dialog(16, 2, v) EXCEPT !.i_gain = g, !.dc = dc]
         IN  {Block(el4xxx([offset |-> o, pdo_count |-> 2], m), m) :
                o \in {1, 11, 13}} :
           v \in BOOLEAN, g \in Gains,
           dc \in {<<1>>, <<2>>, <<3, 5, 8, 0, 0, 0, 0, 0, 2, 0, 0>>}}

AnalogIn ==
  UNION {LET m == [Dialog(16, 4, v) EXCEPT !.status = st, !.o_gain = g,
                     !.o_offset = o, !.tau = t, !.filter = 1 + Len(g)]
         IN  {Block(el30xx_1([pdo_count |-> 4, layout |-> l], m), m) :
                l \in {"new", "old"}} :
           v \in BOOLEAN, st \in BOOLEAN,
           g \in {<<>>, Values("g", 1), Values("g", 4)},
           o \in {<<>>, Values("o", 1)}, t \in {<<>>, Values("t", 4)}}

AnalogBoth ==
  {LET m == [Dialog(16, 2, mode # "ports") EXCEPT !.status = mode = "status",
               !.o_gain = g, !.tau = t, !.i_gain = i, !.dc = <<2>>]
   IN  Block(ep43xx_1(m), m) :
     mode \in {"ports", "vector", "status"}, g \in Gains,
     t \in {<<>>, Values("t", 1)}, i \in {<<>>, Values("i", 2)}}

ConfigsAll ==
  Digital \cup AnalogOut \cup AnalogIn \cup AnalogBoth \cup
  {Config(<<o, q>>, <<i>>, Sdos, <<>>, <<768>>, SmBoth) :
     o \in OutPorts, q \in OutPorts, i \in InPorts}
  \cup {Config(<<OutOne>>, <<i, k>>, <<>>, Soes, <<768>>, SmBoth) :
     i \in InPorts, k \in InPorts}
  \cup {Config(<<o>>, <<InOne>>, <<>>, <<>>, <<>>, SmBoth) : o \in OutWrong}
  \cup {Config(<<>>, <<InOne, i>>, <<>>, <<>>, <<>>, SmBoth) : i \in InWrong}
  \cup {Config(<<>>, <<>>, Sdos, <<>>, <<768>>, sm) :
     sm \in {<<>>, SmSwapped, SmPlain}}
  \cup {Config(<<>>, <<>>, <<s>>, <<>>, <<>>, <<>>) :
     s \in {Sdo(5, 256, 8, <<1>>), Sdo(5, 1, 24, <<1>>), Sdo(5, 1, 8, <<1, 2>>),
            Sdo(5, -1, 0, <<>>)}}
  \cup {Config(<<>>, <<>>, <<>>, <<Soe(9, f, v)>>, <<>>, <<>>) :
     f \in {"string", "cell"}, v \in {<<>>, <<4>>}}
  \cup {Config(<<OutOne>>, <<>>, <<>>, <<>>, dc, SmBoth) :
     dc \in Clocks \cup {<<768>>, <<768, 10>>}}
  \cup {[Config(<<>>, <<>>, <<>>, <<>>, dc, SmBoth) EXCEPT !.SampleTime = 0] :
     dc \in {<<768>>, <<768, 0, 2, 0, 0, 0, 0, -1, 0, 0>>}}
  \cup {Config(<<>>, <<>>, <<>>, <<>>, <<>>, <<sm>>) :
     sm \in SmWrong \cup {[Rx EXCEPT !.direction = 2]}}
  \cup {[Config(<<>>, <<>>, <<>>, <<>>, <<>>, <<>>)
           EXCEPT !.numbers = @ \ {n}] : n \in Required}
  \cup {[Config(<<o>>, <<>>, <<>>, <<>>, <<>>, SmBoth)
           EXCEPT !.RollThreshold = 2] : o \in OutPorts}

OthersAll == {[key |-> k, sm |-> sm] : k \in {1, 2},
              sm \in {SmBoth, SmWide, SmSwapped, SmPlain}}

=============================================================================
