------------------------------ MODULE PdoImage ------------------------------
(***************************************************************************)
(* The way of a value between a signal of the model and the process image  *)
(* of a domain: register_pdos() places every element of a PDO entry,       *)
(* ecs_start() selects its conversion by data type and byte order, and the *)
(* conversion functions of ecrt_support.c move the bits.                   *)
(*                                                                         *)
(* A conversion only moves bits, whatever their value. A bit is therefore  *)
(* a token: the number of a bit of the process image or <<e, i>>, bit i of *)
(* the signal of element e. The build is the usual one, a little-endian    *)
(* host: htole and letoh do nothing, htobe and betoh reverse the bytes.    *)
(*                                                                         *)
(* External: the library packs the entries of a mapping one after another  *)
(* and tells where an entry begins.                                        *)
(***************************************************************************)
EXTENDS Integers, Sequences

CONSTANTS
  Layouts,      \* mappings: sequences of entries [gap, datatype, n, bigendian]
  Bits          \* bound: bits of the process image

(* An entry follows `gap` bits of padding and holds n elements of the      *)
(* datatype: get_port_pdo_spec() accepts no other length.                  *)
DataTypes == (1001..1008) \cup {1016, 1024, 1032, 1040, 1048, 1056, 1064}
               \cup {2008, 2016, 2032, 2064} \cup {3032, 3064}

Entry == [gap : Nat, datatype : DataTypes, n : Nat \ {0}, bigendian : BOOLEAN]

ASSUME LayoutsAssumption ==
  Bits \in Nat /\ Layouts \subseteq Seq(Entry) \ {<<>>}

VARIABLES
  layout,       \* the mapping of the slave
  dir,          \* "rx": the model writes the entries; "tx": it reads them
  pc,           \* "register", "convert", "done" or "failed"
  cur,          \* the element the loop is at: [entry, idx]
  pdo_map,      \* the elements registered so far: element -> [offset, bit_pos]
  image,        \* the bits of the process image
  signal        \* element -> the 64 bits at its address

vars == <<layout, dir, pc, cur, pdo_map, image, signal>>

Bitlen(datatype) == datatype % 1000
Bytes(datatype) == Bitlen(datatype) \div 8
IsBits(datatype) == datatype < 1008

(* External: the library packs the entries one after another. Where each   *)
(* one ends, in bits, behind the start at 0; the image holds all of them.  *)
Ends(mapping) ==
  LET end[j \in 0..Len(mapping)] ==
        IF j = 0 THEN 0
        ELSE end[j - 1] + mapping[j].gap
               + Bitlen(mapping[j].datatype) * mapping[j].n
  IN  end

ASSUME FitAssumption == \A m \in Layouts : Ends(m)[Len(m)] <= Bits

-----------------------------------------------------------------------------
(* The conversions. A byte conversion moves whole bytes: it is a function  *)
(* from each byte it writes to the byte it takes, NoByte for a byte it     *)
(* clears.                                                                 *)

Merge(f, g) ==
  [x \in DOMAIN f \cup DOMAIN g |-> IF x \in DOMAIN f THEN f[x] ELSE g[x]]

\* The C type that holds a value of n bytes.
Container(n) == CASE n <= 2 -> n [] n \in 3..4 -> 4 [] OTHER -> 8

\* The bytes at..at+size-1 of the image from the value, shifted right.
Store(at, size, shift) == [b \in at..(at + size - 1) |-> b - at + shift]

\* ecs_write_*(): the stores of the functions for n bytes.
Stores(n) ==
  CASE n = 3 -> Merge(Store(0, 2, 1), Store(2, 1, 0))
    [] n = 5 -> Merge(Store(0, 4, 1), Store(4, 1, 0))
    [] n = 6 -> Merge(Store(0, 4, 2), Store(4, 2, 0))
    [] n = 7 -> Merge(Store(0, 4, 3), Merge(Store(4, 2, 1), Store(7, 1, 0)))
    [] OTHER -> Store(0, n, 0)

\* ecs_write_be_*(): the value is htobe() of the signal's container. And
\* wrong: it is htole().
BigStoresAsLittle(n) == Stores(n)
BigStores(n) ==
  [b \in DOMAIN Stores(n) |-> Container(n) - 1 - Stores(n)[b]]

WriteBytes(n, bigendian) == IF bigendian THEN BigStores(n) ELSE Stores(n)

\* The value's bytes from the bytes at..at+size-1 of the image, shifted left,
\* in either byte order.
LoadLe(at, size, shift) == [b \in shift..(shift + size - 1) |-> b - shift + at]
LoadBe(at, size, shift) ==
  [b \in shift..(shift + size - 1) |-> at + size - 1 - (b - shift)]

\* ecs_read_le_*(): the loads of the functions for n bytes.
LoadsLe(n) ==
  CASE n = 3 -> Merge(LoadLe(1, 2, 1), LoadLe(0, 1, 0))
    [] n = 5 -> Merge(LoadLe(1, 4, 1), LoadLe(0, 1, 0))
    [] n = 6 -> Merge(LoadLe(2, 4, 2), LoadLe(0, 2, 0))
    [] n = 7 -> Merge(LoadLe(3, 4, 3), Merge(LoadLe(1, 2, 1), LoadLe(0, 1, 0)))
    [] OTHER -> LoadLe(0, n, 0)

\* ecs_read_be_*().
LoadsBe(n) ==
  CASE n = 3 -> Merge(LoadBe(0, 1, 2), LoadBe(1, 2, 0))
    [] n = 5 -> Merge(LoadBe(0, 1, 4), LoadBe(1, 4, 0))
    [] n = 6 -> Merge(LoadBe(0, 2, 4), LoadBe(2, 4, 0))
    [] n = 7 -> Merge(LoadBe(0, 1, 6), Merge(LoadBe(1, 2, 4), LoadBe(3, 4, 0)))
    [] OTHER -> LoadBe(0, n, 0)

NoByte == -1

ReadBytes(n, bigendian) ==
  LET loads == IF bigendian THEN LoadsBe(n) ELSE LoadsLe(n)
  IN  [b \in 0..(Container(n) - 1) |->
         IF b \in DOMAIN loads THEN loads[b] ELSE NoByte]

\* The tokens: a bit of the image as the slave sent it, a bit of a signal,
\* and Zero, the bit of a cleared byte or one a mask has taken away.
NoElement == [entry |-> 0, idx |-> 0]
Bit(e, i) == [of |-> e, bit |-> i]
Zero == Bit(NoElement, -1)

\* A byte conversion, bit by bit: to[8 * at + ..] from from[8 * base + ..].
MoveBytes(to, at, moves, from, base) ==
  [i \in DOMAIN to |->
     LET b == (i \div 8) - at
     IN  IF b \notin DOMAIN moves THEN to[i]
         ELSE IF moves[b] = NoByte THEN Zero
         ELSE from[8 * (base + moves[b]) + (i % 8)]]

\* ecs_write_uint1() to 7: the masked bits of the byte at offset.
\* And wrong: the whole rest of the byte.
WriteByte(to, offset, index, n, from) ==
  [i \in DOMAIN to |->
     LET b == i - 8 * offset
     IN  IF b \in 0..7 /\ b >= index THEN from[b - index] ELSE to[i]]

WriteBits(to, offset, index, n, from) ==
  [i \in DOMAIN to |->
     LET b == i - 8 * offset
     IN  IF b \in 0..7 /\ b \in index..(index + n - 1) THEN from[b - index]
                                                       ELSE to[i]]

\* ecs_read_uint1() to 7: the byte at offset, shifted and masked.
\* And wrong: not masked.
ReadByte(to, offset, index, n, from) ==
  [i \in DOMAIN to |->
     CASE i \notin 0..7    -> to[i]
       [] i + index \in 0..7 -> from[8 * offset + index + i]
       [] OTHER            -> Zero]

ReadBits(to, offset, index, n, from) ==
  [i \in DOMAIN to |->
     CASE i \notin 0..7                  -> to[i]
       [] i < n /\ i + index < 8         -> from[8 * offset + index + i]
       [] OTHER                          -> Zero]

-----------------------------------------------------------------------------
(* The elements of the mapping, in the order of the block's pdo_map.       *)

Elements ==
  UNION {[entry : {k}, idx : 0..(layout[k].n - 1)] : k \in DOMAIN layout}
First == [entry |-> 1, idx |-> 0]
Last == [entry |-> Len(layout), idx |-> layout[Len(layout)].n - 1]
Following(e) ==
  IF e.idx + 1 < layout[e.entry].n THEN [e EXCEPT !.idx = @ + 1]
                                   ELSE [entry |-> e.entry + 1, idx |-> 0]

\* External: where the entry begins in the process image, in bits.
Start(k) == Ends(layout)[k - 1] + layout[k].gap

\* register_pdos(): the place of element idx of an entry the library put
\* at offset and bit_pos. And wrong: the element's index does not move the
\* byte.
PlaceSameByte(offset, bit_pos, bitlen, idx) ==
  [offset |-> offset, bit_pos |-> (bit_pos + bitlen * idx) % 8]

Place(offset, bit_pos, bitlen, idx) ==
  IF bitlen < 8
  THEN [offset |-> offset + (bit_pos + bitlen * idx) \div 8,
        bit_pos |-> (bit_pos + bitlen * idx) % 8]
  ELSE [offset |-> offset + (bitlen * idx) \div 8, bit_pos |-> bit_pos]

\* One turn of the loop of register_pdos(); whole bytes need a whole offset.
RegisterPdo ==
  LET entry == layout[cur.entry]
      bitlen == Bitlen(entry.datatype)
      offset == Start(cur.entry) \div 8
      bit_pos == Start(cur.entry) % 8
  IN
  /\ pc = "register"
  /\ IF bitlen >= 8 /\ bit_pos # 0
     THEN pc' = "failed" /\ UNCHANGED <<cur, pdo_map>>
     ELSE /\ pdo_map' = Merge([e \in {cur} |->
                             Place(offset, bit_pos, bitlen, cur.idx)], pdo_map)
          /\ IF cur = Last THEN pc' = "convert" /\ cur' = First
                           ELSE cur' = Following(cur) /\ UNCHANGED pc
  /\ UNCHANGED <<layout, dir, image, signal>>

\* The conversion ecs_start() selects for an output, run by ecs_send().
Written(e) ==
  LET t == layout[e.entry].datatype
      p == pdo_map[e]
  IN  IF IsBits(t)
      THEN WriteBits(image, p.offset, p.bit_pos, Bitlen(t), signal[e])
      ELSE MoveBytes(image, p.offset,
                     WriteBytes(Bytes(t), layout[e.entry].bigendian),
                     signal[e], 0)

\* The conversion it selects for an input, run by ecs_receive().
Read(e) ==
  LET t == layout[e.entry].datatype
      p == pdo_map[e]
  IN  IF IsBits(t)
      THEN ReadBits(signal[e], p.offset, p.bit_pos, Bitlen(t), image)
      ELSE MoveBytes(signal[e], 0,
                     ReadBytes(Bytes(t), layout[e.entry].bigendian),
                     image, p.offset)

\* One turn of the conversion loop of ecs_send() or ecs_receive().
Convert ==
  /\ pc = "convert"
  /\ \/ dir = "rx" /\ image' = Written(cur) /\ UNCHANGED signal
     \/ /\ dir = "tx"
        /\ signal' = [signal EXCEPT ![cur] = Read(cur)]
        /\ UNCHANGED image
  /\ IF cur = Last THEN pc' = "done" /\ UNCHANGED cur
                   ELSE cur' = Following(cur) /\ UNCHANGED pc
  /\ UNCHANGED <<layout, dir, pdo_map>>

Finished == pc \in {"done", "failed"} /\ UNCHANGED vars

Init ==
  /\ layout \in Layouts
  /\ dir \in {"rx", "tx"}
  /\ pc = "register"
  /\ cur = First
  /\ pdo_map = <<>>
  /\ image = [b \in 0..(Bits - 1) |-> Bit(NoElement, b)]
  /\ signal = [e \in Elements |-> [i \in 0..63 |-> Bit(e, i)]]

Next == RegisterPdo \/ Convert \/ Finished

Spec == Init /\ [][Next]_vars

-----------------------------------------------------------------------------
(* Properties                                                              *)

\* Where element e lies by the mapping alone, and the bit of the image that
\* holds bit i of its value in its byte order.
At(e) == Start(e.entry) + Bitlen(layout[e.entry].datatype) * e.idx

Reference(e, i) ==
  LET entry == layout[e.entry]
      b == i \div 8
  IN  IF IsBits(entry.datatype) THEN At(e) + i
      ELSE At(e) + (i % 8)
             + 8 * (IF entry.bigendian THEN Bytes(entry.datatype) - 1 - b
                                       ELSE b)

ValueBits(e) == 0..(Bitlen(layout[e.entry].datatype) - 1)
OwnBits(e) == {At(e) + i : i \in ValueBits(e)}

\* Elements of less than a byte may cross a byte boundary.
InOneByte(e) ==
  IsBits(layout[e.entry].datatype)
    => (At(e) % 8) + Bitlen(layout[e.entry].datatype) <= 8

(* Every registered element is where the mapping puts it, and one of whole *)
(* bytes on a byte boundary, although bit_pos is only tested for the entry. *)
Placed ==
  \A e \in DOMAIN pdo_map :
    /\ 8 * pdo_map[e].offset + pdo_map[e].bit_pos = At(e)
    /\ ~IsBits(layout[e.entry].datatype) => pdo_map[e].bit_pos = 0

(* ecs_receive() gives every signal the value its slave sent, zero-extended *)
(* to the signal's C type, and does not write past that type.              *)
SignalBits(e) ==
  LET t == layout[e.entry].datatype
  IN  IF IsBits(t) THEN 8 ELSE 8 * Container(Bytes(t))

ReceivedValue(e) ==
  \A i \in 0..63 :
    signal[e][i] = CASE i \in ValueBits(e)  -> Bit(NoElement, Reference(e, i))
                     [] i >= SignalBits(e)  -> Bit(e, i)
                     [] OTHER               -> Zero

InputsReceived ==
  pc = "done" /\ dir = "tx" =>
    \A e \in Elements : InOneByte(e) => ReceivedValue(e)

\* After ecs_send() the image holds the value of e.
SentValue(e) ==
  \A i \in ValueBits(e) : image[Reference(e, i)] = Bit(e, i)

(* It holds every signal whose C type is as wide as its entry, with no     *)
(* write of another element over it.                                       *)
SameWidth(e) ==
  LET t == layout[e.entry].datatype
  IN  IsBits(t) \/ Container(Bytes(t)) = Bytes(t)

OutputsSent ==
  pc = "done" /\ dir = "rx" /\ (\A e \in Elements : SameWidth(e)) =>
    \A e \in Elements : InOneByte(e) => SentValue(e)

(* No conversion changes a bit that is not of an entry it writes, even     *)
(* while the image is half converted, as long as none has 56 bits.         *)
PaddingKept ==
  (\A e \in Elements : Bytes(layout[e.entry].datatype) # 7) =>
    \A b \in DOMAIN image \ UNION {OwnBits(e) : e \in Elements} :
      image[b] = Bit(NoElement, b)

(* ecrt_support.c, on the conversions: "The data is interpreted as little  *)
(* endian, which is the format used by EtherCAT", for the 24 to 56 bit     *)
(* types as well.                                                          *)
LittleEndianSent ==
  pc = "done" /\ dir = "rx" =>
    \A e \in Elements :
      ~layout[e.entry].bigendian /\ InOneByte(e) => SentValue(e)
=============================================================================
