-------------------------- MODULE PdoImage_proofs --------------------------
(* Every element is where the mapping puts it, every conversion moves the  *)
(* bits of its element and no others, for mappings of any length with any  *)
(* padding, of entries of any of the data types and of any width.          *)
EXTENDS PdoImage, Induction

-----------------------------------------------------------------------------
(* The data types.                                                         *)

LEMMA TypeWidths ==
  ASSUME NEW t \in DataTypes
  PROVE  \/ IsBits(t) /\ Bitlen(t) \in 1..7
         \/ /\ ~IsBits(t) /\ Bytes(t) \in 1..8
            /\ Bitlen(t) = 8 * Bytes(t)
<1>1. CASE t \in 1001..1008
  BY <1>1 DEF IsBits, Bitlen, Bytes
<1>2. CASE t \in {1016, 1024, 1032, 1040, 1048, 1056, 1064}
  BY <1>2 DEF IsBits, Bitlen, Bytes
<1>3. CASE t \in {2008, 2016, 2032, 2064}
  BY <1>3 DEF IsBits, Bitlen, Bytes
<1>4. CASE t \in {3032, 3064}
  BY <1>4 DEF IsBits, Bitlen, Bytes
<1> QED
  BY <1>1, <1>2, <1>3, <1>4 DEF DataTypes

LEMMA BitlenType ==
  ASSUME NEW t \in DataTypes
  PROVE  Bitlen(t) \in Nat \ {0}
BY TypeWidths

LEMMA Products ==
  ASSUME NEW a \in Nat, NEW b \in Nat
  PROVE  a * b \in Nat
OBVIOUS

LEMMA NextProduct ==
  ASSUME NEW a \in Nat, NEW b \in Nat, NEW c \in Nat, b + 1 <= c
  PROVE  a * b + a <= a * c
<1>1. PICK d \in Nat : c = b + 1 + d
  <2>1. c - (b + 1) \in Nat /\ c = b + 1 + (c - (b + 1))
    OBVIOUS
  <2> QED
    BY <2>1
<1>2. a * c = a * b + a + a * d
  BY <1>1
<1> QED
  BY <1>2, Products

-----------------------------------------------------------------------------
(* Where the entries end: the loop of the library over a mapping.          *)

Size(entry) == entry.gap + Bitlen(entry.datatype) * entry.n

LEMMA SizeType ==
  ASSUME NEW e \in Entry
  PROVE  /\ Size(e) \in Nat /\ e.gap \in Nat /\ e.datatype \in DataTypes
         /\ e.n \in Nat \ {0} /\ e.bigendian \in BOOLEAN
         /\ Bitlen(e.datatype) * e.n \in Nat
<1>1. /\ e.gap \in Nat /\ e.datatype \in DataTypes
      /\ e.n \in Nat \ {0} /\ e.bigendian \in BOOLEAN
  BY DEF Entry
<1>2. Bitlen(e.datatype) * e.n \in Nat
  BY <1>1, BitlenType, Products
<1> QED
  BY <1>1, <1>2 DEF Size

(* A running sum of sizes exists: what lets the recursion be unrolled.     *)
LEMMA SumExists ==
  ASSUME NEW m, NEW n \in Nat
  PROVE  \E f : f = [j \in 0..n |-> IF j = 0 THEN 0
                       ELSE f[j - 1] + m[j].gap
                              + Bitlen(m[j].datatype) * m[j].n]
<1> DEFINE Sum(f, k) ==
             f = [j \in 0..k |-> IF j = 0 THEN 0
                    ELSE f[j - 1] + m[j].gap
                           + Bitlen(m[j].datatype) * m[j].n]
           Upto == {k \in 0..n : \E f : Sum(f, k)}
<1>1. 0 \in Upto
  <2>1. Sum([j \in 0..0 |-> 0], 0)
    OBVIOUS
  <2>2. \E f : Sum(f, 0)
    <3> HIDE DEF Sum
    <3> QED
      BY <2>1, Zenon
  <2>3. 0 \in 0..n
    OBVIOUS
  <2> QED
    BY <2>2, <2>3
<1>2. ASSUME NEW k \in 0..(n - 1), k \in Upto
      PROVE  k + 1 \in Upto
  <2>1. PICK f : Sum(f, k)
    BY <1>2
  <2> DEFINE last == f[k] + m[k + 1].gap
                       + Bitlen(m[k + 1].datatype) * m[k + 1].n
             g == [j \in 0..(k + 1) |-> IF j = k + 1 THEN last ELSE f[j]]
  <2>2. Sum(g, k + 1)
    <3>1. ASSUME NEW j \in 0..(k + 1)
          PROVE  g[j] = IF j = 0 THEN 0
                        ELSE g[j - 1] + m[j].gap
                               + Bitlen(m[j].datatype) * m[j].n
      <4>1. CASE j = k + 1
        <5>1. (k + 1) - 1 = k /\ k \in 0..(k + 1) /\ k # k + 1 /\ k + 1 # 0
          OBVIOUS
        <5>2. g[k] = f[k]
          BY <5>1
        <5> QED
          BY <4>1, <5>1, <5>2
      <4>2. CASE j = 0
        BY <2>1, <4>2
      <4>3. CASE j # k + 1 /\ j # 0
        <5>1. j - 1 \in 0..k /\ j - 1 # k + 1 /\ j \in 0..k
          BY <4>3
        <5>2. g[j - 1] = f[j - 1] /\ g[j] = f[j]
          BY <4>3, <5>1
        <5>3. f[j] = f[j - 1] + m[j].gap + Bitlen(m[j].datatype) * m[j].n
          BY <2>1, <4>3, <5>1
        <5> QED
          BY <4>3, <5>2, <5>3
      <4> QED
        BY <4>1, <4>2, <4>3
    <3> QED
      BY <3>1
  <2>3. \E h : Sum(h, k + 1)
    <3> HIDE DEF Sum, g
    <3> QED
      BY <2>2, Zenon
  <2>4. k + 1 \in 0..n
    OBVIOUS
  <2> QED
    BY <2>3, <2>4
<1> HIDE DEF Upto, Sum
<1>3. \A k \in 0..n : k \in Upto
  BY <1>1, <1>2, Turns
<1>4. n \in Upto
  BY <1>3
<1> QED
  BY <1>4 DEF Upto, Sum

LEMMA EndsUnrolled ==
  ASSUME NEW m \in Layouts
  PROVE  /\ Ends(m)[0] = 0
         /\ \A j \in 1..Len(m) :
              /\ Ends(m)[j - 1] \in Nat
              /\ Ends(m)[j] = Ends(m)[j - 1] + Size(m[j])
         /\ \A j \in 0..Len(m) : Ends(m)[j] \in Nat
<1>1. m \in Seq(Entry) /\ Len(m) \in Nat
  BY LayoutsAssumption
<1>2. Ends(m) = [j \in 0..Len(m) |-> IF j = 0 THEN 0
                   ELSE Ends(m)[j - 1] + m[j].gap
                          + Bitlen(m[j].datatype) * m[j].n]
  BY <1>1, SumExists, Zenon DEF Ends
<1>3. Ends(m)[0] = 0
  BY <1>1, <1>2
<1>4. ASSUME NEW j \in 1..Len(m), Ends(m)[j - 1] \in Nat
      PROVE  Ends(m)[j] = Ends(m)[j - 1] + Size(m[j]) /\ Ends(m)[j] \in Nat
  <2>1. Size(m[j]) \in Nat /\ m[j].gap \in Nat
        /\ Bitlen(m[j].datatype) * m[j].n \in Nat
    BY <1>1, SizeType
  <2>2. Ends(m)[j] = Ends(m)[j - 1] + m[j].gap
                       + Bitlen(m[j].datatype) * m[j].n
    BY <1>1, <1>2
  <2>3. Size(m[j]) = m[j].gap + Bitlen(m[j].datatype) * m[j].n
    BY DEF Size
  <2> QED
    BY <1>4, <2>1, <2>2, <2>3
<1> DEFINE Typed == {j \in 0..Len(m) : Ends(m)[j] \in Nat}
<1>5. 0 \in Typed
  BY <1>1, <1>3
<1>6. ASSUME NEW k \in 0..(Len(m) - 1), k \in Typed PROVE k + 1 \in Typed
  <2>1. k + 1 \in 1..Len(m) /\ (k + 1) - 1 = k
    BY <1>1
  <2>2. Ends(m)[k + 1] \in Nat
    BY <1>4, <1>6, <2>1
  <2> QED
    BY <1>1, <2>1, <2>2
<1> HIDE DEF Typed
<1>7. \A j \in 0..Len(m) : j \in Typed
  BY <1>1, <1>5, <1>6, Turns
<1>8. \A j \in 0..Len(m) : Ends(m)[j] \in Nat
  BY <1>7 DEF Typed
<1>9. \A j \in 1..Len(m) : j - 1 \in 0..Len(m)
  BY <1>1
<1> QED
  BY <1>3, <1>4, <1>8, <1>9

(* No entry ends before an earlier one.                                    *)
LEMMA EndsGrow ==
  ASSUME NEW m \in Layouts, NEW i \in 0..Len(m), NEW j \in i..Len(m)
  PROVE  Ends(m)[i] <= Ends(m)[j]
<1>1. m \in Seq(Entry) /\ Len(m) \in Nat
  BY LayoutsAssumption
<1> DEFINE Past == {k \in 0..Len(m) : k >= i => Ends(m)[i] <= Ends(m)[k]}
<1>2. 0 \in Past
  <2>1. 0 >= i => i = 0
    BY <1>1
  <2> QED
    BY <1>1, <2>1, EndsUnrolled
<1>3. ASSUME NEW k \in 0..(Len(m) - 1), k \in Past PROVE k + 1 \in Past
  <2>1. k + 1 \in 1..Len(m) /\ (k + 1) - 1 = k /\ k + 1 \in 0..Len(m)
    BY <1>1
  <2>2. /\ Ends(m)[k + 1] = Ends(m)[k] + Size(m[k + 1])
        /\ Ends(m)[k] \in Nat /\ Ends(m)[i] \in Nat
    BY <2>1, EndsUnrolled
  <2>3. Size(m[k + 1]) \in Nat
    BY <1>1, <2>1, SizeType
  <2>4. k + 1 >= i => k >= i \/ k + 1 = i
    BY <1>1
  <2> QED
    BY <1>3, <2>1, <2>2, <2>3, <2>4
<1> HIDE DEF Past
<1>4. \A k \in 0..Len(m) : k \in Past
  BY <1>1, <1>2, <1>3, Turns
<1>5. j \in Past
  BY <1>1, <1>4
<1> QED
  BY <1>1, <1>5 DEF Past

-----------------------------------------------------------------------------
(* The elements and their order.                                           *)

Type(e) == layout[e.entry].datatype

Before(e, f) ==
  \/ e.entry < f.entry
  \/ e.entry = f.entry /\ e.idx < f.idx

LEMMA LayoutType ==
  ASSUME layout \in Layouts
  PROVE  /\ layout \in Seq(Entry) /\ Len(layout) \in Nat \ {0}
         /\ DOMAIN layout = 1..Len(layout)
         /\ \A k \in 1..Len(layout) :
              /\ layout[k] \in Entry
              /\ layout[k].n \in Nat \ {0}
              /\ layout[k].gap \in Nat
              /\ layout[k].datatype \in DataTypes
              /\ layout[k].bigendian \in BOOLEAN
<1>1. layout \in Seq(Entry) /\ layout # <<>>
  BY LayoutsAssumption
<1>2. /\ Len(layout) \in Nat \ {0} /\ DOMAIN layout = 1..Len(layout)
      /\ \A k \in 1..Len(layout) : layout[k] \in Entry
  BY <1>1
<1> QED
  BY <1>1, <1>2, SizeType

LEMMA ElementsAre ==
  ASSUME layout \in Layouts, NEW e
  PROVE  e \in Elements <=>
           /\ e = [entry |-> e.entry, idx |-> e.idx]
           /\ e.entry \in 1..Len(layout)
           /\ e.idx \in 0..(layout[e.entry].n - 1)
<1>1. ASSUME e \in Elements
      PROVE  /\ e = [entry |-> e.entry, idx |-> e.idx]
             /\ e.entry \in 1..Len(layout)
             /\ e.idx \in 0..(layout[e.entry].n - 1)
  <2>1. PICK k \in DOMAIN layout :
          e \in [entry : {k}, idx : 0..(layout[k].n - 1)]
    BY <1>1 DEF Elements
  <2> QED
    BY <2>1, LayoutType
<1>2. ASSUME e = [entry |-> e.entry, idx |-> e.idx],
             e.entry \in 1..Len(layout), e.idx \in 0..(layout[e.entry].n - 1)
      PROVE  e \in Elements
  <2>1. e \in [entry : {e.entry}, idx : 0..(layout[e.entry].n - 1)]
    BY <1>2
  <2>2. e.entry \in DOMAIN layout
    BY <1>2, LayoutType
  <2> QED
    BY <2>1, <2>2 DEF Elements
<1> QED
  BY <1>1, <1>2

LEMMA ElementType ==
  ASSUME layout \in Layouts, NEW e \in Elements
  PROVE  /\ e = [entry |-> e.entry, idx |-> e.idx]
         /\ e.entry \in 1..Len(layout)
         /\ e.idx \in Nat /\ e.idx < layout[e.entry].n
         /\ layout[e.entry].n \in Nat
         /\ layout[e.entry].bigendian \in BOOLEAN
         /\ Type(e) \in DataTypes
         /\ Bitlen(Type(e)) \in Nat \ {0}
<1>1. /\ e = [entry |-> e.entry, idx |-> e.idx]
      /\ e.entry \in 1..Len(layout)
      /\ e.idx \in 0..(layout[e.entry].n - 1)
  BY ElementsAre
<1>2. /\ layout[e.entry].n \in Nat \ {0} /\ Type(e) \in DataTypes
      /\ layout[e.entry].bigendian \in BOOLEAN
  BY <1>1, LayoutType DEF Type
<1> QED
  BY <1>1, <1>2, BitlenType

LEMMA SameElement ==
  ASSUME layout \in Layouts, NEW e \in Elements, NEW f \in Elements,
         e.entry = f.entry, e.idx = f.idx
  PROVE  e = f
BY ElementType

LEMMA FirstElement ==
  ASSUME layout \in Layouts
  PROVE  First \in Elements /\ \A e \in Elements : ~Before(e, First)
<1>1. First.entry = 1 /\ First.idx = 0
      /\ First = [entry |-> First.entry, idx |-> First.idx]
  BY DEF First
<1>2. First \in Elements
  BY <1>1, LayoutType, ElementsAre
<1> QED
  BY <1>1, <1>2, ElementType DEF Before

LEMMA LastElement ==
  ASSUME layout \in Layouts
  PROVE  /\ Last \in Elements
         /\ \A e \in Elements : e = Last \/ Before(e, Last)
<1>1. /\ Last.entry = Len(layout)
      /\ Last.idx = layout[Len(layout)].n - 1
      /\ Last = [entry |-> Last.entry, idx |-> Last.idx]
  BY DEF Last
<1>2. Last \in Elements
  <2>1. layout[Len(layout)].n \in Nat \ {0} /\ Len(layout) \in 1..Len(layout)
    BY LayoutType
  <2> QED
    BY <1>1, <2>1, ElementsAre
<1>3. ASSUME NEW e \in Elements PROVE e = Last \/ Before(e, Last)
  <2>1. CASE e.entry = Len(layout)
    <3>1. e.idx \in Nat /\ e.idx < layout[Len(layout)].n
          /\ layout[Len(layout)].n \in Nat
      BY <2>1, ElementType
    <3>2. CASE e.idx = layout[Len(layout)].n - 1
      BY <1>1, <1>2, <2>1, <3>2, SameElement
    <3>3. CASE e.idx < layout[Len(layout)].n - 1
      BY <1>1, <2>1, <3>3 DEF Before
    <3> QED
      BY <3>1, <3>2, <3>3
  <2>2. CASE e.entry # Len(layout)
    <3>1. e.entry \in 1..Len(layout) /\ Len(layout) \in Nat
      BY ElementType, LayoutType
    <3> QED
      BY <1>1, <2>2, <3>1 DEF Before
  <2> QED
    BY <2>1, <2>2
<1> QED
  BY <1>2, <1>3

LEMMA FollowingElement ==
  ASSUME layout \in Layouts, NEW e \in Elements, e # Last
  PROVE  /\ Following(e) \in Elements
         /\ \A f \in Elements :
              Before(f, Following(e)) <=> f = e \/ Before(f, e)
<1> DEFINE n == layout[e.entry].n
<1>1. /\ e = [entry |-> e.entry, idx |-> e.idx]
      /\ e.entry \in 1..Len(layout) /\ Len(layout) \in Nat
      /\ e.idx \in Nat /\ e.idx < n /\ n \in Nat
  BY ElementType, LayoutType
<1>2. CASE e.idx + 1 < n
  <2> DEFINE g == [e EXCEPT !.idx = @ + 1]
  <2>1. Following(e) = g
    BY <1>2 DEF Following
  <2>2. g.entry = e.entry /\ g.idx = e.idx + 1
        /\ g = [entry |-> g.entry, idx |-> g.idx]
    BY <1>1
  <2>3. g \in Elements
    <3>1. g.idx \in 0..(layout[g.entry].n - 1)
      BY <1>1, <1>2, <2>2
    <3> QED
      BY <1>1, <2>2, <3>1, ElementsAre
  <2>4. ASSUME NEW f \in Elements
        PROVE  Before(f, g) <=> f = e \/ Before(f, e)
    <3>1. f.entry \in Nat /\ f.idx \in Nat
      BY ElementType
    <3>2. f.entry = e.entry /\ f.idx = e.idx => f = e
      BY SameElement
    <3> QED
      BY <1>1, <2>2, <3>1, <3>2 DEF Before
  <2> QED
    BY <2>1, <2>3, <2>4
<1>3. CASE ~(e.idx + 1 < n)
  <2> DEFINE g == [entry |-> e.entry + 1, idx |-> 0]
  <2>1. Following(e) = g
    BY <1>3 DEF Following
  <2>2. e.entry # Len(layout)
    <3>1. ASSUME e.entry = Len(layout) PROVE FALSE
      <4>1. Last.entry = e.entry /\ Last.idx = n - 1 /\ e.idx = n - 1
        BY <1>1, <1>3, <3>1 DEF Last
      <4>2. e = Last
        BY <4>1, LastElement, SameElement
      <4> QED
        BY <4>2
    <3> QED
      BY <3>1
  <2>3. g.entry = e.entry + 1 /\ g.idx = 0
        /\ g = [entry |-> g.entry, idx |-> g.idx]
    OBVIOUS
  <2>4. g \in Elements
    <3>1. g.entry \in 1..Len(layout)
      BY <1>1, <2>2, <2>3
    <3>2. layout[g.entry].n \in Nat \ {0}
      BY <3>1, LayoutType
    <3>3. g.idx \in 0..(layout[g.entry].n - 1)
      BY <2>3, <3>2
    <3> HIDE DEF g
    <3> QED
      BY <2>3, <3>1, <3>3, ElementsAre
  <2>5. ASSUME NEW f \in Elements
        PROVE  Before(f, g) <=> f = e \/ Before(f, e)
    <3>1. f.entry \in Nat /\ f.idx \in Nat
      BY ElementType
    <3>2. f.entry = e.entry => f.idx <= e.idx
      <4>1. f.entry = e.entry => f.idx < n
        BY ElementType
      <4> QED
        BY <1>1, <1>3, <3>1, <4>1
    <3>3. f.entry = e.entry /\ f.idx = e.idx => f = e
      BY SameElement
    <3>4. Before(f, g) <=> f.entry <= e.entry
      BY <1>1, <2>3, <3>1 DEF Before
    <3> QED
      BY <1>1, <3>1, <3>2, <3>3, <3>4 DEF Before
  <2> QED
    BY <2>1, <2>4, <2>5
<1> QED
  BY <1>2, <1>3

-----------------------------------------------------------------------------
(* Where the elements lie: behind one another, within the image.           *)

LEMMA StartType ==
  ASSUME layout \in Layouts, NEW k \in 1..Len(layout)
  PROVE  /\ Start(k) \in Nat
         /\ Ends(layout)[k - 1] \in Nat /\ Ends(layout)[k] \in Nat
         /\ Ends(layout)[k - 1] <= Start(k)
         /\ Ends(layout)[k]
              = Start(k) + Bitlen(layout[k].datatype) * layout[k].n
<1>1. /\ Ends(layout)[k - 1] \in Nat /\ Ends(layout)[k] \in Nat
      /\ Ends(layout)[k] = Ends(layout)[k - 1] + Size(layout[k])
  <2>1. k \in 0..Len(layout)
    BY LayoutType
  <2> QED
    BY <2>1, EndsUnrolled
<1>2. /\ layout[k].gap \in Nat
      /\ Bitlen(layout[k].datatype) * layout[k].n \in Nat
  BY LayoutType, SizeType
<1>3. Start(k) = Ends(layout)[k - 1] + layout[k].gap
  BY DEF Start
<1> QED
  BY <1>1, <1>2, <1>3 DEF Size

LEMMA ElementPlace ==
  ASSUME layout \in Layouts, NEW e \in Elements
  PROVE  /\ At(e) \in Nat
         /\ Start(e.entry) <= At(e)
         /\ At(e) + Bitlen(Type(e)) <= Ends(layout)[e.entry]
         /\ At(e) = Start(e.entry) + Bitlen(Type(e)) * e.idx
<1>1. /\ Bitlen(Type(e)) \in Nat /\ e.idx \in Nat /\ layout[e.entry].n \in Nat
      /\ e.idx + 1 <= layout[e.entry].n
      /\ e.entry \in 1..Len(layout)
  BY ElementType
<1>2. /\ Bitlen(Type(e)) * e.idx \in Nat
      /\ Bitlen(Type(e)) * layout[e.entry].n \in Nat
      /\ Bitlen(Type(e)) * e.idx + Bitlen(Type(e))
           <= Bitlen(Type(e)) * layout[e.entry].n
  BY <1>1, Products, NextProduct
<1>3. /\ Start(e.entry) \in Nat
      /\ Ends(layout)[e.entry]
           = Start(e.entry) + Bitlen(Type(e)) * layout[e.entry].n
  BY <1>1, StartType DEF Type
<1>4. At(e) = Start(e.entry) + Bitlen(Type(e)) * e.idx
  BY DEF At, Type
<1> DEFINE x == Bitlen(Type(e)) * e.idx
           y == Bitlen(Type(e)) * layout[e.entry].n
<1>5. /\ x \in Nat /\ y \in Nat /\ x + Bitlen(Type(e)) <= y
      /\ At(e) = Start(e.entry) + x
      /\ Ends(layout)[e.entry] = Start(e.entry) + y
  BY <1>2, <1>3, <1>4
<1>6. /\ At(e) \in Nat /\ Start(e.entry) <= At(e)
      /\ At(e) + Bitlen(Type(e)) <= Ends(layout)[e.entry]
  <2> DEFINE w == Bitlen(Type(e))
             s == Start(e.entry)
             E == Ends(layout)[e.entry]
  <2>1. /\ s \in Nat /\ w \in Nat /\ x \in Nat /\ y \in Nat
        /\ x + w <= y /\ At(e) = s + x /\ E = s + y
    BY <1>1, <1>3, <1>5
  <2> HIDE DEF x, y, w, s, E
  <2>2. At(e) \in Nat /\ s <= At(e) /\ At(e) + w <= E
    BY <2>1
  <2> QED
    BY <2>2 DEF w, s, E
<1> QED
  BY <1>4, <1>6

LEMMA InImage ==
  ASSUME layout \in Layouts, NEW e \in Elements
  PROVE  At(e) \in Nat /\ At(e) + Bitlen(Type(e)) <= Bits /\ Bits \in Nat
<1>1. e.entry \in 0..Len(layout) /\ Len(layout) \in e.entry..Len(layout)
      /\ Len(layout) \in 0..Len(layout)
  BY ElementType, LayoutType
<1>2. /\ Ends(layout)[e.entry] <= Ends(layout)[Len(layout)]
      /\ Ends(layout)[e.entry] \in Nat /\ Ends(layout)[Len(layout)] \in Nat
  BY <1>1, EndsGrow, EndsUnrolled
<1>3. Ends(layout)[Len(layout)] <= Bits /\ Bits \in Nat
  BY FitAssumption, LayoutsAssumption
<1>4. Bitlen(Type(e)) \in Nat
  BY ElementType
<1> QED
  BY <1>2, <1>3, <1>4, ElementPlace

(* Two elements have no bit in common.                                     *)
LEMMA InOrder ==
  ASSUME layout \in Layouts, NEW e \in Elements, NEW f \in Elements,
         Before(e, f)
  PROVE  At(e) + Bitlen(Type(e)) <= At(f)
<1>1. /\ Bitlen(Type(e)) \in Nat /\ e.idx \in Nat /\ f.idx \in Nat
      /\ e.entry \in 1..Len(layout) /\ f.entry \in 1..Len(layout)
      /\ Len(layout) \in Nat
  BY ElementType, LayoutType
<1>2. CASE e.entry = f.entry /\ e.idx < f.idx
  <2>1. /\ Bitlen(Type(e)) * e.idx \in Nat /\ Bitlen(Type(e)) * f.idx \in Nat
        /\ Bitlen(Type(e)) * e.idx + Bitlen(Type(e)) <= Bitlen(Type(e)) * f.idx
    BY <1>1, <1>2, Products, NextProduct
  <2>2. Type(e) = Type(f) /\ Start(e.entry) = Start(f.entry)
    BY <1>2 DEF Type
  <2>3. /\ At(e) = Start(e.entry) + Bitlen(Type(e)) * e.idx
        /\ At(f) = Start(e.entry) + Bitlen(Type(e)) * f.idx
    BY <2>2, ElementPlace
  <2>4. Start(e.entry) \in Nat
    BY <1>1, StartType
  <2> DEFINE x == Bitlen(Type(e)) * e.idx
             y == Bitlen(Type(e)) * f.idx
  <2>5. /\ x \in Nat /\ y \in Nat /\ x + Bitlen(Type(e)) <= y
        /\ At(e) = Start(e.entry) + x /\ At(f) = Start(e.entry) + y
    BY <2>1, <2>3
  <2> HIDE DEF x, y
  <2> QED
    BY <1>1, <2>4, <2>5
<1>3. CASE e.entry < f.entry
  <2>1. e.entry \in 0..Len(layout) /\ f.entry - 1 \in e.entry..Len(layout)
    BY <1>1, <1>3
  <2>2. Ends(layout)[e.entry] <= Ends(layout)[f.entry - 1]
    BY <2>1, EndsGrow
  <2>3. /\ Ends(layout)[f.entry - 1] <= Start(f.entry)
        /\ Ends(layout)[f.entry - 1] \in Nat /\ Start(f.entry) \in Nat
        /\ Ends(layout)[e.entry] \in Nat
    BY <1>1, StartType
  <2>4. /\ At(e) \in Nat /\ At(f) \in Nat /\ Start(f.entry) <= At(f)
        /\ At(e) + Bitlen(Type(e)) <= Ends(layout)[e.entry]
    BY ElementPlace
  <2> QED
    BY <1>1, <2>2, <2>3, <2>4
<1> QED
  BY <1>2, <1>3 DEF Before

LEMMA Apart ==
  ASSUME layout \in Layouts, NEW e \in Elements, NEW f \in Elements, e # f
  PROVE  \/ At(e) + Bitlen(Type(e)) <= At(f)
         \/ At(f) + Bitlen(Type(f)) <= At(e)
<1>1. /\ e.idx \in Nat /\ f.idx \in Nat /\ e.entry \in Nat /\ f.entry \in Nat
  BY ElementType, LayoutType
<1>2. ~(e.entry = f.entry /\ e.idx = f.idx)
  BY SameElement
<1>3. Before(e, f) \/ Before(f, e)
  BY <1>1, <1>2 DEF Before
<1> QED
  BY <1>3, InOrder

LEMMA OwnBitsAre ==
  ASSUME layout \in Layouts, NEW e \in Elements, NEW b \in Nat
  PROVE  b \in OwnBits(e) <=> At(e) <= b /\ b < At(e) + Bitlen(Type(e))
<1>1. At(e) \in Nat /\ Bitlen(Type(e)) \in Nat
  BY ElementPlace, ElementType
<1>2. OwnBits(e) = {At(e) + i : i \in 0..(Bitlen(Type(e)) - 1)}
  BY DEF OwnBits, ValueBits, Type
<1>3. ASSUME At(e) <= b, b < At(e) + Bitlen(Type(e)) PROVE b \in OwnBits(e)
  <2>1. b - At(e) \in 0..(Bitlen(Type(e)) - 1) /\ At(e) + (b - At(e)) = b
    BY <1>1, <1>3
  <2> QED
    BY <1>2, <2>1
<1> QED
  BY <1>1, <1>2, <1>3

-----------------------------------------------------------------------------
(* register_pdos().                                                        *)

(* The place of an element, as RegisterPdo works it out, is that of the    *)
(* mapping.                                                                *)
PlacedAt(p, e) ==
  /\ p.offset \in Nat /\ p.bit_pos \in 0..7
  /\ 8 * p.offset + p.bit_pos = At(e)
  /\ ~IsBits(Type(e)) => p.bit_pos = 0

LEMMA PlaceBits ==
  ASSUME NEW s \in Nat, NEW x \in Nat
  PROVE  LET p == [offset |-> s \div 8 + ((s % 8) + x) \div 8,
                   bit_pos |-> ((s % 8) + x) % 8]
         IN  /\ p.offset \in Nat /\ p.bit_pos \in 0..7
             /\ 8 * p.offset + p.bit_pos = s + x
OBVIOUS

LEMMA PlaceRight ==
  ASSUME layout \in Layouts, NEW e \in Elements,
         IsBits(Type(e)) \/ Start(e.entry) % 8 = 0
  PROVE  PlacedAt(Place(Start(e.entry) \div 8, Start(e.entry) % 8,
                        Bitlen(Type(e)), e.idx), e)
<1> DEFINE s == Start(e.entry)
           x == Bitlen(Type(e)) * e.idx
           p == Place(s \div 8, s % 8, Bitlen(Type(e)), e.idx)
<1>1. /\ s \in Nat /\ e.idx \in Nat /\ Type(e) \in DataTypes
      /\ Bitlen(Type(e)) \in Nat /\ x \in Nat
  BY ElementType, StartType, Products
<1>2. At(e) = s + x
  BY ElementPlace
<1>3. CASE IsBits(Type(e))
  <2>1. Bitlen(Type(e)) < 8
    BY <1>1, <1>3, TypeWidths
  <2>2. p = [offset |-> s \div 8 + ((s % 8) + x) \div 8,
             bit_pos |-> ((s % 8) + x) % 8]
    BY <2>1 DEF Place
  <2> HIDE DEF s, x
  <2>3. /\ p.offset \in Nat /\ p.bit_pos \in 0..7
        /\ 8 * p.offset + p.bit_pos = s + x
    BY <1>1, <2>2, PlaceBits
  <2> QED
    BY <1>2, <1>3, <2>3 DEF PlacedAt, s
<1>4. CASE ~IsBits(Type(e))
  <2> DEFINE c == Bytes(Type(e))
  <2>1. c \in 1..8 /\ Bitlen(Type(e)) = 8 * c
    BY <1>1, <1>4, TypeWidths
  <2>2. x = 8 * (c * e.idx) /\ c * e.idx \in Nat
    <3>1. c * e.idx \in Nat
      BY <1>1, <2>1, Products
    <3> QED
      BY <1>1, <2>1, <3>1
  <2>3. p = [offset |-> s \div 8 + x \div 8, bit_pos |-> s % 8]
    BY <2>1 DEF Place
  <2>4. s % 8 = 0
    BY <1>4
  <2> HIDE DEF s, x, c
  <2>5. s = 8 * (s \div 8) /\ s \div 8 \in Nat
    BY <1>1, <2>4
  <2>6. x \div 8 \in Nat /\ x = 8 * (x \div 8)
    BY <1>1, <2>2
  <2>7. p.offset = s \div 8 + x \div 8 /\ p.bit_pos = 0
    BY <2>3, <2>4
  <2> QED
    BY <1>2, <1>4, <2>5, <2>6, <2>7 DEF PlacedAt, s
<1> QED
  BY <1>3, <1>4

-----------------------------------------------------------------------------
(* The conversion functions.                                               *)

LEMMA BitOfByte ==
  ASSUME NEW o \in Nat, NEW p \in 0..7, NEW a \in Nat, 8 * o + p = a
  PROVE  a % 8 = p
OBVIOUS

LEMMA BitInByte ==
  ASSUME NEW i \in Nat
  PROVE  i \div 8 \in Nat /\ i % 8 \in 0..7 /\ 8 * (i \div 8) + (i % 8) = i
<1>1. i \div 8 \in Nat
  OBVIOUS
<1>2. i % 8 \in 0..7
  OBVIOUS
<1>3. 8 * (i \div 8) + (i % 8) = i
  OBVIOUS
<1> QED
  BY <1>1, <1>2, <1>3

LEMMA ByteOfBit ==
  ASSUME NEW o \in Nat, NEW q \in Nat, NEW r \in 0..7,
         NEW x \in Nat, x = 8 * o + r + 8 * q
  PROVE  (x \div 8) - o = q /\ x % 8 = r
OBVIOUS

(* The stores of every width but 56 bits stay within the element.          *)
LEMMA StoresWithin ==
  ASSUME NEW n \in 1..8, n # 7, NEW big \in BOOLEAN
  PROVE  DOMAIN WriteBytes(n, big) = 0..(n - 1)
<1>1. DOMAIN Stores(n) = 0..(n - 1)
  <2>1. CASE n = 3
    BY <2>1, SMT DEF Merge, Stores, Store
  <2>2. CASE n = 5
    BY <2>2, SMT DEF Merge, Stores, Store
  <2>3. CASE n = 6
    BY <2>3, SMT DEF Merge, Stores, Store
  <2>4. CASE n \notin {3, 5, 6}
    BY <2>4 DEF Stores, Store
  <2> QED
    BY <2>1, <2>2, <2>3, <2>4
<1>2. DOMAIN BigStores(n) = 0..(n - 1)
  BY <1>1 DEF BigStores
<1> QED
  BY <1>1, <1>2 DEF WriteBytes

(* A value as wide as its C type is stored whole, in either byte order.    *)
LEMMA StoresWhole ==
  ASSUME NEW n \in {1, 2, 4, 8}, NEW big \in BOOLEAN
  PROVE  /\ DOMAIN WriteBytes(n, big) = 0..(n - 1)
         /\ \A b \in 0..(n - 1) :
              WriteBytes(n, big)[b] = IF big THEN n - 1 - b ELSE b
<1>1. DOMAIN Stores(n) = 0..(n - 1) /\ \A b \in 0..(n - 1) : Stores(n)[b] = b
  BY DEF Stores, Store
<1>2. Container(n) = n
  BY DEF Container
<1>3. /\ DOMAIN BigStores(n) = 0..(n - 1)
      /\ \A b \in 0..(n - 1) : BigStores(n)[b] = n - 1 - b
  BY <1>1, <1>2 DEF BigStores
<1> QED
  BY <1>1, <1>3 DEF WriteBytes

(* Every load takes each byte from its place and clears the rest of the C  *)
(* type, for the odd widths as well.                                       *)
LEMMA LoadsLittle ==
  ASSUME NEW n \in 1..8
  PROVE  /\ DOMAIN LoadsLe(n) = 0..(n - 1)
         /\ \A b \in 0..(n - 1) : LoadsLe(n)[b] = b
<1>1. CASE n = 3
  BY <1>1, SMT DEF Merge, LoadsLe, LoadLe
<1>2. CASE n = 5
  BY <1>2, SMT DEF Merge, LoadsLe, LoadLe
<1>3. CASE n = 6
  BY <1>3, SMT DEF Merge, LoadsLe, LoadLe
<1>4. CASE n = 7
  BY <1>4, SMT DEF Merge, LoadsLe, LoadLe
<1>5. CASE n \notin {3, 5, 6, 7}
  BY <1>5 DEF LoadsLe, LoadLe
<1> QED
  BY <1>1, <1>2, <1>3, <1>4, <1>5

LEMMA LoadsBig ==
  ASSUME NEW n \in 1..8
  PROVE  /\ DOMAIN LoadsBe(n) = 0..(n - 1)
         /\ \A b \in 0..(n - 1) : LoadsBe(n)[b] = n - 1 - b
<1>1. CASE n = 3
  BY <1>1, SMT DEF Merge, LoadsBe, LoadBe
<1>2. CASE n = 5
  BY <1>2, SMT DEF Merge, LoadsBe, LoadBe
<1>3. CASE n = 6
  BY <1>3, SMT DEF Merge, LoadsBe, LoadBe
<1>4. CASE n = 7
  BY <1>4, SMT DEF Merge, LoadsBe, LoadBe
<1>5. CASE n \notin {3, 5, 6, 7}
  BY <1>5 DEF LoadsBe, LoadBe
<1> QED
  BY <1>1, <1>2, <1>3, <1>4, <1>5

LEMMA ContainerHolds ==
  ASSUME NEW n \in 1..8
  PROVE  Container(n) \in n..8
<1>1. CASE n \in 1..2
  BY <1>1 DEF Container
<1>2. CASE n \in 3..4
  BY <1>2 DEF Container
<1>3. CASE n \in 5..8
  BY <1>3 DEF Container
<1> QED
  BY <1>1, <1>2, <1>3

LEMMA LoadsWhole ==
  ASSUME NEW n \in 1..8, NEW big \in BOOLEAN
  PROVE  /\ DOMAIN ReadBytes(n, big) = 0..(Container(n) - 1)
         /\ \A b \in 0..(Container(n) - 1) :
              ReadBytes(n, big)[b] =
                IF b >= n THEN NoByte ELSE IF big THEN n - 1 - b ELSE b
<1> DEFINE loads == IF big THEN LoadsBe(n) ELSE LoadsLe(n)
<1>1. /\ DOMAIN loads = 0..(n - 1)
      /\ \A b \in 0..(n - 1) : loads[b] = IF big THEN n - 1 - b ELSE b
  BY LoadsLittle, LoadsBig
<1>2. ReadBytes(n, big) = [b \in 0..(Container(n) - 1) |->
         IF b \in DOMAIN loads THEN loads[b] ELSE NoByte]
  BY DEF ReadBytes
<1> HIDE DEF loads
<1> QED
  BY <1>1, <1>2, ContainerHolds

-----------------------------------------------------------------------------
(* The conversion of one element.                                          *)

LEMMA ReferenceOwn ==
  ASSUME layout \in Layouts, NEW e \in Elements, NEW i \in ValueBits(e)
  PROVE  /\ Reference(e, i) \in Nat
         /\ At(e) <= Reference(e, i)
         /\ Reference(e, i) < At(e) + Bitlen(Type(e))
<1>1. /\ At(e) \in Nat /\ Bitlen(Type(e)) \in Nat /\ Type(e) \in DataTypes
      /\ layout[e.entry].bigendian \in BOOLEAN
      /\ i \in Nat /\ i < Bitlen(Type(e))
  BY ElementPlace, ElementType DEF ValueBits, Type
<1>2. CASE IsBits(Type(e))
  BY <1>1, <1>2 DEF Reference, Type
<1>3. CASE ~IsBits(Type(e))
  <2> DEFINE n == Bytes(Type(e))
             b == i \div 8
             place == IF layout[e.entry].bigendian THEN n - 1 - b ELSE b
  <2>1. n \in 1..8 /\ Bitlen(Type(e)) = 8 * n
    BY <1>1, <1>3, TypeWidths
  <2>2. b \in 0..(n - 1) /\ i % 8 \in 0..7
    BY <1>1, <2>1
  <2>3. place \in 0..(n - 1)
    BY <1>1, <2>1, <2>2
  <2>4. Reference(e, i) = At(e) + (i % 8) + 8 * place
    BY <1>3 DEF Reference, Type
  <2> HIDE DEF n, b, place
  <2> QED
    BY <1>1, <2>1, <2>2, <2>3, <2>4
<1> QED
  BY <1>2, <1>3

ImageType == DOMAIN image = 0..(Bits - 1)

(* A write leaves every bit alone that is not of its element.              *)
LEMMA WriteKeeps ==
  ASSUME layout \in Layouts, ImageType, NEW e \in Elements,
         PlacedAt(pdo_map[e], e), Bytes(Type(e)) # 7,
         NEW x \in DOMAIN image, x \notin OwnBits(e)
  PROVE  Written(e)[x] = image[x]
<1> DEFINE o == pdo_map[e].offset
           p == pdo_map[e].bit_pos
<1>1. /\ At(e) \in Nat /\ Bitlen(Type(e)) \in Nat /\ Type(e) \in DataTypes
      /\ layout[e.entry].bigendian \in BOOLEAN
      /\ o \in Nat /\ p \in 0..7 /\ 8 * o + p = At(e) /\ x \in Nat
  BY ElementPlace, ElementType, LayoutsAssumption DEF PlacedAt, ImageType
<1>2. x < At(e) \/ x >= At(e) + Bitlen(Type(e))
  BY <1>1, OwnBitsAre
<1>3. CASE IsBits(Type(e))
  <2>1. Written(e) = WriteBits(image, o, p, Bitlen(Type(e)), signal[e])
    BY <1>3 DEF Written, Type
  <2>2. ~(x - 8 * o \in p..(p + Bitlen(Type(e)) - 1))
    BY <1>1, <1>2
  <2> QED
    BY <2>1, <2>2 DEF WriteBits
<1>4. CASE ~IsBits(Type(e))
  <2> DEFINE n == Bytes(Type(e))
             moves == WriteBytes(n, layout[e.entry].bigendian)
  <2>1. Written(e) = MoveBytes(image, o, moves, signal[e], 0)
    BY <1>4 DEF Written, Type
  <2>2. n \in 1..8 /\ Bitlen(Type(e)) = 8 * n /\ p = 0
    BY <1>1, <1>4, TypeWidths DEF PlacedAt
  <2>3. DOMAIN moves = 0..(n - 1)
    BY <1>1, <2>2, StoresWithin
  <2> HIDE DEF n, o, p, moves
  <2>4. (x \div 8) - o \notin 0..(n - 1)
    BY <1>1, <1>2, <2>2
  <2> QED
    BY <2>1, <2>3, <2>4 DEF MoveBytes
<1> QED
  BY <1>3, <1>4

(* A write puts every bit of the value where the mapping wants it.         *)
LEMMA WritePuts ==
  ASSUME layout \in Layouts, ImageType, NEW e \in Elements,
         PlacedAt(pdo_map[e], e), SameWidth(e), InOneByte(e),
         NEW i \in ValueBits(e)
  PROVE  Written(e)[Reference(e, i)] = signal[e][i]
<1> DEFINE o == pdo_map[e].offset
           p == pdo_map[e].bit_pos
           x == Reference(e, i)
<1>1. /\ At(e) \in Nat /\ Bitlen(Type(e)) \in Nat /\ Type(e) \in DataTypes
      /\ layout[e.entry].bigendian \in BOOLEAN
      /\ o \in Nat /\ p \in 0..7 /\ 8 * o + p = At(e)
      /\ i \in Nat /\ i < Bitlen(Type(e))
  BY ElementPlace, ElementType DEF PlacedAt, ValueBits, Type
<1>2. x \in DOMAIN image /\ x \in Nat
  BY <1>1, ReferenceOwn, InImage DEF ImageType
<1>3. CASE IsBits(Type(e))
  <2>1. Written(e) = WriteBits(image, o, p, Bitlen(Type(e)), signal[e])
    BY <1>3 DEF Written, Type
  <2>2. x = At(e) + i
    BY <1>3 DEF Reference, Type
  <2>3. p + Bitlen(Type(e)) <= 8
    <3>1. (At(e) % 8) + Bitlen(Type(e)) <= 8
      BY <1>3 DEF InOneByte, Type
    <3>2. At(e) % 8 = p
      BY <1>1, BitOfByte
    <3> QED
      BY <3>1, <3>2
  <2> HIDE DEF x, o, p
  <2>4. /\ x - 8 * o \in 0..7 /\ x - 8 * o \in p..(p + Bitlen(Type(e)) - 1)
        /\ (x - 8 * o) - p = i
    BY <1>1, <2>2, <2>3
  <2>5. Written(e)[x] = signal[e][(x - 8 * o) - p]
    BY <1>2, <2>1, <2>4 DEF WriteBits
  <2> QED
    BY <2>4, <2>5 DEF x
<1>4. CASE ~IsBits(Type(e))
  <2> DEFINE n == Bytes(Type(e))
             big == layout[e.entry].bigendian
             moves == WriteBytes(n, big)
             b == i \div 8
             place == IF big THEN n - 1 - b ELSE b
  <2>1. Written(e) = MoveBytes(image, o, moves, signal[e], 0)
    BY <1>4 DEF Written, Type
  <2>2. n \in 1..8 /\ Bitlen(Type(e)) = 8 * n /\ p = 0 /\ big \in BOOLEAN
    BY <1>1, <1>4, TypeWidths DEF PlacedAt
  <2>3. n \in {1, 2, 4, 8}
    <3>1. Container(n) = n
      BY <1>4 DEF SameWidth, Type
    <3> HIDE DEF n
    <3> QED
      BY <2>2, <3>1 DEF Container
  <2>4. /\ DOMAIN moves = 0..(n - 1)
        /\ \A c \in 0..(n - 1) : moves[c] = IF big THEN n - 1 - c ELSE c
    BY <2>2, <2>3, StoresWhole
  <2>5. x = At(e) + (i % 8) + 8 * place
    BY <1>4 DEF Reference, Type
  <2>6. b \in 0..(n - 1) /\ i % 8 \in 0..7 /\ 8 * b + (i % 8) = i
    <3>1. b \in Nat /\ i % 8 \in 0..7 /\ 8 * b + (i % 8) = i
      BY <1>1, BitInByte
    <3> HIDE DEF b, n
    <3> QED
      BY <1>1, <2>2, <3>1
  <2> HIDE DEF n, o, p, moves, b, x, big
  <2>7. place \in 0..(n - 1)
    BY <2>2, <2>6
  <2>8. (IF big THEN n - 1 - place ELSE place) = b
    BY <2>2, <2>6
  <2>9. moves[place] = b
    BY <2>4, <2>7, <2>8
  <2> HIDE DEF place
  <2>10. (x \div 8) - o = place /\ x % 8 = i % 8
    <3>1. place \in Nat /\ At(e) = 8 * o
      BY <1>1, <2>2, <2>7
    <3>2. x = 8 * o + (i % 8) + 8 * place
      BY <2>5, <3>1
    <3> DEFINE r == i % 8
    <3>3. /\ o \in Nat /\ place \in Nat /\ r \in 0..7
          /\ x = 8 * o + r + 8 * place
      BY <1>1, <2>6, <3>1, <3>2
    <3> HIDE DEF r
    <3>4. x \in Nat
      BY <1>2
    <3>5. (x \div 8) - o = place /\ x % 8 = r
      BY <3>3, <3>4, ByteOfBit
    <3> QED
      BY <3>5 DEF r
  <2>11. b # NoByte
    BY <2>6 DEF NoByte
  <2>12. Written(e)[x] = signal[e][8 * (0 + b) + (x % 8)]
    <3>1. Written(e)[x] = LET c == (x \div 8) - o
                          IN  IF c \notin DOMAIN moves THEN image[x]
                              ELSE IF moves[c] = NoByte THEN Zero
                              ELSE signal[e][8 * (0 + moves[c]) + (x % 8)]
      BY <1>2, <2>1 DEF MoveBytes
    <3> QED
      BY <2>4, <2>7, <2>9, <2>10, <2>11, <3>1
  <2>13. 8 * (0 + b) + (x % 8) = i
    BY <2>6, <2>10
  <2> QED
    BY <2>12, <2>13 DEF x
<1> QED
  BY <1>3, <1>4

\* What a conversion makes of bit i of the signal of e.
Received(e, i) ==
  CASE i \in ValueBits(e) -> image[Reference(e, i)]
    [] i >= SignalBits(e) -> signal[e][i]
    [] OTHER              -> Zero

(* A read takes every bit of the value from where the mapping has it, and  *)
(* clears the rest of the signal's C type.                                 *)
LEMMA ReadTakes ==
  ASSUME layout \in Layouts, ImageType, NEW e \in Elements,
         PlacedAt(pdo_map[e], e), InOneByte(e),
         DOMAIN signal[e] = 0..63, NEW i \in 0..63
  PROVE  /\ DOMAIN Read(e) = 0..63
         /\ Read(e)[i] = Received(e, i)
<1> DEFINE o == pdo_map[e].offset
           p == pdo_map[e].bit_pos
<1>1. /\ At(e) \in Nat /\ Bitlen(Type(e)) \in Nat /\ Type(e) \in DataTypes
      /\ layout[e.entry].bigendian \in BOOLEAN
      /\ o \in Nat /\ p \in 0..7 /\ 8 * o + p = At(e)
  BY ElementPlace, ElementType DEF PlacedAt, Type
<1>4. i \in ValueBits(e) <=> i < Bitlen(Type(e))
  <2>1. i \in ValueBits(e) <=> i \in 0..(Bitlen(Type(e)) - 1)
    BY DEF ValueBits, Type
  <2> QED
    BY <1>1, <2>1
<1>2. CASE IsBits(Type(e))
  <2> DEFINE n == Bitlen(Type(e))
  <2>1. Read(e) = ReadBits(signal[e], o, p, n, image)
    BY <1>2 DEF Read, Type
  <2>2. DOMAIN Read(e) = 0..63
    BY <2>1 DEF ReadBits
  <2>3. Read(e)[i] = CASE i \notin 0..7 -> signal[e][i]
                       [] i < n /\ i + p < 8 -> image[8 * o + p + i]
                       [] OTHER -> Zero
    <3> HIDE DEF n, o, p
    <3> QED
      BY <2>1, SMTT(30) DEF ReadBits
  <2>4. p + n <= 8 /\ n \in 1..7
    <3>1. (At(e) % 8) + Bitlen(Type(e)) <= 8
      BY <1>2 DEF InOneByte, Type
    <3>2. At(e) % 8 = p
      BY <1>1, BitOfByte
    <3> QED
      BY <1>1, <1>2, <3>1, <3>2, TypeWidths
  <2>5. SignalBits(e) = 8
    BY <1>2 DEF SignalBits, Type
  <2>6. Reference(e, i) = At(e) + i
    BY <1>2 DEF Reference, Type
  <2> HIDE DEF n, o, p
  <2>7. CASE i < n
    <3>1. i \in ValueBits(e) /\ ~(i >= SignalBits(e))
      BY <1>4, <2>4, <2>5, <2>7 DEF n
    <3>2. i \in 0..7 /\ i + p < 8 /\ 8 * o + p + i = At(e) + i
      BY <1>1, <2>4, <2>7
    <3>3. Read(e)[i] = image[At(e) + i]
      BY <2>3, <2>7, <3>2
    <3>4. Received(e, i) = image[Reference(e, i)]
      BY <3>1 DEF Received
    <3> QED
      BY <2>2, <2>6, <3>3, <3>4
  <2>8. CASE ~(i < n)
    <3>1. i \notin ValueBits(e)
      BY <1>4, <2>8 DEF n
    <3>2. CASE i < 8
      <4>1. Read(e)[i] = Zero
        BY <2>3, <2>8, <3>2
      <4>2. Received(e, i) = Zero
        BY <2>5, <3>1, <3>2 DEF Received
      <4> QED
        BY <2>2, <4>1, <4>2
    <3>3. CASE ~(i < 8)
      <4>1. Read(e)[i] = signal[e][i]
        BY <2>3, <2>4, <3>3
      <4>2. Received(e, i) = signal[e][i]
        BY <2>5, <3>1, <3>3 DEF Received
      <4> QED
        BY <2>2, <4>1, <4>2
    <3> QED
      BY <3>2, <3>3
  <2> QED
    BY <2>7, <2>8
<1>3. CASE ~IsBits(Type(e))
  <2> DEFINE n == Bytes(Type(e))
             big == layout[e.entry].bigendian
             moves == ReadBytes(n, big)
             b == i \div 8
             place == IF big THEN n - 1 - b ELSE b
  <2>1. Read(e) = MoveBytes(signal[e], 0, moves, image, o)
    BY <1>3 DEF Read, Type
  <2>2. DOMAIN Read(e) = 0..63
    BY <2>1 DEF MoveBytes
  <2>3. Read(e)[i] = LET c == b - 0
                     IN  IF c \notin DOMAIN moves THEN signal[e][i]
                         ELSE IF moves[c] = NoByte THEN Zero
                         ELSE image[8 * (o + moves[c]) + (i % 8)]
    BY <2>1 DEF MoveBytes
  <2>4. n \in 1..8 /\ Bitlen(Type(e)) = 8 * n /\ p = 0 /\ big \in BOOLEAN
    BY <1>1, <1>3, TypeWidths DEF PlacedAt
  <2>5. /\ DOMAIN moves = 0..(Container(n) - 1)
        /\ \A c \in 0..(Container(n) - 1) :
             moves[c] = IF c >= n THEN NoByte
                        ELSE IF big THEN n - 1 - c ELSE c
    BY <2>4, LoadsWhole
  <2>6. SignalBits(e) = 8 * Container(n)
    BY <1>3 DEF SignalBits, Type
  <2>7. Container(n) \in n..8
    BY <2>4, ContainerHolds
  <2>8. Reference(e, i) = At(e) + (i % 8) + 8 * place
    BY <1>3 DEF Reference, Type
  <2>9. b \in Nat /\ i % 8 \in 0..7 /\ 8 * b + (i % 8) = i
    BY BitInByte
  <2>10. b - 0 = b
    BY <2>9
  <2> HIDE DEF n, o, p, moves, b, big
  <2>11. CASE b < n
    <3>1. i \in ValueBits(e) /\ ~(i >= SignalBits(e))
      <4>1. Container(n) \in Nat /\ n <= Container(n) /\ n \in Nat
        BY <2>4, <2>7
      <4> QED
        BY <1>4, <2>4, <2>6, <2>9, <2>11, <4>1
    <3>2. b \in 0..(Container(n) - 1) /\ ~(b >= n)
      <4>1. Container(n) \in Nat /\ n <= Container(n) /\ n \in Nat
        BY <2>4, <2>7
      <4> QED
        BY <2>9, <2>11, <4>1
    <3>3. moves[b] = place
      BY <2>5, <3>2
    <3>4. place \in 0..(n - 1) /\ place # NoByte
      BY <2>4, <2>9, <2>11 DEF NoByte
    <3>5. Read(e)[i] = image[8 * (o + place) + (i % 8)]
      BY <2>3, <2>5, <2>10, <3>2, <3>3, <3>4
    <3>6. 8 * (o + place) + (i % 8) = Reference(e, i)
      <4>1. At(e) = 8 * o
        BY <1>1, <2>4
      <4>2. place \in Nat /\ o \in Nat /\ i % 8 \in Nat
        BY <1>1, <2>4, <2>9, <3>4
      <4> HIDE DEF place
      <4>3. 8 * (o + place) + (i % 8) = 8 * o + (i % 8) + 8 * place
        BY <4>2
      <4> QED
        BY <2>8, <4>1, <4>3
    <3>7. Received(e, i) = image[Reference(e, i)]
      BY <3>1 DEF Received
    <3> QED
      BY <2>2, <3>5, <3>6, <3>7
  <2>12. CASE ~(b < n)
    <3>1. i \notin ValueBits(e)
      BY <1>4, <2>4, <2>9, <2>12
    <3>2. CASE b < Container(n)
      <4>1. b \in 0..(Container(n) - 1) /\ b >= n
        BY <2>4, <2>7, <2>9, <2>12, <3>2
      <4>2. Read(e)[i] = Zero
        BY <2>3, <2>5, <2>10, <4>1
      <4>3. ~(i >= SignalBits(e))
        BY <2>6, <2>7, <2>4, <2>9, <3>2
      <4>4. Received(e, i) = Zero
        BY <3>1, <4>3 DEF Received
      <4> QED
        BY <2>2, <4>2, <4>4
    <3>3. CASE ~(b < Container(n))
      <4>1. b \notin 0..(Container(n) - 1)
        BY <2>4, <2>7, <2>9, <3>3
      <4>2. Read(e)[i] = signal[e][i]
        BY <2>3, <2>5, <2>10, <4>1
      <4>3. i >= SignalBits(e)
        BY <2>6, <2>7, <2>4, <2>9, <3>3
      <4>4. Received(e, i) = signal[e][i]
        BY <3>1, <4>3 DEF Received
      <4> QED
        BY <2>2, <4>2, <4>4
    <3> QED
      BY <3>2, <3>3
  <2> QED
    BY <2>11, <2>12
<1> QED
  BY <1>2, <1>3

-----------------------------------------------------------------------------
(* The inductive invariant.                                                *)

Shapes ==
  /\ layout \in Layouts /\ dir \in {"rx", "tx"}
  /\ pc \in {"register", "convert", "done", "failed"}
  /\ cur \in Elements
  /\ ImageType
  /\ DOMAIN signal = Elements
  /\ \A e \in Elements : DOMAIN signal[e] = 0..63

(* register_pdos() is behind the elements before cur, the conversion loop  *)
(* runs when it is behind all of them.                                     *)
Registered ==
  /\ DOMAIN pdo_map \subseteq Elements
  /\ pc = "register" => DOMAIN pdo_map = {e \in Elements : Before(e, cur)}
  /\ pc \in {"convert", "done"} => DOMAIN pdo_map = Elements
  /\ \A e \in DOMAIN pdo_map : PlacedAt(pdo_map[e], e)

IsDone(e) == pc = "done" \/ (pc = "convert" /\ Before(e, cur))

\* What a conversion takes from has not been written by one.
Sources ==
  /\ dir = "rx" => \A e \in Elements : \A i \in 0..63 : signal[e][i] = Bit(e, i)
  /\ dir = "tx" => \A b \in DOMAIN image : image[b] = Bit(NoElement, b)

\* Later conversions leave what the earlier ones have done.
Sent ==
  dir = "rx" /\ (\A e \in Elements : SameWidth(e)) =>
    \A e \in Elements : IsDone(e) /\ InOneByte(e) => SentValue(e)

Got ==
  dir = "tx" =>
    \A e \in Elements :
      IF IsDone(e) THEN InOneByte(e) => ReceivedValue(e)
      ELSE \A i \in 0..63 : signal[e][i] = Bit(e, i)

PInv == Shapes /\ Registered /\ Sources /\ Sent /\ Got /\ PaddingKept

LEMMA PInvImplies ==
  ASSUME PInv
  PROVE  Placed /\ InputsReceived /\ OutputsSent
<1>1. Placed
  BY DEF PInv, Registered, PlacedAt, Placed, Type
<1>2. InputsReceived
  <2>1. ASSUME pc = "done", dir = "tx", NEW e \in Elements, InOneByte(e)
        PROVE  ReceivedValue(e)
    <3>1. IsDone(e)
      BY <2>1 DEF IsDone
    <3> QED
      BY <2>1, <3>1 DEF PInv, Got
  <2> QED
    BY <2>1 DEF InputsReceived
<1>3. OutputsSent
  <2>1. ASSUME pc = "done", dir = "rx", \A f \in Elements : SameWidth(f),
               NEW e \in Elements, InOneByte(e)
        PROVE  SentValue(e)
    <3>1. IsDone(e)
      BY <2>1 DEF IsDone
    <3> QED
      BY <2>1, <3>1 DEF PInv, Sent
  <2> QED
    BY <2>1 DEF OutputsSent
<1> QED
  BY <1>1, <1>2, <1>3

LEMMA InitPInv ==
  ASSUME Init
  PROVE  PInv
<1>1. layout \in Layouts /\ pc = "register" /\ cur = First
      /\ pdo_map = <<>> /\ dir \in {"rx", "tx"}
  BY DEF Init
<1>2. Shapes
  BY <1>1, FirstElement DEF Init, Shapes, ImageType
<1>3. Registered
  <2>1. DOMAIN pdo_map = {}
    BY <1>1
  <2>2. {e \in Elements : Before(e, cur)} = {}
    BY <1>1, FirstElement
  <2> QED
    BY <1>1, <2>1, <2>2 DEF Registered
<1>4. \A e \in Elements : ~IsDone(e)
  BY <1>1 DEF IsDone
<1>5. Sources
  BY DEF Init, Sources
<1>6. Sent
  BY <1>4 DEF Sent
<1>7. Got
  BY <1>4 DEF Got, Init
<1>8. PaddingKept
  BY DEF Init, PaddingKept
<1> QED
  BY <1>2, <1>3, <1>5, <1>6, <1>7, <1>8 DEF PInv

(* What depends on the mapping alone stays with it.                        *)
LEMMA SameLayout ==
  ASSUME layout' = layout
  PROVE  /\ Elements' = Elements /\ First' = First /\ Last' = Last
         /\ \A e : /\ At(e)' = At(e) /\ Type(e)' = Type(e)
                   /\ InOneByte(e)' = InOneByte(e)
                   /\ SameWidth(e)' = SameWidth(e)
                   /\ SignalBits(e)' = SignalBits(e)
                   /\ ValueBits(e)' = ValueBits(e)
                   /\ OwnBits(e)' = OwnBits(e)
         /\ \A e, i : Reference(e, i)' = Reference(e, i)
         /\ \A p, e : PlacedAt(p, e)' = PlacedAt(p, e)
<1>1. Elements' = Elements
  BY DEF Elements
<1>2. First' = First /\ Last' = Last
  BY DEF First, Last
<1>3. \A e : At(e)' = At(e) /\ Type(e)' = Type(e)
  BY DEF At, Start, Type
<1>4. \A e : /\ InOneByte(e)' = InOneByte(e)
             /\ SameWidth(e)' = SameWidth(e)
             /\ SignalBits(e)' = SignalBits(e)
             /\ ValueBits(e)' = ValueBits(e)
  BY <1>3 DEF InOneByte, SameWidth, SignalBits, ValueBits
<1>5. \A e : OwnBits(e)' = OwnBits(e)
  BY <1>3, <1>4 DEF OwnBits
<1>6. \A e, i : Reference(e, i)' = Reference(e, i)
  BY <1>3 DEF Reference
<1>7. \A p, e : PlacedAt(p, e)' = PlacedAt(p, e)
  BY <1>3 DEF PlacedAt
<1> QED
  BY <1>1, <1>2, <1>3, <1>4, <1>5, <1>6, <1>7

LEMMA MergeOne ==
  ASSUME NEW c, NEW g, NEW f, DOMAIN f = {c}
  PROVE  /\ DOMAIN Merge(f, g) = DOMAIN g \cup {c}
         /\ Merge(f, g)[c] = f[c]
         /\ \A x \in DOMAIN g : x # c => Merge(f, g)[x] = g[x]
BY DEF Merge

LEMMA RegisterStep ==
  ASSUME PInv, RegisterPdo
  PROVE  PInv'
<1> DEFINE bitlen == Bitlen(layout[cur.entry].datatype)
           offset == Start(cur.entry) \div 8
           bit_pos == Start(cur.entry) % 8
           place == Place(offset, bit_pos, bitlen, cur.idx)
<1>1. /\ layout \in Layouts /\ cur \in Elements /\ pc = "register"
      /\ UNCHANGED <<layout, dir, image, signal>>
      /\ DOMAIN pdo_map = {e \in Elements : Before(e, cur)}
      /\ \A e \in DOMAIN pdo_map : PlacedAt(pdo_map[e], e)
  BY DEF PInv, Shapes, Registered, RegisterPdo
<1>2. /\ Elements' = Elements /\ First' = First
      /\ \A p, e : PlacedAt(p, e)' = PlacedAt(p, e)
  BY <1>1, SameLayout
<1>3. \/ pc' = "failed" /\ UNCHANGED <<cur, pdo_map>>
      \/ /\ ~(bitlen >= 8 /\ bit_pos # 0)
         /\ pdo_map' = Merge([e \in {cur} |-> place], pdo_map)
         /\ \/ cur = Last /\ pc' = "convert" /\ cur' = First
            \/ cur # Last /\ cur' = Following(cur) /\ UNCHANGED pc
  BY DEF RegisterPdo
<1>4. Shapes'
  <2>1. cur' \in Elements
    BY <1>1, <1>3, FirstElement, FollowingElement
  <2>2. pc' \in {"register", "convert", "done", "failed"}
    BY <1>1, <1>3
  <2> QED
    BY <1>1, <1>2, <2>1, <2>2 DEF PInv, Shapes, ImageType
<1>5. Registered'
  <2>1. CASE pc' = "failed" /\ UNCHANGED <<cur, pdo_map>>
    BY <1>1, <1>2, <2>1 DEF Registered
  <2>2. CASE /\ ~(bitlen >= 8 /\ bit_pos # 0)
             /\ pdo_map' = Merge([e \in {cur} |-> place], pdo_map)
             /\ \/ cur = Last /\ pc' = "convert" /\ cur' = First
                \/ cur # Last /\ cur' = Following(cur) /\ UNCHANGED pc
    <3>1. PlacedAt(place, cur)
      <4>1. IsBits(Type(cur)) \/ Start(cur.entry) % 8 = 0
        <5>1. Type(cur) \in DataTypes /\ bitlen = Bitlen(Type(cur))
              /\ cur.entry \in 1..Len(layout)
          BY <1>1, ElementType DEF Type
        <5>2. IsBits(Type(cur)) \/ bitlen >= 8
          <6> HIDE DEF bitlen
          <6> QED
            BY <5>1, TypeWidths
        <5> QED
          BY <2>2, <5>2
      <4> QED
        BY <1>1, <4>1, PlaceRight DEF Type
    <3> DEFINE one == [e \in {cur} |-> place]
    <3>a. DOMAIN one = {cur} /\ one[cur] = place
      <4> HIDE DEF place
      <4> QED
        OBVIOUS
    <3>b. pdo_map' = Merge(one, pdo_map)
      BY <2>2
    <3> HIDE DEF one
    <3>2. DOMAIN pdo_map' = DOMAIN pdo_map \cup {cur}
      BY <3>a, <3>b, MergeOne
    <3>3. \A e \in DOMAIN pdo_map' : PlacedAt(pdo_map'[e], e)
      <4> HIDE DEF place
      <4>1. \A e \in DOMAIN pdo_map \cup {cur} :
              pdo_map'[e] = IF e = cur THEN place ELSE pdo_map[e]
        <5>1. /\ Merge(one, pdo_map)[cur] = one[cur]
              /\ \A e \in DOMAIN pdo_map :
                   e # cur => Merge(one, pdo_map)[e] = pdo_map[e]
          <6>1. DOMAIN one = {cur}
            BY <3>a
          <6> HIDE DEF bitlen, offset, bit_pos
          <6>2. Merge(one, pdo_map)[cur] = one[cur]
            BY <6>1, MergeOne
          <6>3. ASSUME NEW e \in DOMAIN pdo_map, e # cur
                PROVE  Merge(one, pdo_map)[e] = pdo_map[e]
            BY <6>1, <6>3 DEF Merge
          <6> QED
            BY <6>2, <6>3
        <5> QED
          BY <3>a, <3>b, <5>1
      <4> QED
        BY <1>1, <3>1, <3>2, <4>1
    <3>4. DOMAIN pdo_map' \subseteq Elements
      BY <1>1, <3>2
    <3>5. pc' = "register" =>
            DOMAIN pdo_map' = {e \in Elements : Before(e, cur')}
      <4>1. CASE cur = Last
        BY <2>2, <4>1, <1>1
      <4>2. CASE cur # Last
        <5>1. /\ cur' = Following(cur)
              /\ {e \in Elements : Before(e, cur)} \cup {cur}
                   = {e \in Elements : Before(e, Following(cur))}
          BY <1>1, <2>2, <4>2, FollowingElement
        <5> QED
          BY <1>1, <3>2, <5>1
      <4> QED
        BY <4>1, <4>2
    <3>6. pc' \in {"convert", "done"} => DOMAIN pdo_map' = Elements
      BY <1>1, <2>2, <3>2, LastElement
    <3> HIDE DEF place, bitlen, bit_pos
    <3> QED
      BY <1>2, <3>3, <3>4, <3>5, <3>6 DEF Registered, Before
  <2> QED
    BY <1>3, <2>1, <2>2
<1>6. \A e \in Elements : ~IsDone(e) /\ ~IsDone(e)'
  <2>1. pc' = "convert" => cur' = First
    BY <1>1, <1>3
  <2>2. pc' # "done"
    BY <1>1, <1>3
  <2>3. pc' = "convert" => \A e \in Elements : ~Before(e, cur')
    BY <1>1, <2>1, FirstElement
  <2> QED
    BY <1>1, <2>2, <2>3 DEF IsDone, Before
<1>7. Sources'
  BY <1>1, <1>2 DEF PInv, Sources
<1>8. Sent'
  BY <1>2, <1>6 DEF Sent
<1>9. Got'
  BY <1>1, <1>2, <1>6 DEF PInv, Got
<1>10. PaddingKept'
  <2>1. \A e : OwnBits(e)' = OwnBits(e)
    BY <1>1, SameLayout
  <2> QED
    BY <1>1, <1>2, <2>1 DEF PInv, PaddingKept
<1> QED
  BY <1>4, <1>5, <1>7, <1>8, <1>9, <1>10 DEF PInv

LEMMA WrittenDomain ==
  ASSUME NEW e
  PROVE  DOMAIN Written(e) = DOMAIN image
BY DEF Written, WriteBits, MoveBytes

LEMMA NotSevenBytes ==
  ASSUME layout \in Layouts, NEW e \in Elements, SameWidth(e)
  PROVE  Bytes(Type(e)) # 7
<1>1. Type(e) \in DataTypes
  BY ElementType
<1>2. CASE IsBits(Type(e))
  <2>1. Bitlen(Type(e)) \in 1..7
    BY <1>1, <1>2, TypeWidths
  <2> HIDE DEF Type
  <2>2. Bytes(Type(e)) = Bitlen(Type(e)) \div 8
    BY DEF Bytes
  <2>3. Bitlen(Type(e)) \div 8 = 0
    BY <2>1
  <2> QED
    BY <2>2, <2>3
<1>3. CASE ~IsBits(Type(e))
  <2>1. Container(Bytes(Type(e))) = Bytes(Type(e))
    BY <1>3 DEF SameWidth, Type
  <2> QED
    BY <2>1 DEF Container
<1> QED
  BY <1>2, <1>3

LEMMA WideEnough ==
  ASSUME layout \in Layouts, NEW e \in Elements, NEW i \in ValueBits(e)
  PROVE  i \in 0..63
<1>1. Bitlen(Type(e)) \in 1..64
  <2>1. Type(e) \in DataTypes
    BY ElementType
  <2> QED
    BY <2>1, TypeWidths
<1>2. i \in 0..(Bitlen(Type(e)) - 1)
  BY DEF ValueBits, Type
<1> QED
  BY <1>1, <1>2

(* The conversion loop goes on by one element.                             *)
LEMMA OneMoreDone ==
  ASSUME PInv, Convert
  PROVE  /\ ~IsDone(cur)
         /\ \A e \in Elements : IsDone(e)' <=> e = cur \/ IsDone(e)
         /\ cur' \in Elements /\ pc' \in {"convert", "done"}
<1>1. layout \in Layouts /\ cur \in Elements /\ pc = "convert"
  BY DEF PInv, Shapes, Convert
<1>2. cur.entry \in Nat /\ cur.idx \in Nat
  BY <1>1, ElementType
<1>3. ~IsDone(cur)
  BY <1>1, <1>2 DEF IsDone, Before
<1>4. CASE cur = Last
  <2>1. pc' = "done" /\ UNCHANGED cur
    BY <1>4 DEF Convert
  <2>2. \A e \in Elements : e = cur \/ Before(e, cur)
    BY <1>1, <1>4, LastElement
  <2> QED
    BY <1>1, <1>3, <2>1, <2>2 DEF IsDone
<1>5. CASE cur # Last
  <2>1. cur' = Following(cur) /\ UNCHANGED pc
    BY <1>5 DEF Convert
  <2>2. /\ cur' \in Elements
        /\ \A f \in Elements : Before(f, cur') <=> f = cur \/ Before(f, cur)
    BY <1>1, <1>5, <2>1, FollowingElement
  <2>3. \A f : Before(f, cur)' <=> Before(f, cur')
    BY DEF Before
  <2> QED
    BY <1>1, <1>3, <2>1, <2>2, <2>3 DEF IsDone
<1> QED
  BY <1>4, <1>5

LEMMA WriteStep ==
  ASSUME PInv, Convert, dir = "rx", image' = Written(cur), UNCHANGED signal
  PROVE  PInv'
<1>1. /\ layout \in Layouts /\ cur \in Elements /\ ImageType
      /\ pc = "convert" /\ UNCHANGED <<layout, dir, pdo_map>>
      /\ DOMAIN pdo_map = Elements
      /\ \A e \in Elements : PlacedAt(pdo_map[e], e)
      /\ DOMAIN image = 0..(Bits - 1) /\ Bits \in Nat
  BY LayoutsAssumption DEF PInv, Shapes, Registered, Convert, ImageType
<1>2. /\ Elements' = Elements
      /\ \A p, e : PlacedAt(p, e)' = PlacedAt(p, e)
      /\ \A e : /\ InOneByte(e)' = InOneByte(e)
                /\ SameWidth(e)' = SameWidth(e)
                /\ ValueBits(e)' = ValueBits(e)
                /\ OwnBits(e)' = OwnBits(e)
      /\ \A e, i : Reference(e, i)' = Reference(e, i)
  BY <1>1, SameLayout
<1>3. /\ cur' \in Elements /\ pc' \in {"convert", "done"}
      /\ \A e \in Elements : IsDone(e)' <=> e = cur \/ IsDone(e)
  BY OneMoreDone
<1>4. DOMAIN image' = DOMAIN image
  BY WrittenDomain
<1>5. Shapes'
  BY <1>1, <1>2, <1>3, <1>4 DEF PInv, Shapes, ImageType
<1>6. Registered'
  BY <1>1, <1>2, <1>3 DEF Registered
<1>7. Sources'
  BY <1>1, <1>2 DEF PInv, Sources
<1>8. Sent'
  <2> SUFFICES ASSUME \A e \in Elements : SameWidth(e),
                      NEW e \in Elements, IsDone(e)', InOneByte(e),
                      NEW i \in ValueBits(e)
               PROVE  image'[Reference(e, i)] = Bit(e, i)
    BY <1>2 DEF Sent, SentValue
  <2>1. signal[e][i] = Bit(e, i)
    BY <1>1, WideEnough DEF PInv, Sources
  <2>2. CASE e = cur
    BY <1>1, <2>1, <2>2, WritePuts
  <2>3. CASE e # cur
    <3>1. image[Reference(e, i)] = Bit(e, i)
      BY <1>3, <2>3 DEF PInv, Sent, SentValue
    <3>2. /\ Reference(e, i) \in Nat /\ At(e) <= Reference(e, i)
          /\ Reference(e, i) < At(e) + Bitlen(Type(e))
      BY <1>1, ReferenceOwn
    <3>3. /\ At(e) \in Nat /\ At(cur) \in Nat
          /\ Bitlen(Type(e)) \in Nat /\ Bitlen(Type(cur)) \in Nat
          /\ At(e) + Bitlen(Type(e)) <= Bits
      BY <1>1, InImage, ElementType
    <3>4. Reference(e, i) \in DOMAIN image
      BY <1>1, <3>2, <3>3
    <3>5. Reference(e, i) \notin OwnBits(cur)
      <4>1. \/ At(e) + Bitlen(Type(e)) <= At(cur)
            \/ At(cur) + Bitlen(Type(cur)) <= At(e)
        BY <1>1, <2>3, Apart
      <4>2. ~(/\ At(cur) <= Reference(e, i)
              /\ Reference(e, i) < At(cur) + Bitlen(Type(cur)))
        BY <3>2, <3>3, <4>1
      <4> QED
        BY <1>1, <3>2, <4>2, OwnBitsAre
    <3>6. Bytes(Type(cur)) # 7
      BY <1>1, NotSevenBytes
    <3>7. Written(cur)[Reference(e, i)] = image[Reference(e, i)]
      BY <1>1, <3>4, <3>5, <3>6, WriteKeeps
    <3> QED
      BY <3>1, <3>7
  <2> QED
    BY <2>2, <2>3
<1>9. Got'
  BY <1>1 DEF Got
<1>10. PaddingKept'
  <2> SUFFICES ASSUME \A e \in Elements : Bytes(Type(e)) # 7,
                      NEW b \in DOMAIN image,
                      b \notin UNION {OwnBits(e) : e \in Elements}
               PROVE  image'[b] = Bit(NoElement, b)
    BY <1>1, <1>2, <1>4 DEF PaddingKept, Type
  <2>1. image[b] = Bit(NoElement, b)
    BY DEF PInv, PaddingKept, Type
  <2>2. b \notin OwnBits(cur)
    BY <1>1
  <2>3. Written(cur)[b] = image[b]
    BY <1>1, <2>2, WriteKeeps
  <2> QED
    BY <2>1, <2>3
<1> QED
  BY <1>5, <1>6, <1>7, <1>8, <1>9, <1>10 DEF PInv

LEMMA ReadStep ==
  ASSUME PInv, Convert, dir = "tx",
         signal' = [signal EXCEPT ![cur] = Read(cur)], UNCHANGED image
  PROVE  PInv'
<1>1. /\ layout \in Layouts /\ cur \in Elements /\ ImageType
      /\ pc = "convert" /\ UNCHANGED <<layout, dir, pdo_map>>
      /\ DOMAIN pdo_map = Elements /\ DOMAIN signal = Elements
      /\ \A e \in Elements : DOMAIN signal[e] = 0..63
      /\ \A e \in Elements : PlacedAt(pdo_map[e], e)
      /\ DOMAIN image = 0..(Bits - 1) /\ Bits \in Nat
  BY LayoutsAssumption DEF PInv, Shapes, Registered, Convert, ImageType
<1>2. /\ Elements' = Elements
      /\ \A p, e : PlacedAt(p, e)' = PlacedAt(p, e)
      /\ \A e : /\ InOneByte(e)' = InOneByte(e)
                /\ SignalBits(e)' = SignalBits(e)
                /\ ValueBits(e)' = ValueBits(e)
                /\ OwnBits(e)' = OwnBits(e)
                /\ Type(e)' = Type(e)
      /\ \A e, i : Reference(e, i)' = Reference(e, i)
  BY <1>1, SameLayout
<1>3. /\ cur' \in Elements /\ pc' \in {"convert", "done"} /\ ~IsDone(cur)
      /\ \A e \in Elements : IsDone(e)' <=> e = cur \/ IsDone(e)
  BY OneMoreDone
<1>4. /\ DOMAIN signal' = Elements
      /\ \A e \in Elements :
           signal'[e] = IF e = cur THEN Read(cur) ELSE signal[e]
  BY <1>1
<1>5. DOMAIN Read(cur) = 0..63
  BY <1>1 DEF Read, ReadBits, MoveBytes
<1>6. Shapes'
  BY <1>1, <1>2, <1>3, <1>4, <1>5 DEF PInv, Shapes, ImageType
<1>7. Registered'
  BY <1>1, <1>2, <1>3 DEF Registered
<1>8. Sources'
  BY <1>1, <1>2 DEF PInv, Sources
<1>9. Sent'
  BY <1>1 DEF Sent
<1>10. Got'
  <2> SUFFICES ASSUME NEW e \in Elements
               PROVE  IF IsDone(e)' THEN InOneByte(e) => ReceivedValue(e)'
                      ELSE \A i \in 0..63 : signal'[e][i] = Bit(e, i)
    BY <1>2 DEF Got
  <2>1. CASE e = cur
    <3>1. IsDone(e)'
      BY <1>3, <2>1
    <3>2. ASSUME InOneByte(e), NEW i \in 0..63
          PROVE  signal'[e][i] = CASE i \in ValueBits(e) ->
                                        Bit(NoElement, Reference(e, i))
                                   [] i >= SignalBits(e) -> Bit(e, i)
                                   [] OTHER -> Zero
      <4>1. signal'[e][i] = Received(e, i)
        BY <1>1, <1>4, <2>1, <3>2, ReadTakes
      <4>2. signal[e][i] = Bit(e, i)
        BY <1>1, <1>3, <2>1 DEF PInv, Got
      <4>3. i \in ValueBits(e) =>
              image[Reference(e, i)] = Bit(NoElement, Reference(e, i))
        <5>1. ASSUME i \in ValueBits(e) PROVE Reference(e, i) \in DOMAIN image
          <6>1. /\ Reference(e, i) \in Nat
                /\ Reference(e, i) < At(e) + Bitlen(Type(e))
            BY <1>1, <5>1, ReferenceOwn
          <6>2. /\ At(e) \in Nat /\ Bitlen(Type(e)) \in Nat
                /\ At(e) + Bitlen(Type(e)) <= Bits
            BY <1>1, InImage, ElementType
          <6> QED
            BY <1>1, <6>1, <6>2
        <5> QED
          BY <1>1, <5>1 DEF PInv, Sources
      <4> QED
        BY <4>1, <4>2, <4>3, Zenon DEF Received
    <3>3. InOneByte(e) => ReceivedValue(e)'
      BY <1>2, <3>2 DEF ReceivedValue
    <3> QED
      BY <3>1, <3>3
  <2>2. CASE e # cur
    <3>1. signal'[e] = signal[e] /\ (IsDone(e)' <=> IsDone(e))
      BY <1>3, <1>4, <2>2
    <3>2. IF IsDone(e) THEN InOneByte(e) => ReceivedValue(e)
          ELSE \A i \in 0..63 : signal[e][i] = Bit(e, i)
      BY <1>1 DEF PInv, Got
    <3>3. ReceivedValue(e)' <=> ReceivedValue(e)
      BY <1>2, <3>1 DEF ReceivedValue
    <3> QED
      BY <3>1, <3>2, <3>3
  <2> QED
    BY <2>1, <2>2
<1>11. PaddingKept'
  BY <1>1, <1>2 DEF PInv, PaddingKept, Type
<1> QED
  BY <1>6, <1>7, <1>8, <1>9, <1>10, <1>11 DEF PInv

LEMMA SameState ==
  ASSUME PInv, UNCHANGED vars
  PROVE  PInv'
<1>1. UNCHANGED <<layout, dir, pc, cur, pdo_map, image, signal>>
  BY DEF vars
<1>2. /\ Elements' = Elements /\ First' = First
      /\ \A e : /\ At(e)' = At(e) /\ Type(e)' = Type(e)
                /\ InOneByte(e)' = InOneByte(e)
                /\ SameWidth(e)' = SameWidth(e)
                /\ SignalBits(e)' = SignalBits(e)
                /\ ValueBits(e)' = ValueBits(e)
                /\ OwnBits(e)' = OwnBits(e)
      /\ \A e, i : Reference(e, i)' = Reference(e, i)
      /\ \A p, e : PlacedAt(p, e)' = PlacedAt(p, e)
  BY <1>1, SameLayout
<1>3. Shapes'
  BY <1>1, <1>2 DEF PInv, Shapes, ImageType
<1>4. Registered'
  BY <1>1, <1>2 DEF PInv, Registered, Before
<1>5. Sources'
  BY <1>1, <1>2 DEF PInv, Sources
<1>6. \A e : IsDone(e)' = IsDone(e)
  BY <1>1 DEF IsDone, Before
<1>7. \A e : (SentValue(e)' <=> SentValue(e)) /\ (ReceivedValue(e)' <=> ReceivedValue(e))
  BY <1>1, <1>2 DEF SentValue, ReceivedValue
<1>8. Sent'
  BY <1>1, <1>2, <1>6, <1>7 DEF PInv, Sent
<1>9. Got'
  BY <1>1, <1>2, <1>6, <1>7 DEF PInv, Got
<1>10. PaddingKept'
  BY <1>1, <1>2 DEF PInv, PaddingKept, Type
<1> QED
  BY <1>3, <1>4, <1>5, <1>8, <1>9, <1>10 DEF PInv

(* register_pdos() and the conversions, at every moment of their loops:    *)
(* what is registered is in place, and what is converted has its bits.     *)
THEOREM PInvariance == Spec => []PInv
<1>1. Init => PInv
  BY InitPInv
<1>2. PInv /\ [Next]_vars => PInv'
  <2> SUFFICES ASSUME PInv, [Next]_vars PROVE PInv'
    OBVIOUS
  <2>1. CASE RegisterPdo
    BY <2>1, RegisterStep
  <2>2. CASE Convert
    <3>1. dir = "rx" /\ image' = Written(cur) /\ UNCHANGED signal => PInv'
      BY <2>2, WriteStep
    <3>2. /\ dir = "tx"
          /\ signal' = [signal EXCEPT ![cur] = Read(cur)]
          /\ UNCHANGED image
          => PInv'
      BY <2>2, ReadStep
    <3> QED
      BY <2>2, <3>1, <3>2 DEF Convert
  <2>3. CASE Finished
    BY <2>3, SameState DEF Finished
  <2>4. CASE UNCHANGED vars
    BY <2>4, SameState
  <2> QED
    BY <2>1, <2>2, <2>3, <2>4 DEF Next
<1> QED
  BY <1>1, <1>2, PTL DEF Spec

(* register_pdos() places every element of every mapping where the mapping *)
(* has it, whatever padding, width and number of elements its entries have. *)
THEOREM PlacedAlways == Spec => []Placed
<1>1. PInv => Placed
  BY PInvImplies
<1> QED
  BY <1>1, PInvariance, PTL

(* ecs_receive() gives every signal the value its slave sent, of every data *)
(* type in either byte order, and writes nothing behind its C type.        *)
THEOREM InputsReceivedAlways == Spec => []InputsReceived
<1>1. PInv => InputsReceived
  BY PInvImplies
<1> QED
  BY <1>1, PInvariance, PTL

(* ecs_send() leaves every value in the image where its slave reads it: no *)
(* conversion overwrites what another one has written.                     *)
THEOREM OutputsSentAlways == Spec => []OutputsSent
<1>1. PInv => OutputsSent
  BY PInvImplies
<1> QED
  BY <1>1, PInvariance, PTL

(* Without an entry of 56 bits no conversion changes a bit of the image    *)
(* that no entry of the mapping has.                                       *)
THEOREM PaddingKeptAlways == Spec => []PaddingKept
<1>1. PInv => PaddingKept
  BY DEF PInv
<1> QED
  BY <1>1, PInvariance, PTL
=============================================================================
