----------------------------- MODULE MCPdoImage -----------------------------
(* Mappings of one or two entries.                                         *)
EXTENDS PdoImage

Entries(datatypes, gaps, ns, endians) ==
  [gap : gaps, datatype : datatypes, n : ns, bigendian : endians]

\* Every data type in both byte orders, alone, as one or two elements.
Single == {<<e>> : e \in Entries(DataTypes, {0, 3, 8}, 1..2, BOOLEAN)}

\* Entries of less than a byte, some across a byte boundary, and bytes
\* before and behind them.
Small == Entries({1001, 1003, 1007, 1008, 1016}, {0, 2}, {1, 3}, {FALSE})
            \cup Entries({1024, 1056, 3032}, {0}, {1}, BOOLEAN)
Double == {<<a, b>> : a, b \in Small}

LayoutsAll == Single \cup Double

\* Only the types whose signal is wider than the entry.
LayoutsOdd ==
  {<<e>> : e \in Entries({1024, 1040, 1048, 1056}, 0..8, 1..2, BOOLEAN)}
=============================================================================
