----------------------------- MODULE MCDecoder -----------------------------
(***************************************************************************)
(* Layouts for TLC: structs as the examples have them, and others a C      *)
(* compiler lays out.                                                      *)
(***************************************************************************)
EXTENDS Decoder

Type(kind, size) == [kind |-> kind, size |-> size, name |-> ""]
Typedef(name, kind, size) == [kind |-> kind, size |-> size, name |-> name]

\* A packed struct of the types ts.
Packed(ts) ==
  LET total == FoldLeft(LAMBDA n, t : n + t.size, 0, ts)
      before(i) == FoldLeft(LAMBDA n, t : n + t.size, 0, SubSeq(ts, 1, i - 1))
  IN [struct |-> TRUE, size |-> total,
      members |-> [i \in 1..Len(ts) |-> [type |-> ts[i], offset |-> before(i)]]]

OfScalar(t) == [struct |-> FALSE, size |-> t.size, members |-> <<[type |-> t, offset |-> 0]>>]

\* struct { u8; u16; }, aligned by the compiler.
Padded ==
  [struct |-> TRUE, size |-> 4,
   members |-> <<[type |-> Type("uint", 1), offset |-> 0], [type |-> Type("uint", 2), offset |-> 2]>>]

\* struct { u8 a : 4; u8 b : 4; }: two members in one byte.
BitFields ==
  [struct |-> TRUE, size |-> 1,
   members |-> <<[type |-> Type("uint", 1), offset |-> 0], [type |-> Type("uint", 1), offset |-> 0]>>]

DenseLayouts ==
  { Packed(<<Type("string", 3), Type("uint", 1), Type("int", 2)>>),
    Packed(<<Typedef("ipv4_addr", "uint", 4), Type("int", 1)>>),
    Packed(<<Typedef("duration", "uint", 8)>>),
    Packed(<<Type("int", 1), Type("float", 4), Type("uint", 2)>>),
    OfScalar(Type("uint", 8)),
    OfScalar(Typedef("alias", "uint", 2)) }

RefusedLayouts ==
  { Packed(<<Type("uint", 2), Type("other", 2)>>),
    Packed(<<Typedef("duration", "uint", 4)>>),
    Packed(<<Type("float", 2)>>),
    OfScalar(Type("string", 2)),
    OfScalar(Typedef("alias", "other", 2)) }

SkippedLayouts == { Packed(<<Type("uint", 1), Type("bool", 1), Type("char", 1), Type("int", 2)>>) }

AllLayouts == DenseLayouts \cup RefusedLayouts \cup SkippedLayouts \cup {Padded, BitFields}
PaddedLayout == {Padded}
=============================================================================
