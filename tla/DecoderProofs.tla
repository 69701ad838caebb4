--------------------------- MODULE DecoderProofs ---------------------------
(***************************************************************************)
(* The decoder, proved for every set of layouts, either byte order and any *)
(* number of values of a byte.                                             *)
(*                                                                         *)
(* The offset is counted, never taken from BTF. The inductive invariant    *)
(* relates the two: at every member the counted offset is at most the BTF  *)
(* offset of a well-formed layout, and equal to it in a dense one (Inv).   *)
(* With it, every value decoded so far is what the handlers make of the    *)
(* bytes at the BTF offset of its member (InPlace).                        *)
(*                                                                         *)
(* What the handlers make of those bytes is what they mean: the lemmas     *)
(* from PowerIs to SignedRepresents say that the number that binary.Read   *)
(* makes has the bytes as its digits, by induction over the number of      *)
(* bytes (NumberLemmas), and DenseDecoded puts the two together.           *)
(***************************************************************************)
EXTENDS Decoder, NumberLemmas, TLAPS

\* What a layout is, NoLayout included.
IsLayout(l) ==
  /\ l.size \in Nat
  /\ l.members \in Seq([type : Types, offset : Nat])

\* The call in progress has a layout, as many bytes as the layout says, and
\* no more values than members.
Shape ==
  /\ IsLayout(typ)
  /\ Len(raw) = typ.size
  /\ offset \in Nat
  /\ \E S : result \in Seq(S)
  /\ Len(result) <= Len(Members)

\* The counted offset has not passed the BTF offset of the next member.
Behind ==
  status = "running" /\ WellFormed(typ) /\ Running =>
    offset <= Members[Len(result) + 1].offset

Inv == Shape /\ Behind /\ OffsetIsLayout /\ PanicsUnterminatedOnly

\* A value more is one step towards the end of the members: result[member.Name]
\* = val in DecodeBtfBinary's loop.
LEMMA AppendGrows ==
  ASSUME NEW s, NEW e, \E S : s \in Seq(S)
  PROVE  /\ \E S : Append(s, e) \in Seq(S)
         /\ Len(Append(s, e)) = Len(s) + 1
         /\ Len(s) \in Nat
<1>1. PICK S : s \in Seq(S)
  OBVIOUS
<1>2. s \in Seq(S \cup {e})
  BY <1>1
<1>3. Append(s, e) \in Seq(S \cup {e})
  BY <1>2
<1> QED
  BY <1>1, <1>2, <1>3

\* A layout of the program's maps is a layout.
LEMMA LayoutsAreLayouts ==
  ASSUME NEW l \in Layouts
  PROVE  IsLayout(l)
BY LayoutsAssumption DEF IsLayout

\* A member's offset and size are numbers.
LEMMA MembersAreTyped ==
  ASSUME NEW l, IsLayout(l), NEW i \in 1..Len(l.members)
  PROVE  l.members[i].offset \in Nat /\ l.members[i].type.size \in Nat
<1> DEFINE R == [type : Types, offset : Nat]
<1>1. l.members \in Seq(R)
  BY DEF IsLayout
<1>2. l.members[i] \in R
  <2> HIDE DEF R
  <2> QED
    BY <1>1
<1>3. l.members[i].offset \in Nat /\ l.members[i].type \in Types
  BY <1>2
<1> QED
  BY <1>3 DEF Types

\* A call starts the decoder over: Inv holds at the first member.
LEMMA CallKeepsInv ==
  ASSUME Inv, NEW l \in Layouts, NEW r \in [1..l.size -> 0..(Base - 1)], Call(l, r)
  PROVE  Inv'
<1>1. IsLayout(l) /\ typ' = l /\ offset' = 0 /\ result' = << >> /\ raw' = r
  BY LayoutsAreLayouts DEF Call, Reset
<1>2. Len(r) = l.size
  BY <1>1 DEF IsLayout
<1>3. << >> \in Seq({}) /\ Len(<< >>) = 0
  OBVIOUS
<1>4. Shape'
  BY <1>1, <1>2, <1>3 DEF Shape, Members, IsLayout
<1>5. status' # "panic"
  BY DEF Call
<1>6. Running' => l.members[1].offset \in Nat
  <2>1. Len(l.members) \in Nat
    BY <1>1 DEF IsLayout
  <2> QED
    BY <1>1, <1>3, <2>1, MembersAreTyped DEF Running, Members
<1>7. Behind'
  BY <1>1, <1>3, <1>6 DEF Behind, Members
<1>8. OffsetIsLayout'
  BY <1>1, <1>3 DEF OffsetIsLayout, Dense, Members, Running
<1> QED
  BY <1>4, <1>5, <1>7, <1>8 DEF Inv, PanicsUnterminatedOnly

\* A member read or skipped: the counted offset grows by n bytes, the size of
\* the member's type or nothing at all.
LEMMA YieldKeepsInv ==
  ASSUME Inv, Running, NEW v, Yield(v), UNCHANGED <<endianess, typ, raw>>,
         NEW n \in Nat, offset' = offset + n, n <= Member.size,
         Member.kind \notin {"bool", "char"} => n = Member.size
  PROVE  Inv'
<1> DEFINE k == Len(result)
<1>1. k \in Nat /\ k + 1 \in 1..Len(Members) /\ IsLayout(typ) /\ offset \in Nat
  BY AppendGrows DEF Inv, Shape, Running, Members, IsLayout
<1>2. /\ Members[k + 1].offset \in Nat
      /\ Member = Members[k + 1].type
      /\ Member.size \in Nat
  BY <1>1, MembersAreTyped DEF Members, Member
<1>3. CASE status' = "error"
  <2>1. result' = result
    BY <1>3 DEF Yield
  <2>2. Shape'
    BY <1>1, <2>1 DEF Inv, Shape, Members, IsLayout
  <2> QED
    BY <1>3, <2>2 DEF Inv, Behind, OffsetIsLayout, PanicsUnterminatedOnly
<1>4. CASE status' = "running"
  <2>1. PICK e : result' = Append(result, e)
    BY <1>4 DEF Yield
  <2>2. Len(result') = k + 1 /\ \E S : result' \in Seq(S)
    BY <2>1, AppendGrows DEF Inv, Shape
  <2>3. Shape'
    BY <1>1, <2>2 DEF Inv, Shape, Members, IsLayout
  <2>4. ASSUME WellFormed(typ), k + 2 <= Len(Members)
        PROVE  offset' <= Members[k + 2].offset
    <3>1. offset <= Members[k + 1].offset
      BY <2>4 DEF Inv, Behind, Running
    <3>2. End(typ, k + 1) <= Members[k + 2].offset
      BY <1>1, <2>4 DEF WellFormed, Members, IsLayout
    <3>3. End(typ, k + 1) = Members[k + 1].offset + Member.size
      BY <1>2 DEF End, Members
    <3>4. Members[k + 2].offset \in Nat
      <4>1. k + 2 \in 1..Len(Members)
        BY <1>1, <2>4 DEF Members, IsLayout
      <4> QED
        BY <1>1, <4>1, MembersAreTyped DEF Members
    <3> QED
      BY <1>1, <1>2, <3>1, <3>2, <3>3, <3>4
  <2>5. Behind'
    BY <1>1, <2>2, <2>4 DEF Behind, Members, Running, WellFormed, End, IsLayout
  <2>6. ASSUME Dense(typ)
        PROVE  /\ offset' = End(typ, k + 1)
               /\ k + 2 <= Len(Members) => offset' = Members[k + 2].offset
    <3>1. offset = Members[k + 1].offset
      BY <2>6 DEF Inv, OffsetIsLayout, Running
    <3>2. Member.kind \notin {"bool", "char"}
      BY <1>1, <1>2, <2>6 DEF Dense, Members
    <3>3. offset' = End(typ, k + 1)
      BY <1>2, <3>1, <3>2 DEF End, Members
    <3>4. k + 2 <= Len(Members) => Members[k + 2].offset = End(typ, k + 1)
      BY <1>1, <2>6 DEF Dense, Members, IsLayout
    <3> QED
      BY <3>3, <3>4
  <2>7. OffsetIsLayout'
    BY <1>1, <2>2, <2>6 DEF OffsetIsLayout, Members, Running, Dense, End, IsLayout
  <2> QED
    BY <1>4, <2>3, <2>5, <2>7 DEF Inv, PanicsUnterminatedOnly
<1> QED
  BY <1>3, <1>4 DEF Yield

\* Where a panic can come from: a slice of the buffer at a member of a
\* well-formed layout is in range.
LEMMA SliceInRange ==
  ASSUME Inv, Running, WellFormed(typ)
  PROVE  InRange
<1> DEFINE k == Len(result)
<1>1. k \in Nat /\ k + 1 \in 1..Len(Members) /\ IsLayout(typ) /\ offset \in Nat
  BY AppendGrows DEF Inv, Shape, Running, Members, IsLayout
<1>2. /\ Members[k + 1].offset \in Nat
      /\ Member = Members[k + 1].type
      /\ Member.size \in Nat
  BY <1>1, MembersAreTyped DEF Members, Member
<1>3. offset <= Members[k + 1].offset
  BY DEF Inv, Behind, Running
<1>4. End(typ, k + 1) <= typ.size
  BY <1>1 DEF WellFormed, Members
<1>5. End(typ, k + 1) = Members[k + 1].offset + Member.size
  BY <1>2 DEF End, Members
<1>6. Len(raw) = typ.size /\ typ.size \in Nat
  BY DEF Inv, Shape, IsLayout
<1> QED
  BY <1>1, <1>2, <1>3, <1>4, <1>5, <1>6 DEF InRange

\* Init establishes the invariant and every step of DecodeBtfBinary keeps it.
THEOREM Invariance == Spec => []Inv
<1>1. Init => Inv
  <2> SUFFICES ASSUME Init PROVE Inv
    OBVIOUS
  <2>1. << >> \in Seq({}) /\ Len(<< >>) = 0
    OBVIOUS
  <2>2. << >> \in Seq([type : Types, offset : Nat])
    OBVIOUS
  <2>3. Shape
    BY <2>1, <2>2 DEF Init, Shape, IsLayout, NoLayout, Members
  <2> QED
    BY <2>3 DEF Init, Inv, Behind, OffsetIsLayout, PanicsUnterminatedOnly
<1>2. Inv /\ [Next]_vars => Inv'
  <2> SUFFICES ASSUME Inv, [Next]_vars PROVE Inv'
    OBVIOUS
  <2>1. CASE \E l \in Layouts : \E r \in [1..l.size -> 0..(Base - 1)] : Call(l, r)
    BY <2>1, CallKeepsInv
  <2>2. CASE SkipMember
    <3>1. offset \in Nat /\ offset' = offset + 0
      BY <2>2 DEF SkipMember, Inv, Shape
    <3>2. Len(result) + 1 \in 1..Len(Members) /\ IsLayout(typ)
      BY <2>2, AppendGrows DEF SkipMember, Inv, Shape, Running, Members, IsLayout
    <3>3. Member.size \in Nat
      BY <3>2, MembersAreTyped DEF Members, Member
    <3> QED
      BY <2>2, <3>1, <3>3, YieldKeepsInv DEF SkipMember
  <2>3. CASE ReadMember
    <3>1. Len(result) + 1 \in 1..Len(Members) /\ IsLayout(typ)
      BY <2>3, AppendGrows DEF ReadMember, Inv, Shape, Running, Members, IsLayout
    <3>2. Member.size \in Nat
      BY <3>1, MembersAreTyped DEF Members, Member
    <3> QED
      BY <2>3, <3>2, YieldKeepsInv DEF ReadMember, Advance
  <2>4. CASE ReadPanics
    <3>1. status' = "panic" /\ UNCHANGED <<endianess, typ, raw, offset, result>>
      BY <2>4 DEF ReadPanics
    <3>2. WellFormed(typ) => Member.kind = "string" /\ ~Terminated
      BY <2>4, SliceInRange DEF ReadPanics
    <3> QED
      BY <3>1, <3>2 DEF Inv, Shape, Behind, OffsetIsLayout, PanicsUnterminatedOnly,
        WellFormed, End, Members, Member, Terminated, Slice, IsLayout
  <2>5. CASE RefuseMember
    BY <2>5 DEF RefuseMember, Inv, Shape, Behind, OffsetIsLayout,
      PanicsUnterminatedOnly, Members, IsLayout
  <2>6. CASE Return
    BY <2>6 DEF Return, Inv, Shape, Behind, OffsetIsLayout,
      PanicsUnterminatedOnly, Members, IsLayout
  <2>7. CASE UNCHANGED vars
    BY <2>7 DEF vars, Inv, Shape, Behind, OffsetIsLayout, PanicsUnterminatedOnly, Running,
      WellFormed, Dense, End, Members, Member, Terminated, Slice, IsLayout
  <2> QED
    BY <2>1, <2>2, <2>3, <2>4, <2>5, <2>6, <2>7 DEF Next
<1> QED
  BY <1>1, <1>2, PTL DEF Spec

\* DecodeBtfBinary never slices d.raw out of range while the members of the
\* type do not overlap: what it panics for is a char array without a NUL.
THEOREM PanicsUnterminated == Spec => []PanicsUnterminatedOnly
BY Invariance, PTL DEF Inv

\* In a layout without padding, and without a bool or a char, the offset
\* DecodeBtfBinary counts is the one of BTF at every member.
THEOREM OffsetsAgree == Spec => []OffsetIsLayout
BY Invariance, PTL DEF Inv

-----------------------------------------------------------------------------
(* Types.                                                                  *)

Ranges ==
  /\ endianess \in {"little", "big"}
  /\ typ \in Layouts \cup {NoLayout}
  /\ raw \in Seq(0..(Base - 1))
  /\ status \in {"idle", "running", "ok", "error", "panic"}

\* Every step keeps the ranges: the kernel's bytes are what a call brings.
LEMMA RangesStep == Ranges /\ [Next]_vars => Ranges'
<1> SUFFICES ASSUME Ranges, [Next]_vars PROVE Ranges'
  OBVIOUS
<1>1. ASSUME NEW l \in Layouts, NEW r \in [1..l.size -> 0..(Base - 1)], Call(l, r) PROVE Ranges'
  <2>1. l.size \in Nat
    BY LayoutsAssumption
  <2>2. ASSUME NEW S, r \in [1..l.size -> S] PROVE r \in Seq(S)
    BY <2>1, <2>2
  <2> QED
    BY <1>1, <2>2 DEF Call, Ranges
<1>2. CASE SkipMember \/ ReadMember
  BY <1>2 DEF SkipMember, ReadMember, Yield, Ranges
<1>3. CASE ReadPanics \/ RefuseMember \/ Return \/ UNCHANGED vars
  BY <1>3 DEF ReadPanics, RefuseMember, Return, vars, Ranges
<1> QED
  BY <1>1, <1>2, <1>3 DEF Next

\* The ranges hold in every reachable state.
LEMMA RangesHold == Spec => []Ranges
<1>1. Init => Ranges
  BY DEF Init, Ranges
<1> QED
  BY <1>1, RangesStep, PTL DEF Spec

\* The range of every variable: DecodeBtfBinary never stores more values than the
\* type has members.
THEOREM TypeCorrect == Spec => []TypeOK
<1>1. Inv /\ Ranges => TypeOK
  <2> SUFFICES ASSUME Inv, Ranges PROVE TypeOK
    OBVIOUS
  <2>1. Len(result) \in Nat /\ Len(Members) \in Nat
    BY AppendGrows DEF Inv, Shape, Members, IsLayout
  <2> QED
    BY <2>1 DEF Inv, Shape, Ranges, TypeOK
<1> QED
  BY <1>1, RangesHold, Invariance, PTL

-----------------------------------------------------------------------------
(* Every value comes from the bytes of its own member.                     *)

\* What BTF says the bytes of a member are, and the value they give.
BytesOf(m) == SubSeq(raw, m.offset + 1, m.offset + m.type.size)
ValueOf(m) == Converted(m.type, Handled(m.type, BytesOf(m)))
HasNul(bs) == \E i \in 1..Len(bs) : bs[i] = 0

InPlace ==
  Dense(typ) =>
    \A i \in 1..Len(result) :
      LET m == Members[i] IN
      /\ result[i] = ValueOf(m) /\ result[i] # NoValue
      /\ m.offset + m.type.size <= Len(raw)
      /\ m.type.kind \notin {"bool", "char"}
      /\ m.type.kind = "string" => HasNul(BytesOf(m))

Complete == status = "ok" => Len(result) = Len(Members)

\* A build has one byte order, so the same bytes always give the same value.
LEMMA SameBytesSameValue ==
  ASSUME NEW m, UNCHANGED <<endianess, raw>>
  PROVE  BytesOf(m)' = BytesOf(m) /\ ValueOf(m)' = ValueOf(m)
<1>1. ASSUME NEW t, NEW bs PROVE Handled(t, bs)' = Handled(t, bs)
  BY DEF Handled, UintOf, Ordered
<1>2. ASSUME NEW t, NEW v PROVE Converted(t, v)' = Converted(t, v)
  BY DEF Converted, PutUint32, Ordered
<1>3. PICK bs : bs = BytesOf(m)
  OBVIOUS
<1>4. BytesOf(m)' = bs
  BY <1>3 DEF BytesOf
<1>5. PICK v : v = Handled(m.type, bs)
  OBVIOUS
<1>6. ValueOf(m) = Converted(m.type, v)
  BY <1>3, <1>5 DEF ValueOf
<1>7. ValueOf(m)' = Converted(m.type, v)'
  BY <1>1, <1>4, <1>5 DEF ValueOf
<1> QED
  BY <1>2, <1>3, <1>4, <1>6, <1>7

\* Every step keeps the values in place: the counted offset is the one of BTF.
LEMMA InPlaceStep == Inv /\ InPlace /\ Complete /\ [Next]_vars => InPlace' /\ Complete'
<1> SUFFICES ASSUME Inv, InPlace, Complete, [Next]_vars PROVE InPlace' /\ Complete'
  OBVIOUS
<1>1. ASSUME NEW l \in Layouts, NEW r \in [1..l.size -> 0..(Base - 1)], Call(l, r)
      PROVE  InPlace' /\ Complete'
  <2>1. result' = << >> /\ status' # "ok"
    BY <1>1 DEF Call
  <2> QED
    BY <2>1 DEF InPlace, Complete
<1>2. ASSUME UNCHANGED <<endianess, typ, raw, result>> PROVE InPlace'
  <2>1. \A m : BytesOf(m)' = BytesOf(m) /\ ValueOf(m)' = ValueOf(m)
    BY <1>2, SameBytesSameValue
  <2> QED
    BY <1>2, <2>1 DEF InPlace, Dense, End, Members
<1>3. CASE ReadPanics \/ RefuseMember \/ Return
  BY <1>2, <1>3 DEF ReadPanics, RefuseMember, Return, Complete, Members
<1>4. CASE UNCHANGED vars
  BY <1>2, <1>4 DEF vars, Complete, Members
<1>5. CASE SkipMember \/ ReadMember
  <2>1. /\ Running /\ UNCHANGED <<endianess, typ, raw>>
        /\ status' # "ok"
    BY <1>5 DEF SkipMember, ReadMember, Yield
  <2>2. PICK k : k = Len(result) + 1
    OBVIOUS
  <2>3. /\ Len(result) \in Nat /\ k \in 1..Len(Members) /\ IsLayout(typ) /\ Member = Members[k].type
        /\ \E S : result \in Seq(S)
    BY <2>1, <2>2, AppendGrows DEF Inv, Shape, Running, Members, Member, IsLayout
  <2>4. SUFFICES ASSUME Dense(typ)' PROVE InPlace'
    BY <2>1 DEF InPlace, Complete
  <2>5. Dense(typ)
    BY <2>1, <2>4 DEF Dense, End
  <2>6. Member.kind \notin {"bool", "char"}
    BY <2>3, <2>5 DEF Dense, Members
  <2>7. ReadMember
    BY <1>5, <2>6 DEF SkipMember
  <2>8. offset = Members[k].offset
    BY <2>1, <2>2, <2>5 DEF Inv, OffsetIsLayout, Running
  <2>9. Slice = BytesOf(Members[k])
    BY <2>3, <2>8 DEF Slice, BytesOf
  <2>10. Member.kind = "string" => HasNul(BytesOf(Members[k]))
    BY <2>7, <2>9 DEF ReadMember, Terminated, HasNul
  <2>11. Yield(Handled(Member, Slice)) /\ Converted(Member, Handled(Member,
  Slice)) = ValueOf(Members[k])
    BY <2>3, <2>7, <2>9 DEF ReadMember, ValueOf
  <2>14. offset + Member.size <= Len(raw)
    BY <2>7 DEF ReadMember, InRange
  <2>12. CASE ValueOf(Members[k]) = NoValue
    BY <1>2, <2>1, <2>11, <2>12 DEF Yield
  <2>13. CASE ValueOf(Members[k]) # NoValue
    <3>1. result' = Append(result, ValueOf(Members[k]))
      BY <2>11, <2>13 DEF Yield
    <3>2. PICK v : v = ValueOf(Members[k])
      OBVIOUS
    <3>3. /\ Len(result') = k /\ result'[k] = v
          /\ \A i \in 1..Len(result) : result'[i] = result[i]
      BY <2>2, <2>3, <3>1, <3>2
    <3>4. Members' = Members /\ \A m : BytesOf(m)' = BytesOf(m) /\ ValueOf(m)' = ValueOf(m)
      BY <2>1, SameBytesSameValue DEF Members
    <3>5. ASSUME NEW i \in 1..Len(result'), NEW m, m = Members[i]
          PROVE  /\ result'[i] = ValueOf(m) /\ result'[i] # NoValue
                 /\ m.offset + m.type.size <= Len(raw)
                 /\ m.type.kind \notin {"bool", "char"}
                 /\ m.type.kind = "string" => HasNul(BytesOf(m))
      <4>1. CASE i = k
        BY <2>3, <2>6, <2>8, <2>10, <2>13, <2>14, <3>2, <3>3, <3>5, <4>1
      <4>2. CASE i # k
        <5>1. i \in 1..Len(result)
          BY <2>2, <2>3, <3>3, <4>2
        <5> QED
          BY <2>5, <3>3, <3>5, <5>1 DEF InPlace
      <4> QED
        BY <4>1, <4>2
    <3> QED
      BY <2>1, <3>4, <3>5 DEF InPlace
  <2> QED
    BY <2>12, <2>13
<1> QED
  BY <1>1, <1>3, <1>4, <1>5 DEF Next

\* In a layout without padding, bool and char every value that DecodeBtfBinary
\* stores is what its handlers make of the bytes at the BTF offset of its member,
\* whatever was decoded before; and when it returns it has stored one per member.
THEOREM ValuesInPlace == Spec => [](InPlace /\ Complete)
<1>1. Init => InPlace /\ Complete
  BY DEF Init, InPlace, Complete
<1>2. Inv /\ (InPlace /\ Complete) /\ [Next]_vars => (InPlace /\ Complete)'
  BY InPlaceStep
<1> QED
  BY <1>1, <1>2, Invariance, PTL DEF Spec

-----------------------------------------------------------------------------
(* What the handlers make of bytes.                                        *)

Bytes == 0..(Base - 1)

\* Power is what it is defined to be.
LEMMA PowerIs ==
  /\ Power \in [Nat -> Nat \ {0}]
  /\ Power[0] = 1
  /\ \A n \in Nat : Power[n + 1] = Base * Power[n]
<1> DEFINE h == [n \in Nat |-> [x \in Nat |-> Base * x]]
<1>0. Base \in Nat \ {0}
  BY BaseAssumption
<1>1. h \in [Nat -> [Nat -> Nat]]
  BY <1>0
<1>2. \A n, x \in Nat : h[n][x] = Base * x
  OBVIOUS
<1> HIDE DEF h
<1>a. PICK f : Follows(f, Nat, 1, h)
  <2>1. 1 \in Nat
    OBVIOUS
  <2> QED
    BY <1>1, <2>1, Recursion, Zenon
<1>3. f \in [Nat -> Nat] /\ f[0] = 1 /\ \A n \in Nat : f[n + 1] = h[n][f[n]]
  BY <1>a DEF Follows
<1>4. f = [n \in Nat |-> IF n = 0 THEN 1 ELSE Base * f[n - 1]]
  <2>1. ASSUME NEW n \in Nat, n # 0 PROVE f[n] = Base * f[n - 1]
    <3>1. n - 1 \in Nat /\ (n - 1) + 1 = n
      BY <2>1
    <3> QED
      BY <1>2, <1>3, <3>1
  <2> QED
    BY <1>3, <2>1
<1>5. Power = [n \in Nat |-> IF n = 0 THEN 1 ELSE Base * Power[n - 1]]
  BY <1>4 DEF Power
<1> DEFINE p == Power
<1> HIDE DEF p
<1>6. p = [n \in Nat |-> IF n = 0 THEN 1 ELSE Base * p[n - 1]]
  BY <1>5 DEF p
<1>7. p[0] = 1 /\ \A n \in Nat : p[n + 1] = Base * p[n]
  BY <1>6
<1>8. \A n \in Nat : p[n] \in Nat \ {0}
  <2> DEFINE T == {n \in Nat : p[n] \in Nat \ {0}}
  <2>1. 0 \in T
    BY <1>7
  <2>2. ASSUME NEW n \in Nat, n \in T PROVE n + 1 \in T
    BY <1>0, <1>7, <2>2
  <2> HIDE DEF T
  <2>3. \A n \in Nat : n \in T
    BY <2>1, <2>2, Induction
  <2> QED
    BY <2>3 DEF T
<1> QED
  BY <1>6, <1>7, <1>8 DEF p

\* v[k] is the number that the k most significant of n digits make.
AddsUp(v, n, ds) ==
  /\ v \in [0..n -> Nat] /\ v[0] = 0
  /\ \A k \in 1..n : v[k] = ds[(n - k) + 1] + Base * v[k - 1]

\* Number adds the digits up from the most significant one.
LEMMA NumberIs ==
  ASSUME NEW n \in Nat, NEW ds, ds \in Seq(Bytes), Len(ds) = n
  PROVE  \E v : AddsUp(v, n, ds) /\ Number(ds) = v[n]
<1> DEFINE dig(k) == IF k \in 0..(n - 1) THEN ds[n - k] ELSE 0
           h == [k \in Nat |-> [x \in Nat |-> dig(k) + Base * x]]
<1>0. Base \in Nat \ {0}
  BY BaseAssumption
<1>a. \A i \in 1..n : ds[i] \in Bytes
  OBVIOUS
<1>b. \A i \in 1..n : ds[i] \in Nat
  BY <1>0, <1>a DEF Bytes
<1>1. \A k \in Nat : dig(k) \in Nat
  BY <1>b
<1>2. \A k \in 1..n : dig(k - 1) = ds[(n - k) + 1]
  OBVIOUS
<1> HIDE DEF dig
<1>3. h \in [Nat -> [Nat -> Nat]]
  <2>1. \A x \in Nat : Base * x \in Nat
    BY <1>0, Product
  <2>2. \A k, x \in Nat : dig(k) + Base * x \in Nat
    <3> TAKE k, x \in Nat
    <3>1. PICK a \in Nat, b \in Nat : a = dig(k) /\ b = Base * x
      BY <1>1, <2>1
    <3>2. a + b \in Nat
      OBVIOUS
    <3> QED
      BY <3>1, <3>2
  <2> QED
    BY <2>2
<1>4. \A k, x \in Nat : h[k][x] = dig(k) + Base * x
  OBVIOUS
<1> HIDE DEF h
<1>c. PICK f : Follows(f, Nat, 0, h)
  <2>1. 0 \in Nat
    OBVIOUS
  <2> QED
    BY <1>3, <2>1, Recursion, Zenon
<1>5. f \in [Nat -> Nat] /\ f[0] = 0 /\ \A k \in Nat : f[k + 1] = h[k][f[k]]
  BY <1>c DEF Follows
<1> DEFINE F(g) == [k \in 0..n |-> IF k = 0 THEN 0 ELSE ds[(n - k) + 1] + Base * g[k - 1]]
           w == [k \in 0..n |-> f[k]]
<1>6. \A k \in 1..n : f[k] = ds[(n - k) + 1] + Base * f[k - 1]
  <2> TAKE k \in 1..n
  <2>1. k - 1 \in Nat /\ (k - 1) + 1 = k
    OBVIOUS
  <2>2. f[k] = h[k - 1][f[k - 1]] /\ f[k - 1] \in Nat
    BY <1>5, <2>1
  <2>3. f[k] = dig(k - 1) + Base * f[k - 1]
    BY <1>4, <2>1, <2>2
  <2> QED
    BY <1>2, <2>3
<1>7. w = F(w)
  <2>1. ASSUME NEW k \in 0..n, k # 0 PROVE w[k] = ds[(n - k) + 1] + Base * w[k - 1]
    <3>1. k \in 1..n /\ k - 1 \in 0..n
      BY <2>1
    <3> QED
      BY <1>6, <3>1
  <2>2. w[0] = 0 /\ 0 \in 0..n
    BY <1>5
  <2> DEFINE u == w
  <2>3. u = [k \in 0..n |-> u[k]]
    OBVIOUS
  <2> HIDE DEF u
  <2> QED
    BY <2>1, <2>2, <2>3 DEF u
<1> DEFINE v == CHOOSE g : g = F(g)
<1>8. v = F(v)
  BY <1>7
<1>9. Number(ds) = v[n]
  BY DEF Number
<1> HIDE DEF v
<1>10. v[0] = 0 /\ \A k \in 1..n : v[k] = ds[(n - k) + 1] + Base * v[k - 1]
  <2>1. \A k \in 0..n : v[k] = IF k = 0 THEN 0 ELSE ds[(n - k) + 1] + Base * v[k - 1]
    BY <1>8
  <2>2. 0 \in 0..n /\ \A k \in 1..n : k \in 0..n /\ k # 0
    OBVIOUS
  <2> QED
    BY <2>1, <2>2
<1>11. \A k \in Nat : k <= n => v[k] \in Nat
  <2> DEFINE T == {k \in Nat : k <= n => v[k] \in Nat}
  <2>1. 0 \in T
    BY <1>10
  <2>2. ASSUME NEW k \in Nat, k \in T PROVE k + 1 \in T
    <3>1. CASE k + 1 <= n
      <4>1. v[k + 1] = ds[(n - (k + 1)) + 1] + Base * v[k] /\ v[k] \in Nat
        BY <1>10, <2>2, <3>1
      <4>2. ds[(n - (k + 1)) + 1] \in Nat
        BY <1>b, <3>1
      <4> QED
        BY <1>0, <4>1, <4>2
    <3> QED
      BY <3>1
  <2> HIDE DEF T
  <2>3. \A k \in Nat : k \in T
    BY <2>1, <2>2, Induction
  <2> QED
    BY <2>3 DEF T
<1>12. v \in [0..n -> Nat]
  BY <1>8, <1>11
<1> QED
  BY <1>9, <1>10, <1>12 DEF AddsUp

\* A number has the digits it was made of, and no more.
LEMMA Digits ==
  ASSUME NEW n \in Nat, NEW ds, ds \in Seq(Bytes), Len(ds) = n
  PROVE  /\ Number(ds) \in 0..(Power[n] - 1)
         /\ \A j \in 1..n : (Number(ds) \div Power[j - 1]) % Base = ds[j]
<1>0. Base \in Nat \ {0}
  BY BaseAssumption
<1>a. PICK v : AddsUp(v, n, ds) /\ Number(ds) = v[n]
  BY NumberIs, Zenon
<1>1. /\ v \in [0..n -> Nat] /\ v[0] = 0 /\ Number(ds) = v[n]
      /\ \A k \in 1..n : v[k] = ds[(n - k) + 1] + Base * v[k - 1]
  BY <1>a DEF AddsUp
<1> DEFINE Good(k) == /\ v[k] \in 0..(Power[k] - 1)
                      /\ \A j \in 1..k : (v[k] \div Power[j - 1]) % Base = ds[(n - k) + j]
           T == {k \in Nat : k <= n => Good(k)}
<1>2. 0 \in T
  <2>1. v[0] \in 0..(Power[0] - 1)
    BY <1>1, PowerIs
  <2> QED
    BY <2>1
<1>3. ASSUME NEW k \in Nat, k \in T PROVE k + 1 \in T
  <2> SUFFICES ASSUME k + 1 <= n PROVE Good(k + 1)
    OBVIOUS
  <2>1. Good(k)
    BY <1>3
  <2>2. PICK d : d = ds[n - k]
    OBVIOUS
  <2>3. d \in Bytes /\ d \in Nat /\ d <= Base - 1
    BY <1>0, <2>2 DEF Bytes
  <2>4. v[k + 1] = d + v[k] * Base /\ v[k] \in Nat /\ v[k + 1] \in Nat
    <3>1. k + 1 \in 1..n /\ (n - (k + 1)) + 1 = n - k /\ (k + 1) - 1 = k
      OBVIOUS
    <3>2. v[k + 1] = ds[n - k] + Base * v[k]
      BY <1>1, <3>1
    <3>3. v[k] \in Nat /\ v[k + 1] \in Nat
      BY <1>1
    <3>4. PICK q \in Nat : q = v[k]
      BY <3>3
    <3>5. Base * q = q * Base
      BY <1>0
    <3> QED
      BY <2>2, <3>2, <3>3, <3>4, <3>5
  <2>5. v[k + 1] % Base = d /\ v[k + 1] \div Base = v[k]
    <3>1. PICK q \in Nat : q = v[k]
      BY <2>4
    <3>2. d \in 0..(Base - 1) /\ q \in Int
      BY <1>0, <2>3
    <3>3. (d + q * Base) % Base = d /\ (d + q * Base) \div Base = q
      BY <1>0, <3>2, RemainderUnique, QuotientUnique
    <3> QED
      BY <2>4, <3>1, <3>3
  <2>6. v[k + 1] \in 0..(Power[k + 1] - 1)
    <3>1. Power[k + 1] = Base * Power[k] /\ Power[k] \in Nat /\ v[k] <= Power[k] - 1
      BY <2>1, PowerIs
    <3>2. PICK x \in Nat, p \in Nat : x = v[k] /\ p = Power[k] - 1
      BY <2>4, <3>1
    <3>3. x * Base <= p * Base /\ x * Base \in Nat
      BY <1>0, <3>1, <3>2, Product
    <3>4. (p + 1) * Base = p * Base + Base /\ p * Base \in Nat
      BY <1>0, Product
    <3>5. Power[k + 1] = (p + 1) * Base
      BY <1>0, <3>1, <3>2
    <3>6. PICK y \in Nat, z \in Nat : y = x * Base /\ z = p * Base
      BY <3>3, <3>4
    <3>7. v[k + 1] = d + y /\ y <= z /\ Power[k + 1] = z + Base
      BY <2>4, <3>2, <3>3, <3>4, <3>5, <3>6
    <3> QED
      BY <1>0, <2>3, <3>7
  <2>7. ASSUME NEW j \in 1..(k + 1)
        PROVE  (v[k + 1] \div Power[j - 1]) % Base = ds[(n - (k + 1)) + j]
    <3>1. CASE j = 1
      <4>1. Power[j - 1] = 1 /\ (n - (k + 1)) + j = n - k
        BY <3>1, PowerIs
      <4>2. v[k + 1] \div 1 = v[k + 1]
        BY <2>4
      <4> QED
        BY <2>2, <2>5, <4>1, <4>2
    <3>2. CASE j # 1
      <4>1. PICK i : i = j - 1
        OBVIOUS
      <4>2. i \in 1..k /\ i - 1 \in Nat /\ (n - (k + 1)) + j = (n - k) + i /\ (i - 1) + 1 = i
        BY <3>2, <4>1
      <4>3. Power[j - 1] = Base * Power[i - 1] /\ Power[i - 1] \in Nat \ {0}
        BY <4>1, <4>2, PowerIs
      <4>4. v[k + 1] \div Power[j - 1] = (v[k + 1] \div Base) \div Power[i - 1]
        <5>1. PICK x \in Nat, b \in Nat \ {0} : x = v[k + 1] /\ b = Power[i - 1]
          BY <2>4, <4>3
        <5>2. x \div (Base * b) = (x \div Base) \div b
          BY <1>0, QuotientOfQuotient
        <5> QED
          BY <4>3, <5>1, <5>2
      <4>5. (v[k] \div Power[i - 1]) % Base = ds[(n - k) + i]
        BY <2>1, <4>2
      <4> QED
        BY <2>5, <4>2, <4>4, <4>5
    <3> QED
      BY <3>1, <3>2
  <2> QED
    BY <2>6, <2>7
<1> HIDE DEF T
<1>4. \A k \in Nat : k \in T
  BY <1>2, <1>3, Induction
<1>5. Good(n)
  BY <1>4 DEF T
<1> QED
  BY <1>1, <1>5

\* Reversing bytes twice, or not at all, gives them back.
LEMMA OrderedIs ==
  ASSUME NEW bs \in Seq(Bytes)
  PROVE  Ordered(bs) \in Seq(Bytes) /\ Len(Ordered(bs)) = Len(bs) /\ Ordered(Ordered(bs)) = bs
<1>1. CASE endianess # "big"
  BY <1>1 DEF Ordered
<1>2. CASE endianess = "big"
  <2>1. Len(bs) \in Nat /\ \A i \in 1..Len(bs) : bs[(Len(bs) - i) + 1] \in Bytes
    <3>1. \A i \in 1..Len(bs) : (Len(bs) - i) + 1 \in 1..Len(bs)
      OBVIOUS
    <3> QED
      BY <3>1
  <2>2. ASSUME NEW s, s \in Seq(Bytes), Len(s) = Len(bs)
        PROVE  Ordered(s) = [i \in 1..Len(bs) |-> s[(Len(bs) - i) + 1]]
    BY <1>2, <2>2 DEF Ordered, Reverse
  <2> DEFINE r == [i \in 1..Len(bs) |-> bs[(Len(bs) - i) + 1]]
  <2>3. r \in Seq(Bytes) /\ Len(r) = Len(bs)
    BY <2>1
  <2>4. [i \in 1..Len(bs) |-> r[(Len(bs) - i) + 1]] = bs
    <3>1. \A i \in 1..Len(bs) : r[(Len(bs) - i) + 1] = bs[i]
      BY <2>1
    <3>2. bs = [i \in 1..Len(bs) |-> bs[i]]
      BY <2>1
    <3> HIDE DEF r
    <3> QED
      BY <3>1, <3>2
  <2>5. Ordered(bs) = r
    BY <2>2
  <2> HIDE DEF r
  <2>6. Ordered(r) = bs
    BY <2>2, <2>3, <2>4
  <2> QED
    BY <2>3, <2>5, <2>6
<1> QED
  BY <1>1, <1>2

\* binary.Read of an unsigned integer gives the number that the bytes represent.
LEMMA UintRepresents ==
  ASSUME NEW bs \in Seq(Bytes)
  PROVE  /\ UintOf(bs) \in 0..(Power[Len(bs)] - 1)
         /\ \A j \in 1..Len(bs) : (UintOf(bs) \div Power[j - 1]) % Base = Ordered(bs)[j]
         /\ Represents(UintOf(bs), bs, 0)
<1>0. PICK ds : ds = Ordered(bs)
  OBVIOUS
<1>1. PICK n \in Nat, P \in Nat \ {0} : n = Len(bs) /\ P = Power[Len(bs)] /\ ds = Ordered(bs)
  BY <1>0, PowerIs
<1>2. ds \in Seq(Bytes) /\ Len(ds) = n
  BY <1>1, OrderedIs
<1>3. PICK u : u = UintOf(bs)
  OBVIOUS
<1>4. u \in 0..(P - 1) /\ \A j \in 1..n : (u \div Power[j - 1]) % Base = ds[j]
  BY <1>1, <1>2, <1>3, Digits DEF UintOf
<1>5. u % P = u
  BY <1>4
<1> QED
  BY <1>1, <1>3, <1>4, <1>5 DEF Represents

\* The same bits, signed, are the number modulo Base ^ n of the other half.
LEMMA SignedRepresents ==
  ASSUME NEW bs \in Seq(Bytes)
  PROVE  Represents(Signed(UintOf(bs), Len(bs)), bs, Halved(Len(bs)))
<1>0. PICK u : u = UintOf(bs)
  OBVIOUS
<1>1. PICK n \in Nat, P \in Nat \ {0} : n = Len(bs) /\ P = Power[Len(bs)] /\ u = UintOf(bs)
  BY <1>0, PowerIs
<1>2. u \in 0..(P - 1) /\ \A j \in 1..n : (u \div Power[j - 1]) % Base = Ordered(bs)[j]
  BY <1>1, UintRepresents
<1>3. PICK h \in Int : h = P \div 2
  OBVIOUS
<1>4. 2 * h <= P /\ P <= 2 * h + 1
  BY <1>3
<1>5. PICK v : v = Signed(u, n)
  OBVIOUS
<1>6. v = IF 2 * u < P THEN u ELSE u - P
  BY <1>1, <1>5 DEF Signed
<1>7. v \in (-h)..((-h) + P - 1)
  BY <1>2, <1>4, <1>6
<1>8. v % P = u
  <2>1. CASE 2 * u < P
    BY <1>2, <1>6, <2>1
  <2>2. CASE ~(2 * u < P)
    <3>1. (u + (-1) * P) % P = u
      BY <1>2, RemainderUnique
    <3>2. v = u + (-1) * P
      BY <1>2, <1>6, <2>2
    <3> QED
      BY <3>1, <3>2
  <2> QED
    BY <2>1, <2>2
<1> QED
  BY <1>1, <1>2, <1>3, <1>5, <1>7, <1>8 DEF Represents, Halved

\* An address that is read as a number and put back is the bytes it came from.
LEMMA PutIsInverse ==
  ASSUME NEW bs \in Seq(Bytes), Len(bs) = 4
  PROVE  PutUint32(UintOf(bs)) = bs
<1>0. PICK u : u = UintOf(bs)
  OBVIOUS
<1>1. PICK ds \in Seq(Bytes) : ds = Ordered(bs) /\ u = UintOf(bs)
  BY <1>0, OrderedIs
<1>2. Len(ds) = 4 /\ Ordered(ds) = bs
  BY <1>1, OrderedIs
<1>3. \A j \in 1..4 : (u \div Power[j - 1]) % Base = ds[j]
  BY <1>1, UintRepresents
<1>4. ds = [i \in 1..4 |-> (u \div Power[i - 1]) % Base]
  BY <1>2, <1>3
<1> QED
  BY <1>1, <1>2, <1>4 DEF PutUint32

\* handleArray keeps the bytes before the first NUL.
LEMMA CStringIs ==
  ASSUME NEW bs \in Seq(Bytes), HasNul(bs)
  PROVE  /\ IsStrictPrefix(CString(bs), bs)
         /\ \A i \in 1..Len(CString(bs)) : CString(bs)[i] # 0
         /\ bs[Len(CString(bs)) + 1] = 0
<1> DEFINE First(i) == bs[i] = 0 /\ \A j \in 1..(i - 1) : bs[j] # 0
           N == {i \in 1..Len(bs) : bs[i] = 0}
<1>1. PICK x \in N : \A y \in N : x <= y
  <2>1. N \subseteq Nat /\ N # {}
    BY DEF HasNul
  <2> HIDE DEF N
  <2> QED
    BY <2>1, LeastNumber
<1>2. x \in 1..Len(bs) /\ First(x)
  BY <1>1
<1>3. PICK k : k = CHOOSE i \in 1..Len(bs) : First(i)
  OBVIOUS
<1>4. k \in 1..Len(bs) /\ First(k)
  BY <1>2, <1>3
<1>5. CString(bs) = SubSeq(bs, 1, k - 1)
  BY <1>3 DEF CString
<1>6. PICK s : s = CString(bs)
  OBVIOUS
<1>7. s \in Seq(Bytes) /\ Len(s) = k - 1 /\ \A i \in 1..(k - 1) : s[i] = bs[i]
  BY <1>4, <1>5, <1>6
<1>8. IsPrefix(s, bs) /\ s # bs
  <2>1. SubSeq(s, 1, Len(s)) = SubSeq(bs, 1, Len(s))
    BY <1>4, <1>7
  <2>2. Len(s) < Len(bs)
    BY <1>4, <1>7
  <2> QED
    BY <2>1, <2>2 DEF IsPrefix
<1> QED
  BY <1>4, <1>6, <1>7, <1>8 DEF IsStrictPrefix

\* A slice of the raw bytes has the bytes it was asked for.
LEMMA SliceIs ==
  ASSUME NEW S, NEW s \in Seq(S), NEW a \in Nat, NEW n \in Nat, a + n <= Len(s)
  PROVE  SubSeq(s, a + 1, a + n) \in Seq(S) /\ Len(SubSeq(s, a + 1, a + n)) = n
<1>1. Len(s) \in Nat /\ s \in [1..Len(s) -> S]
  OBVIOUS
<1>2. SubSeq(s, a + 1, a + n) = [i \in 1..n |-> s[i + a]]
  OBVIOUS
<1>3. \A i \in 1..n : s[i + a] \in S
  BY <1>1
<1> QED
  BY <1>2, <1>3

\* What the handlers make of the bytes of a member is what the bytes mean.
LEMMA ValueMeans ==
  ASSUME NEW m \in [type : Types, offset : Nat], raw \in Seq(Bytes),
         m.offset + m.type.size <= Len(raw), ValueOf(m) # NoValue,
         m.type.kind \notin {"bool", "char"},
         m.type.kind = "string" => HasNul(BytesOf(m))
  PROVE  Means(m, ValueOf(m))
<1>0. PICK bs : bs = BytesOf(m)
  OBVIOUS
<1>1. PICK t \in Types : t = m.type /\ bs = BytesOf(m)
  BY <1>0
<1>2. t.size \in Nat /\ t.kind \in Kinds /\ m.offset \in Nat
      /\ t.name \in {"", "alias", "duration", "ipv4_addr", "ipv6_addr"}
  BY DEF Types
<1>3. bs \in Seq(Bytes) /\ Len(bs) = t.size
  <2>1. bs = SubSeq(raw, m.offset + 1, m.offset + t.size) /\ m.offset + t.size <= Len(raw)
    BY <1>1 DEF BytesOf
  <2>2. PICK o \in Nat, z \in Nat : o = m.offset /\ z = t.size
    BY <1>2, Zenon
  <2>3. bs = SubSeq(raw, o + 1, o + z) /\ o + z <= Len(raw)
    BY <2>1, <2>2, Zenon
  <2>4. bs \in Seq(Bytes) /\ Len(bs) = z
    <3>1. ASSUME NEW r \in Seq(Bytes), o + z <= Len(r)
          PROVE  SubSeq(r, o + 1, o + z) \in Seq(Bytes) /\ Len(SubSeq(r, o + 1, o + z)) = z
      BY <3>1, SliceIs
    <3>2. raw \in Seq(Bytes)
      OBVIOUS
    <3> QED
      BY <2>3, <3>1, <3>2
  <2> QED
    BY <2>2, <2>4, Zenon
<1>4. PICK v : v = Handled(t, bs)
  OBVIOUS
<1>5. ValueOf(m) = Converted(t, v) /\ Converted(t, v) # NoValue
  BY <1>1, <1>4 DEF ValueOf
<1>6. v # NoValue
  <2> SUFFICES ASSUME v = NoValue PROVE Converted(t, v) = NoValue
    BY <1>5
  <2>1. v[1] # "uint"
    BY DEF NoValue
  <2>2. CASE t.name \in {"", "alias"}
    BY <2>2 DEF Converted
  <2>3. CASE t.name = "duration"
    BY <2>1, <2>3 DEF Converted
  <2>4. CASE t.name \in {"ipv4_addr", "ipv6_addr"}
    BY <2>1, <2>4 DEF Converted
  <2> QED
    BY <1>2, <2>2, <2>3, <2>4
<1>a. PICK w : w = ValueOf(m)
  OBVIOUS
<1>7. CASE t.kind = "uint"
  <2>1. PICK u : u = UintOf(bs)
    OBVIOUS
  <2>2. t.size \in {1, 2, 4, 8} /\ v = <<"uint", t.size, u>>
    BY <1>4, <1>6, <1>7, <2>1 DEF Handled
  <2>3. CASE t.name \in {"", "alias"}
    <3>1. Converted(t, v) = <<"uint", t.size, u>>
      BY <1>6, <2>2, <2>3 DEF Converted
    <3>2. Represents(u, bs, 0)
      BY <1>3, <2>1, UintRepresents
    <3> QED
      BY <1>1, <1>5, <1>7, <3>1, <3>2 DEF Means, BytesOf
  <2>4. CASE t.name = "duration"
    <3>1. t.size = 8 /\ Converted(t, v) = <<"duration", 8, Signed(u, 8)>>
      BY <1>5, <1>6, <2>2, <2>4 DEF Converted, NoValue
    <3>2. Represents(Signed(u, 8), bs, Halved(8))
      BY <1>3, <2>1, <3>1, SignedRepresents
    <3> QED
      BY <1>1, <1>5, <2>4, <3>1, <3>2 DEF Means, BytesOf
  <2>5. CASE t.name \in {"ipv4_addr", "ipv6_addr"}
    <3>1. t.size = 4 /\ Converted(t, v) = <<"ip", 4, PutUint32(u)>>
      BY <1>5, <1>6, <2>2, <2>5 DEF Converted, NoValue
    <3>2. PutUint32(u) = bs
      BY <1>3, <2>1, <3>1, PutIsInverse
    <3>3. w[1] = "ip" /\ w[3] = bs
      BY <1>5, <1>a, <3>1, <3>2
    <3>4. t.name # ""
      BY <2>5
    <3> QED
      BY <1>1, <1>a, <3>3, <3>4 DEF Means, BytesOf
  <2> QED
    BY <1>2, <2>3, <2>4, <2>5
<1>8. ASSUME v[1] # "uint", v # NoValue PROVE ValueOf(m) = v
  BY <1>2, <1>5, <1>8 DEF Converted
<1>9. CASE t.kind = "int"
  <2>1. PICK u : u = Signed(UintOf(bs), t.size)
    OBVIOUS
  <2>2. v = <<"int", t.size, u>>
    BY <1>4, <1>6, <1>9, <2>1 DEF Handled
  <2>3. Represents(u, bs, Halved(t.size))
    BY <1>3, <2>1, SignedRepresents
  <2>4. w[1] = "int" /\ w[2] = t.size /\ w[3] = u
    <3>1. v[1] = "int"
      BY <2>2
    <3> QED
      BY <1>6, <1>8, <1>a, <2>2, <3>1
  <2> QED
    BY <1>1, <1>9, <1>a, <2>3, <2>4 DEF Means, BytesOf
<1>10. CASE t.kind = "float"
  <2>1. v = <<"float", t.size, bs>>
    BY <1>4, <1>6, <1>10 DEF Handled
  <2>2. w[1] = "float" /\ w[3] = bs
    <3>1. v[1] = "float"
      BY <2>1
    <3> QED
      BY <1>6, <1>8, <1>a, <2>1, <3>1
  <2> QED
    BY <1>1, <1>a, <2>2 DEF Means, BytesOf
<1>11. CASE t.kind = "string"
  <2>1. PICK s : s = CString(bs)
    OBVIOUS
  <2>2. v = <<"string", 0, s>>
    BY <1>4, <1>11, <2>1 DEF Handled
  <2>3. /\ IsStrictPrefix(s, bs) /\ bs[Len(s) + 1] = 0
        /\ \A i \in 1..Len(s) : s[i] # 0
    BY <1>1, <1>3, <1>11, <2>1, CStringIs
  <2>4. w[1] = "string" /\ w[3] = s
    <3>1. v[1] = "string"
      BY <2>2
    <3> QED
      BY <1>6, <1>8, <1>a, <2>2, <3>1
  <2> QED
    BY <1>1, <1>a, <2>3, <2>4 DEF Means, BytesOf
<1>12. CASE t.kind = "other"
  BY <1>4, <1>6, <1>12 DEF Handled
<1> QED
  BY <1>1, <1>2, <1>7, <1>9, <1>10, <1>11, <1>12 DEF Kinds

\* DecodeBtfBinary translates a layout without padding, bool and char to what its
\* bytes mean, for any number of members, either byte order, and whatever the
\* decoder was used for before.
THEOREM DenseDecoded == Spec => []DenseIsDecoded
<1>1. Inv /\ Ranges /\ InPlace /\ Complete => DenseIsDecoded
  <2> SUFFICES ASSUME Inv, Ranges, InPlace, Complete, status = "ok", Dense(typ),
                      NEW i \in 1..Len(Members)
               PROVE  Means(Members[i], result[i])
    BY DEF DenseIsDecoded
  <2>1. PICK m : m = Members[i]
    OBVIOUS
  <2> DEFINE R == [type : Types, offset : Nat]
  <2>2. m \in R
    <3>1. Members \in Seq(R)
      BY DEF Inv, Shape, IsLayout, Members
    <3> HIDE DEF R
    <3> QED
      BY <2>1, <3>1
  <2>3. /\ result[i] = ValueOf(m) /\ ValueOf(m) # NoValue
        /\ m.offset + m.type.size <= Len(raw)
        /\ m.type.kind \notin {"bool", "char"}
        /\ m.type.kind = "string" => HasNul(BytesOf(m))
    BY <2>1 DEF InPlace, Complete
  <2>4. raw \in Seq(Bytes)
    BY DEF Ranges, Bytes
  <2> QED
    BY <2>1, <2>2, <2>3, <2>4, ValueMeans
<1> QED
  BY <1>1, RangesHold, Invariance, ValuesInPlace, PTL
=============================================================================
