------------------------------ MODULE Decoder ------------------------------
(***************************************************************************)
(* The decoder of keys, values and ring buffer records                     *)
(* (pkg/decoder/decoder.go), member by member.                             *)
(*                                                                         *)
(* startRingBuf and startHashMap make one decoder each and call            *)
(* DecodeBtfBinary on it again and again: for every record, or for a key   *)
(* and then its value. Its state is the raw bytes and an offset into them. *)
(*                                                                         *)
(* A BTF type is its size, its kind and the name of the typedef it was     *)
(* reached through ("" for none). Kinds: "uint", "int", "float", "string"  *)
(* (an array of char), "bool", "char" and "other", which is not supported. *)
(* A byte is a number below Base. Floats stay bytes.                       *)
(***************************************************************************)
EXTENDS Integers, Sequences, SequencesExt

CONSTANTS
  Base,           \* how many values a byte has: 256
  Layouts         \* the BTF types of the program's maps

ASSUME BaseAssumption == Base \in Nat /\ Base > 1

\* A layout: is it a struct, its members with their BTF offsets, its size.
Kinds == {"uint", "int", "float", "string", "bool", "char", "other"}
Types == [kind : Kinds, size : Nat, name : {"", "alias", "duration", "ipv4_addr", "ipv6_addr"}]

ASSUME LayoutsAssumption ==
  \A l \in Layouts :
    /\ l.struct \in BOOLEAN /\ l.size \in Nat
    /\ l.members \in Seq([type : Types, offset : Nat])
    /\ ~l.struct => Len(l.members) = 1

VARIABLES
  endianess,      \* Endianess, of loader_le.go or of loader_be.go: a build has one
  typ,            \* the layout of this call
  raw,            \* d.raw
  offset,         \* d.offset
  result,         \* the values of the members decoded so far
  status          \* "idle", "running", "ok", "error" or "panic"

vars == <<endianess, typ, raw, offset, result, status>>

NoLayout == [struct |-> TRUE, size |-> 0, members |-> << >>]

Init ==
  /\ endianess \in {"little", "big"}
  /\ typ = NoLayout
  /\ raw = << >>
  /\ offset = 0
  /\ result = << >>
  /\ status = "idle"

-----------------------------------------------------------------------------
(* Numbers.                                                                *)

\* The bytes from the least to the most significant.
Ordered(bs) == IF endianess = "big" THEN Reverse(bs) ELSE bs

Power[n \in Nat] == IF n = 0 THEN 1 ELSE Base * Power[n - 1]

\* The number with these digits, the least significant first. (A recursive
\* function rather than a fold, which could not be proved about.)
Number(ds) ==
  LET n == Len(ds)
      high[k \in 0..n] == IF k = 0 THEN 0 ELSE ds[(n - k) + 1] + Base * high[k - 1]
  IN high[n]

\* Mutant: the byte order of the other platforms.
UintOfSwapped(bs) == Number(Reverse(Ordered(bs)))

\* binary.Read into an unsigned integer.
UintOf(bs) == Number(Ordered(bs))

\* The signed integer of `size` bytes with the same bits.
Signed(u, size) == IF 2 * u < Power[size] THEN u ELSE u - Power[size]

\* Endianess.PutUint32
PutUint32(u) == Ordered([i \in 1..4 |-> (u \div Power[i - 1]) % Base])

-----------------------------------------------------------------------------
(* DecodeBtfBinary.                                                        *)

\* Mutant: the offset of the previous call is kept.
ResetKeepsOffset(l) == offset

\* "Reset values when called"
Reset(l) == 0

\* A struct, a typedef, a float or an integer.
Accepted(l) ==
  LET t == l.members[1].type IN
  l.struct \/ t.name # "" \/ t.kind \in {"uint", "int", "float", "bool", "char"}

\* Mutant: the bytes of the previous call are kept.
CallKeepsRaw(l, r) ==
  /\ status \in {"idle", "ok", "error"}
  /\ typ' = l
  /\ offset' = Reset(l)
  /\ result' = << >>
  /\ status' = IF Accepted(l) THEN "running" ELSE "error"
  /\ UNCHANGED <<endianess, raw>>

\* A call with the bytes r. A panic has ended the program.
Call(l, r) ==
  /\ status \in {"idle", "ok", "error"}
  /\ typ' = l
  /\ raw' = r
  /\ offset' = Reset(l)
  /\ result' = << >>
  /\ status' = IF Accepted(l) THEN "running" ELSE "error"
  /\ UNCHANGED endianess

Members == typ.members
Running == status = "running" /\ Len(result) < Len(Members)
Member  == Members[Len(result) + 1].type

NoValue == <<"none", 0, 0>>

\* A typedef of a known name converts what its underlying type gave.
Converted(t, v) ==
  CASE v = NoValue \/ t.name \in {"", "alias"} -> v
    [] t.name = "duration" ->
         IF v[1] = "uint" /\ v[2] = 8 THEN <<"duration", 8, Signed(v[3], 8)>> ELSE NoValue
    [] t.name \in {"ipv4_addr", "ipv6_addr"} ->
         IF v[1] = "uint" /\ v[2] = 4 THEN <<"ip", 4, PutUint32(v[3])>> ELSE NoValue

\* The value is stored and the loop goes on, or the error is returned.
Yield(v) ==
  LET c == Converted(Member, v) IN
  /\ result' = IF c = NoValue THEN result ELSE Append(result, c)
  /\ status' = IF c = NoValue THEN "error" ELSE "running"

\* bool and char: a constant, and no byte is read.
SkipMember ==
  /\ Running
  /\ Member.kind \in {"bool", "char"}
  /\ Yield(IF Member.kind = "bool" THEN <<"bool", 0, FALSE>> ELSE <<"string", 0, << >> >>)
  /\ UNCHANGED <<endianess, typ, raw, offset>>

Consuming == {"uint", "int", "float", "string"}

\* d.raw[d.offset : d.offset+size] is within the buffer.
InRange == offset + Member.size <= Len(raw)

Slice == SubSeq(raw, offset + 1, offset + Member.size)
Terminated == \E i \in 1..Len(Slice) : Slice[i] = 0

\* The bytes before the first NUL.
CString(bs) ==
  SubSeq(bs, 1, (CHOOSE i \in 1..Len(bs) : bs[i] = 0 /\ \A j \in 1..(i - 1) : bs[j] # 0) - 1)

\* handleInt, handleUint, handleFloat and handleArray.
Handled(t, bs) ==
  CASE t.kind = "uint" /\ t.size \in {1, 2, 4, 8} -> <<"uint", t.size, UintOf(bs)>>
    [] t.kind = "int" /\ t.size \in {1, 2, 4, 8} -> <<"int", t.size, Signed(UintOf(bs), t.size)>>
    [] t.kind = "float" /\ t.size \in {4, 8} -> <<"float", t.size, bs>>
    [] t.kind = "string" -> <<"string", 0, CString(bs)>>
    [] OTHER -> NoValue

\* Mutant: padding up to the next even offset is skipped, packed or not.
AdvanceAligned == (offset + Member.size) + ((offset + Member.size) % 2)

\* d.offset += size
Advance == offset + Member.size

ReadMember ==
  /\ Running
  /\ Member.kind \in Consuming
  /\ InRange
  /\ Member.kind = "string" => Terminated
  /\ Yield(Handled(Member, Slice))
  /\ offset' = Advance
  /\ UNCHANGED <<endianess, typ, raw>>

\* The slice of the buffer is out of range, or IndexByte is -1.
ReadPanics ==
  /\ Running
  /\ Member.kind \in Consuming
  /\ ~InRange \/ (Member.kind = "string" /\ ~Terminated)
  /\ status' = "panic"
  /\ UNCHANGED <<endianess, typ, raw, offset, result>>

RefuseMember ==
  /\ Running
  /\ Member.kind = "other"
  /\ status' = "error"
  /\ UNCHANGED <<endianess, typ, raw, offset, result>>

Return ==
  /\ status = "running"
  /\ Len(result) = Len(Members)
  /\ status' = "ok"
  /\ UNCHANGED <<endianess, typ, raw, offset, result>>

\* The kernel hands over as many bytes as the type has.
Next ==
  \/ \E l \in Layouts : \E r \in [1..l.size -> 0..(Base - 1)] : Call(l, r)
  \/ SkipMember
  \/ ReadMember
  \/ ReadPanics
  \/ RefuseMember
  \/ Return

Spec == Init /\ [][Next]_vars

-----------------------------------------------------------------------------
(* Properties.                                                             *)

\* The range of every variable.
TypeOK ==
  /\ endianess \in {"little", "big"}
  /\ typ \in Layouts \cup {NoLayout}
  /\ raw \in Seq(0..(Base - 1)) /\ Len(raw) = typ.size
  /\ offset \in Nat
  /\ Len(result) \in 0..Len(Members)
  /\ status \in {"idle", "running", "ok", "error", "panic"}

\* The BTF layout has no padding and no member the decoder does not read:
\* each member begins where the one before it ends.
End(l, i) == l.members[i].offset + l.members[i].type.size
Dense(l) ==
  /\ \A i \in 1..Len(l.members) : l.members[i].type.kind \notin {"bool", "char"}
  /\ Len(l.members) > 0 => l.members[1].offset = 0
  /\ \A i \in 1..(Len(l.members) - 1) : l.members[i + 1].offset = End(l, i)

\* The members of a layout are in order, do not overlap, and fit into its size.
WellFormed(l) ==
  /\ \A i \in 1..Len(l.members) : End(l, i) <= l.size
  /\ \A i \in 1..(Len(l.members) - 1) : End(l, i) <= l.members[i + 1].offset

\* v is the number of n bytes bs, counted from lo.
Represents(v, bs, lo) ==
  LET n == Len(bs) IN
  /\ v \in lo..(lo + Power[n] - 1)
  /\ \A j \in 1..n : ((v % Power[n]) \div Power[j - 1]) % Base = Ordered(bs)[j]

Halved(n) == -(Power[n] \div 2)

\* v is what the bytes at the member's BTF offset mean.
Means(m, v) ==
  LET bs == SubSeq(raw, m.offset + 1, m.offset + m.type.size) IN
  CASE v[1] = "uint" -> m.type.kind = "uint" /\ Represents(v[3], bs, 0)
    [] v[1] = "int" -> m.type.kind = "int" /\ Represents(v[3], bs, Halved(v[2]))
    [] v[1] = "duration" -> m.type.name = "duration" /\ Represents(v[3], bs, Halved(8))
    [] v[1] = "ip" -> m.type.name # "" /\ v[3] = bs
    [] v[1] = "float" -> v[3] = bs
    [] v[1] = "string" ->
         /\ IsStrictPrefix(v[3], bs)
         /\ \A i \in 1..Len(v[3]) : v[3][i] # 0
         /\ bs[Len(v[3]) + 1] = 0
    [] v[1] = "bool" -> v[3] = (bs # [i \in 1..Len(bs) |-> 0])

\* A dense layout is decoded to what its bytes mean, whatever was decoded
\* before: numbers in the byte order of the machine, addresses in the order of
\* the wire on machines of either order, strings up to their NUL.
DenseIsDecoded ==
  status = "ok" /\ Dense(typ) => \A i \in 1..Len(Members) : Means(Members[i], result[i])

\* The offset the decoder counts is the one BTF gives, at every member of a
\* dense layout.
OffsetIsLayout ==
  status = "running" /\ Dense(typ) =>
    /\ Running => offset = Members[Len(result) + 1].offset
    /\ Len(result) > 0 => offset = End(typ, Len(result))

\* The decoder never reads beyond the buffer of a well-formed layout, dense or
\* not: it panics for a string without a NUL only.
PanicsUnterminatedOnly ==
  status = "panic" /\ WellFormed(typ) => Member.kind = "string" /\ ~Terminated

\* The comment on BinaryDecoder: raw data is translated to the format of its
\* BTF type, so the values are those of the members.
BtfIsDecoded ==
  status = "ok" => \A i \in 1..Len(Members) : Means(Members[i], result[i])
=============================================================================
