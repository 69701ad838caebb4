--------------------------- MODULE HashPollProofs ---------------------------
(***************************************************************************)
(* The safety properties of HashPoll, proved for any number of keys, any   *)
(* width of integers, any filter and any size of the map and of a.Entries. *)
(*                                                                         *)
(* The parts of the inductive invariant: how far the iterator is and what  *)
(* it has passed (Visited), the counter and what it remembers              *)
(* (CounterAddsUp), and the age of the values on their way from the map    *)
(* to the screen (Growing).                                                *)
(***************************************************************************)
EXTENDS HashPoll, NumberLemmas, TLAPS

Entry == [key : Keys, val : Values]

\* The iterator is at a key while its value is looked up and sent.
AtKey == pc \in {"lookup", "set", "send"} => mapIter.prevKey \in Keys

\* No two keys were put at the head of their lists by the same write.
Places == \A j, k \in Present : j # k => place[j] # place[k]

TypeInv == TypeOK /\ AtKey /\ Places

Int64s == (-Half)..(Half - 1)

\* Int64 gives an int64.
LEMMA Int64Type == \A v \in Values : Int64(v) \in Int64s
BY SizesAssumption DEF Values, Int64, Int64s

\* Wrap gives the int64 that differs by a multiple of 2^64.
LEMMA WrapMultiple ==
  ASSUME NEW d \in Int
  PROVE  Wrap(d) \in Int64s /\ \E q \in Int : d = Wrap(d) + q * (2 * Half)
<1> DEFINE m == 2 * Half
           q == (d + Half) \div m
<1>1. m \in Nat \ {0} /\ d + Half \in Int
  BY SizesAssumption
<1>2. (d + Half) % m \in 0..(m - 1) /\ q \in Int /\ d + Half = ((d + Half) % m) + q * m
  BY <1>1, Remainder
<1>3. Wrap(d) = ((d + Half) % m) - Half
  BY DEF Wrap
<1> HIDE DEF q
<1>4. Wrap(d) \in Int64s
  BY <1>2, <1>3, SizesAssumption DEF Int64s
<1> HIDE DEF m
<1>5. d = Wrap(d) + q * m
  <2> DEFINE n == q * m
  <2>1. n \in Int
    BY <1>1, <1>2
  <2> HIDE DEF n
  <2> QED
    BY <1>2, <1>3, <2>1, SizesAssumption DEF n
<1> QED
  BY <1>2, <1>4, <1>5 DEF m

\* And only that one.
LEMMA WrapUnique ==
  ASSUME NEW a \in Int64s, NEW q \in Int
  PROVE  Wrap(a + q * (2 * Half)) = a
<1> DEFINE m == 2 * Half
           n == q * m
<1>1. m \in Nat \ {0} /\ a + Half \in 0..(m - 1) /\ a \in Int /\ Half \in Int
  BY SizesAssumption DEF Int64s
<1>2. n \in Int
  BY <1>1
<1>3. ((a + Half) + n) % m = a + Half
  BY <1>1, RemainderUnique
<1>4. Wrap(a + n) = (((a + n) + Half) % m) - Half
  BY DEF Wrap
<1> HIDE DEF n, m
<1>5. (a + n) + Half = (a + Half) + n
  BY <1>1, <1>2
<1> QED
  BY <1>1, <1>2, <1>3, <1>4, <1>5 DEF n, m

\* Adding the wrapped difference to a series brings its sum to the new value.
LEMMA WrapAdds ==
  ASSUME NEW s \in Int, NEW c \in Int64s, NEW v \in Int64s, c = Wrap(s)
  PROVE  Wrap(s + Wrap(v - c)) = v
<1> DEFINE m == 2 * Half
<1>0. m \in Int /\ c \in Int /\ v \in Int /\ v - c \in Int /\ Wrap(v - c) \in Int
  <2>1. m \in Int /\ c \in Int /\ v \in Int /\ v - c \in Int
    BY SizesAssumption DEF Int64s
  <2>2. Wrap(v - c) \in Int64s
    BY <2>1, WrapMultiple
  <2> QED
    BY <2>1, <2>2, SizesAssumption DEF Int64s
<1>1. PICK p \in Int : s = c + p * m
  BY WrapMultiple
<1>2. PICK q \in Int : v - c = Wrap(v - c) + q * m
  BY <1>0, WrapMultiple
<1> HIDE DEF m
<1>3. s + Wrap(v - c) = v + (p - q) * m
  <2>1. (p - q) * m = p * m - q * m /\ p * m \in Int /\ q * m \in Int
    BY <1>0
  <2> QED
    BY <1>0, <1>1, <1>2, <2>1
<1> QED
  BY <1>3, WrapUnique DEF m

-----------------------------------------------------------------------------
(* Types.                                                                  *)

\* renderHash changes values, never the number of rows but by one more.
LEMMA RenderedRows ==
  ASSUME TypeOK, NEW e \in Entry
  PROVE  /\ Rendered(e) \in Seq(Entry) /\ Len(Rendered(e)) \in {Len(rows), Len(rows) + 1}
         /\ \A i \in 1..Len(rows) :
              Rendered(e)[i] = IF rows[i].key = e.key THEN e ELSE rows[i]
         /\ Len(Rendered(e)) = Len(rows) + 1 => Rendered(e)[Len(rows) + 1] = e
<1> rows \in Seq(Entry)
  BY DEF TypeOK, Entry
<1>1. CASE \E i \in 1..Len(rows) : rows[i].key = e.key
  <2> DEFINE f == [i \in 1..Len(rows) |-> IF rows[i].key = e.key THEN e ELSE rows[i]]
  <2>1. Rendered(e) = f
    BY <1>1 DEF Rendered
  <2>2. f \in Seq(Entry) /\ Len(f) = Len(rows) /\ Len(rows) \in Nat
    OBVIOUS
  <2>3. \A i \in 1..Len(rows) : f[i] = IF rows[i].key = e.key THEN e ELSE rows[i]
    OBVIOUS
  <2> HIDE DEF f
  <2>4. Len(f) # Len(rows) + 1
    BY <2>2
  <2> QED
    BY <2>1, <2>2, <2>3, <2>4
<1>2. CASE ~\E i \in 1..Len(rows) : rows[i].key = e.key
  <2>1. Rendered(e) = Append(rows, e)
    BY <1>2 DEF Rendered
  <2> QED
    BY <1>2, <2>1
<1> QED
  BY <1>1, <1>2

\* The lists put the keys in an order, so the iterator goes to the first of them.
LEMMA NextKey ==
  ASSUME TypeInv, NEW S \in SUBSET Present, S # {}
  PROVE  FirstOf(S) \in S /\ \A n \in S \ {FirstOf(S)} : Before(FirstOf(S), n)
<1> DEFINE T == {Bucket[k] : k \in S}
<1>1. S \subseteq Keys /\ T \subseteq Nat /\ T # {}
  BY BucketAssumption DEF Present
<1>2. PICK b \in T : \A c \in T : b <= c
  <2> HIDE DEF T
  <2> QED
    BY <1>1, LeastNumber
<1> DEFINE U == {k \in S : Bucket[k] = b}
           N == {writes - place[k] : k \in U}
<1>3. \A k \in S : writes - place[k] \in Nat /\ place[k] \in Nat
  BY <1>1, LimitsAssumption DEF TypeInv, TypeOK
<1>4. writes \in Nat /\ N \subseteq Nat /\ N # {}
  <2>1. PICK k \in S : b = Bucket[k]
    BY <1>2
  <2>2. writes - place[k] \in N
    BY <2>1
  <2>3. N \subseteq Nat
    BY <1>3
  <2> QED
    BY <2>2, <2>3, LimitsAssumption DEF TypeInv, TypeOK
<1>5. PICK m \in N : \A c \in N : m <= c
  <2> HIDE DEF N
  <2> QED
    BY <1>4, LeastNumber
<1>6. PICK k \in U : m = writes - place[k]
  BY <1>5
<1>7. ASSUME NEW n \in S \ {k} PROVE Before(k, n)
  <2>1. Bucket[n] \in T /\ b <= Bucket[n] /\ Bucket[n] \in Nat /\ b \in Nat /\ Bucket[k] = b
    BY <1>1, <1>2, <1>6
  <2>2. CASE Bucket[n] = b
    <3>1. m <= writes - place[n]
      BY <1>5, <2>2
    <3>2. place[k] # place[n]
      BY <1>6 DEF TypeInv, Places
    <3>3. k \in S /\ n \in S
      BY <1>6
    <3>4. place[k] \in Nat /\ place[n] \in Nat
      BY <1>3, <3>3
    <3> HIDE DEF T, U, N
    <3>5. place[k] > place[n]
      BY <1>4, <1>6, <3>1, <3>2, <3>4
    <3> QED
      BY <2>1, <2>2, <3>5 DEF Before
  <2>3. CASE Bucket[n] # b
    BY <2>1, <2>3 DEF Before
  <2> QED
    BY <2>2, <2>3
<1>8. k \in S
  BY <1>6
<1> HIDE DEF T, U, N
<1> QED
  BY <1>7, <1>8, Zenon DEF FirstOf

\* The lists are the map's: what comes after a key is in the map.
LEMMA AfterPresent == \A p : KeysAfter(p) \subseteq Present
BY DEF KeysAfter

\* An update adds its key, and puts it in front of all the others.
LEMMA UpdateTypes ==
  ASSUME TypeInv, NEW k \in Keys, NEW v \in Values, Update(k, v)
  PROVE  /\ bpfMap' \in [Keys -> Values \cup {Absent}] /\ Present' = Present \cup {k}
         /\ writes' \in 0..MaxWrites /\ place' \in [Keys -> 0..writes']
         /\ \A n \in Keys \ {k} : bpfMap'[n] = bpfMap[n] /\ place'[n] = place[n]
         /\ bpfMap'[k] = v /\ place'[k] = writes + 1 /\ \A n \in Keys : place[n] < writes + 1
         /\ Places' /\ stable' \subseteq stable
<1> USE SizesAssumption, LimitsAssumption
<1>1. /\ bpfMap \in [Keys -> Values \cup {Absent}] /\ place \in [Keys -> 0..writes]
      /\ writes \in Nat /\ MaxWrites \in Nat /\ writes < MaxWrites /\ v # Absent
  BY DEF TypeInv, TypeOK, Update, Values, Absent
<1>2. /\ bpfMap' = [bpfMap EXCEPT ![k] = v] /\ place' = [place EXCEPT ![k] = writes + 1]
      /\ writes' = writes + 1
  BY DEF Update
<1>3. bpfMap' \in [Keys -> Values \cup {Absent}] /\ Present' = Present \cup {k}
  BY <1>1, <1>2 DEF Present
<1>4. writes' \in 0..MaxWrites /\ \A n \in Keys : place[n] \in Nat /\ place[n] < writes + 1
  BY <1>1, <1>2
<1>5. place' \in [Keys -> 0..writes']
  BY <1>1, <1>2
<1>6. \A n \in Keys \ {k} : bpfMap'[n] = bpfMap[n] /\ place'[n] = place[n]
  BY <1>1, <1>2
<1>7. bpfMap'[k] = v /\ place'[k] = writes + 1
  BY <1>1, <1>2
<1>8. \A i, j \in Present \cup {k} : i # j => place'[i] # place'[j]
  <2> SUFFICES ASSUME NEW i \in Present \cup {k}, NEW j \in Present \cup {k}, i # j
               PROVE  place'[i] # place'[j]
    OBVIOUS
  <2>1. i \in Keys /\ j \in Keys
    BY DEF Present
  <2>2. CASE i = k
    BY <1>4, <1>6, <1>7, <2>1, <2>2
  <2>3. CASE j = k
    BY <1>4, <1>6, <1>7, <2>1, <2>3
  <2>4. CASE i # k /\ j # k
    BY <1>6, <2>1, <2>4 DEF TypeInv, Places
  <2> QED
    BY <2>2, <2>3, <2>4
<1>9. Places'
  BY <1>3, <1>8 DEF Places
<1>10. stable' \subseteq stable
  BY DEF Update
<1> QED
  BY <1>3, <1>4, <1>5, <1>6, <1>7, <1>9, <1>10

\* What the program writes is a u64.
LEMMA WrittenValues ==
  ASSUME TypeInv, NEW k \in Keys, ProgIncrement(k) \/ ProgDecrement(k)
  PROVE  /\ \E v \in Values : Update(k, v)
         /\ ProgIncrement(k) => Update(k, IF k \in Present THEN bpfMap[k] + 1 ELSE 1)
<1> USE SizesAssumption
<1>1. CASE ProgIncrement(k)
  <2>1. (IF k \in Present THEN bpfMap[k] + 1 ELSE 1) \in Values
    BY <1>1 DEF ProgIncrement, Values
  <2> QED
    BY <1>1, <2>1 DEF ProgIncrement
<1>2. CASE ProgDecrement(k)
  <2>1. bpfMap[k] \in Int /\ 2 * Half \in Nat \ {0}
    BY <1>2 DEF ProgDecrement, Present, Values, Absent, TypeInv, TypeOK
  <2>2. bpfMap[k] - 1 \in Int
    BY <2>1
  <2>3. (bpfMap[k] - 1) % (2 * Half) \in 0..(2 * Half - 1)
    BY <2>1, <2>2, Remainder
  <2>4. (bpfMap[k] - 1) % (2 * Half) \in Values
    BY <2>3 DEF Values
  <2>5. Update(k, (bpfMap[k] - 1) % (2 * Half))
    BY <1>2 DEF ProgDecrement
  <2>6. ProgIncrement(k) => Update(k, IF k \in Present THEN bpfMap[k] + 1 ELSE 1)
    BY DEF ProgIncrement
  <2> QED
    BY <2>4, <2>5, <2>6, Zenon
<1> QED
  BY <1>1, <1>2

\* Every step keeps the types.
LEMMA TypeStep == TypeInv /\ [Next]_vars => TypeInv'
<1> SUFFICES ASSUME TypeInv, [Next]_vars PROVE TypeInv'
  OBVIOUS
<1> USE SizesAssumption
    DEF TypeInv, AtKey, TypeOK, vars, progVars, iterVars, metricVars, displayVars, historyVars
<1>p. UNCHANGED <<bpfMap, place>> => Places'
  BY DEF Places, Present
<1>1. CASE UNCHANGED vars
  BY <1>1, <1>p
<1>2. ASSUME NEW k \in Keys, ProgIncrement(k) \/ ProgDecrement(k) PROVE TypeInv'
  <2>1. PICK v \in Values : Update(k, v)
    BY <1>2, WrittenValues
  <2>2. /\ bpfMap' \in [Keys -> Values \cup {Absent}] /\ stable' \subseteq stable
        /\ writes' \in 0..MaxWrites /\ place' \in [Keys -> 0..writes'] /\ Places'
    BY <2>1, UpdateTypes
  <2>3. lowered' \in BOOLEAN
    BY <1>2, Zenon DEF ProgIncrement, ProgDecrement
  <2>4. UNCHANGED <<iterVars, metricVars, displayVars, polled, aborted>>
    BY <2>1 DEF Update
  <2> QED
    BY <2>2, <2>3, <2>4
<1>4. ASSUME NEW k \in Keys, ProgDelete(k) PROVE TypeInv'
  <2>1. /\ bpfMap' \in [Keys -> Values \cup {Absent}] /\ writes' \in 0..MaxWrites
        /\ place' \in [Keys -> 0..writes']
    BY <1>4, LimitsAssumption DEF ProgDelete
  <2>2. Present' = Present \ {k} /\ \A n \in Keys \ {k} : place'[n] = place[n]
    BY <1>4 DEF ProgDelete, Present
  <2>3. Places'
    BY <2>2 DEF Places, Present
  <2> QED
    BY <1>4, <2>1, <2>3 DEF ProgDelete
<1>5. CASE Tick
  <2>1. mapIter' \in [prevKey : 0..NKeys, count : 0..(MapSize + 1)] /\ pc' = "next"
    BY <1>5 DEF Tick
  <2>2. polled' \subseteq Keys /\ stable' \subseteq Keys /\ aborted' \in BOOLEAN
    BY <1>5 DEF Tick, Present
  <2> QED
    BY <1>5, <1>p, <2>1, <2>2 DEF Tick
<1>6. CASE IterNextKey
  <2> DEFINE after == KeysAfter(mapIter.prevKey)
             k == FirstOf(after)
  <2>1. CASE mapIter.count > MapSize \/ after = {}
    <3>1. pc' = "select" /\ UNCHANGED mapIter
      BY <1>6, <2>1 DEF IterNextKey
    <3>2. aborted' = (mapIter.count > MapSize)
      BY <1>6, <2>1, Zenon DEF IterNextKey
    <3>3. aborted' \in BOOLEAN
      <4>1. CASE mapIter.count > MapSize
        BY <3>2, <4>1, Zenon
      <4>2. CASE ~(mapIter.count > MapSize)
        <5>1. (mapIter.count > MapSize) = FALSE
          BY <4>2
        <5> QED
          BY <3>2, <5>1, Zenon
      <4> QED
        BY <4>1, <4>2
    <3> QED
      BY <1>6, <1>p, <3>1, <3>3 DEF IterNextKey
  <2>2. CASE ~(mapIter.count > MapSize \/ after = {})
    <3>1. k \in Keys
      BY <2>2, NextKey, AfterPresent DEF Present
    <3>2. /\ mapIter' = [prevKey |-> k, count |-> mapIter.count + 1]
          /\ pc' = "lookup" /\ UNCHANGED aborted
      BY <1>6, <2>2 DEF IterNextKey
    <3> HIDE DEF k, after
    <3>3. mapIter' \in [prevKey : 0..NKeys, count : 0..(MapSize + 1)] /\ mapIter'.prevKey \in Keys
      BY <2>2, <3>1, <3>2 DEF Keys
    <3> QED
      BY <1>6, <1>p, <3>2, <3>3 DEF IterNextKey
  <2> QED
    BY <2>1, <2>2
<1>7. CASE IterLookup
  BY <1>7, <1>p DEF IterLookup, Present
<1>8. CASE InstrumentSet
  <2> DEFINE k == mapIter.prevKey
             v == Int64(value)
             diff == Wrap(v - counterMap[k])
  <2>1. k \in Keys /\ v \in Int64s
    BY <1>8, Int64Type DEF InstrumentSet
  <2>2. v \in Int /\ diff \in Int
    <3>1. v \in Int /\ v - counterMap[k] \in Int
      BY <2>1 DEF Int64s
    <3>2. diff \in Int64s
      BY <3>1, WrapMultiple
    <3> QED
      BY <3>1, <3>2 DEF Int64s
  <2> HIDE DEF v, diff
  <2>3. CASE CounterSet(k, v)
    <3>1. \/ UNCHANGED <<counterMap, series, exported, instrument>> /\ pc' = "send"
          \/ /\ counterMap' = [counterMap EXCEPT ![k] = v]
             /\ exported' = exported \cup {k}
             /\ UNCHANGED instrument
             /\ \/ pc' = "panic" /\ UNCHANGED series
                \/ pc' = "send" /\ series' = [series EXCEPT ![k] = @ + diff]
      BY <2>3 DEF CounterSet, diff
    <3>2. counterMap' \in [Keys -> Int64s]
      <4>1. counterMap \in [Keys -> Int64s]
        BY DEF Int64s
      <4> QED
        BY <2>1, <3>1, <4>1
    <3>3. series' \in [Keys -> Int]
      BY <2>1, <2>2, <3>1
    <3> QED
      BY <1>8, <1>p, <2>1, <3>1, <3>2, <3>3 DEF InstrumentSet, Int64s
  <2>4. CASE GaugeSet(k, v)
    BY <1>8, <1>p, <2>1, <2>2, <2>4 DEF InstrumentSet, GaugeSet
  <2>5. CASE NoopSet
    BY <1>8, <1>p, <2>1, <2>5 DEF InstrumentSet, NoopSet
  <2> QED
    BY <1>8, <2>3, <2>4, <2>5 DEF InstrumentSet, v
<1>9. CASE SendEntry
  <2> DEFINE e == [key |-> mapIter.prevKey, val |-> value]
  <2>1. e \in Entry /\ entries \in Seq(Entry)
    BY <1>9 DEF SendEntry, Entry
  <2>2. entries' = Append(entries, e) \/ UNCHANGED entries
    BY <1>9 DEF SendEntry
  <2> HIDE DEF e
  <2>3. Append(entries, e) \in Seq(Entry)
    BY <2>1
  <2>4. entries' \in Seq(Entry)
    BY <2>1, <2>2, <2>3
  <2> QED
    BY <1>9, <1>p, <2>4 DEF SendEntry, Entry
<1>10. CASE RenderHash
  <2>1. entries \in Seq(Entry) /\ entries # << >>
    BY <1>10 DEF RenderHash, Entry
  <2>2. Head(entries) \in Entry /\ Tail(entries) \in Seq(Entry)
    BY <2>1
  <2>3. rows' \in Seq(Entry) /\ entries' \in Seq(Entry)
    BY <1>10, <2>2, RenderedRows DEF RenderHash
  <2> QED
    BY <1>10, <1>p, <2>3 DEF RenderHash, Entry
<1> QED
  BY <1>1, <1>2, <1>4, <1>5, <1>6, <1>7, <1>8, <1>9, <1>10 DEF Next, Program, Poll

-----------------------------------------------------------------------------
(* The counter.                                                            *)

\* setCounter.Set keeps the sum of its increments equal to what it remembers.
LEMMA CounterStep == TypeInv /\ CounterAddsUp /\ [Next]_vars => CounterAddsUp'
<1> SUFFICES ASSUME TypeInv, CounterAddsUp, [Next]_vars,
                    instrument' = "counter", pc' # "panic", NEW n \in Keys
             PROVE  counterMap'[n] = Wrap(series'[n])
  BY DEF CounterAddsUp
<1> USE DEF vars, progVars, iterVars, metricVars, displayVars, historyVars
<1>1. CASE UNCHANGED <<counterMap, series>> /\ instrument = "counter" /\ pc # "panic"
  BY <1>1 DEF CounterAddsUp
<1>2. CASE InstrumentSet
  <2> DEFINE k == mapIter.prevKey
             v == Int64(value)
  <2>1. /\ pc = "set" /\ k \in Keys /\ v \in Int64s
        /\ counterMap \in [Keys -> Int64s] /\ series \in [Keys -> Int]
    BY <1>2, Int64Type DEF InstrumentSet, TypeInv, AtKey, TypeOK, Int64s
  <2> HIDE DEF v
  <2>2. instrument = "counter"
    BY <1>2 DEF InstrumentSet, CounterSet, GaugeSet, NoopSet
  <2>3. CounterSet(k, v)
    BY <1>2, <2>2 DEF InstrumentSet, v
  <2>4. counterMap[k] = Wrap(series[k]) /\ counterMap[n] = Wrap(series[n])
    BY <2>1, <2>2 DEF CounterAddsUp
  <2>5. CASE v = counterMap[k]
    BY <2>3, <2>4, <2>5 DEF CounterSet
  <2>6. CASE v # counterMap[k]
    <3>1. /\ counterMap' = [counterMap EXCEPT ![k] = v]
          /\ series' = [series EXCEPT ![k] = @ + Wrap(v - counterMap[k])]
      BY <2>3, <2>6 DEF CounterSet
    <3>2. Wrap(series[k] + Wrap(v - counterMap[k])) = v
      BY <2>1, <2>4, WrapAdds
    <3> QED
      BY <2>1, <2>4, <3>1, <3>2
  <2> QED
    BY <2>5, <2>6
<1>3. CASE [Next]_vars /\ ~InstrumentSet
  <2>1. UNCHANGED <<counterMap, series, instrument>> /\ (pc = "panic" => pc' = "panic")
    BY <1>3 DEF Next, Program, Poll, ProgIncrement, ProgDecrement, Update, ProgDelete, Tick,
       IterNextKey,
                IterLookup, SendEntry, RenderHash
  <2> QED
    BY <1>1, <2>1
<1> QED
  BY <1>2, <1>3

-----------------------------------------------------------------------------
(* The poll.                                                               *)

\* The iterator, standing on p, has passed k: k is in an earlier bucket, or p is
\* still in its list and k in front of it.
Passed(k, p) == p \in Keys /\ (Bucket[k] < Bucket[p] \/ (p \in Present /\ Before(k, p)))

\* Of the keys that have stayed in the map, those the iterator has passed have been
\* visited. When its key is removed it starts again, and when its key is updated it
\* is back at the head of the list: it has passed fewer keys then.
Visited ==
  /\ stable \subseteq Present
  /\ pc = "select" /\ ~aborted => stable \subseteq polled
  /\ pc \in {"next", "lookup", "set", "send"} =>
       \A k \in stable : Passed(k, mapIter.prevKey) => k \in polled
  /\ pc \in {"next", "send"} /\ mapIter.prevKey \in stable => mapIter.prevKey \in polled

\* An update brings no key behind the iterator but the one that passes it.
LEMMA UpdatePasses ==
  ASSUME TypeInv, NEW k \in Keys, NEW v \in Values, Update(k, v),
         NEW n \in stable', Passed(n, mapIter.prevKey)', n \in Keys
  PROVE  Passed(n, mapIter.prevKey)
<1> DEFINE p == mapIter.prevKey
<1>1. /\ Present' = Present \cup {k} /\ UNCHANGED mapIter
      /\ \A i \in Keys \ {k} : place'[i] = place[i]
      /\ place'[k] = writes + 1 /\ \A i \in Keys : place[i] < writes + 1
  BY UpdateTypes DEF Update, iterVars
<1>2. /\ p \in Keys /\ Bucket[n] \in Nat /\ Bucket[p] \in Nat
      /\ \/ Bucket[n] < Bucket[p]
         \/ p \in Present' /\ Bucket[n] = Bucket[p] /\ place'[n] > place'[p]
  BY <1>1, BucketAssumption DEF Passed, Before
<1>3. \A i \in Keys : place[i] \in Nat /\ writes \in Nat
  BY LimitsAssumption DEF TypeInv, TypeOK
<1>4. CASE Bucket[n] < Bucket[p]
  BY <1>2, <1>4 DEF Passed
<1>5. CASE p \in Present' /\ Bucket[n] = Bucket[p] /\ place'[n] > place'[p]
  <2>1. CASE p = k
    <3>1. n # k
      BY <1>1, <1>3, <1>5, <2>1
    <3> QED
      BY <1>1, <1>3, <1>5, <2>1, <3>1
  <2>2. CASE p # k /\ n = k
    <3>1. PassesIterator(k)
      BY <1>1, <1>5, <2>2 DEF PassesIterator
    <3>2. k \notin stable'
      BY <3>1 DEF Update
    <3> QED
      BY <2>2, <3>2
  <2>3. CASE p # k /\ n # k
    BY <1>1, <1>2, <1>5, <2>3 DEF Passed, Before
  <2> QED
    BY <2>1, <2>2, <2>3
<1> QED
  BY <1>2, <1>4, <1>5

\* Neither a write of the program nor a step of the poll passes over a key.
LEMMA VisitedStep == TypeInv /\ Visited /\ [Next]_vars => Visited'
<1> SUFFICES ASSUME TypeInv, Visited, [Next]_vars PROVE Visited'
  OBVIOUS
<1> USE DEF vars, progVars, iterVars, metricVars, displayVars, historyVars
<1>0. /\ Keys \subseteq Nat /\ stable \subseteq Keys /\ polled \subseteq Keys
      /\ Present \subseteq Keys
  <2>1. Keys \subseteq Nat
    BY SizesAssumption DEF Keys
  <2> QED
    BY <2>1 DEF TypeInv, TypeOK, Present
<1>p. UNCHANGED <<bpfMap, place>> => Present' = Present
  BY DEF Present
<1>1. CASE UNCHANGED vars
  <2>1. \A k \in stable : Passed(k, mapIter.prevKey)' => Passed(k, mapIter.prevKey)
    BY <1>0, <1>1 DEF Present, Passed, Before
  <2> QED
    BY <1>1, <1>p, <2>1 DEF Visited
<1>2. ASSUME NEW k \in Keys, ProgIncrement(k) \/ ProgDecrement(k) PROVE Visited'
  <2>1. PICK v \in Values : Update(k, v)
    BY <1>2, WrittenValues
  <2>2. Present' = Present \cup {k} /\ stable' \subseteq stable
    BY <2>1, UpdateTypes
  <2>3. UNCHANGED <<pc, mapIter, polled, aborted>>
    BY <2>1 DEF Update
  <2>4. \A n \in stable' : Passed(n, mapIter.prevKey)' => Passed(n, mapIter.prevKey)
    BY <1>0, <2>1, <2>2, UpdatePasses
  <2> QED
    BY <2>2, <2>3, <2>4 DEF Visited
<1>4. ASSUME NEW k \in Keys, ProgDelete(k) PROVE Visited'
  <2>1. /\ Present' = Present \ {k} /\ stable' = stable \ {k}
        /\ UNCHANGED <<pc, mapIter, polled, aborted>>
    BY <1>4 DEF ProgDelete, Present, TypeInv, TypeOK
  <2>2. \A n \in Keys \ {k} : place'[n] = place[n]
    BY <1>4 DEF ProgDelete, TypeInv, TypeOK
  <2>3. \A n \in stable' : Passed(n, mapIter.prevKey)' => Passed(n, mapIter.prevKey)
    BY <1>0, <2>1, <2>2 DEF Passed, Before
  <2> QED
    BY <2>1, <2>3 DEF Visited
<1>5. CASE Tick
  <2>1. Present' = Present /\ stable' = Present /\ pc' = "next"
    BY <1>5 DEF Tick, Present
  <2>2. mapIter'.prevKey = 0 /\ 0 \notin Keys
    BY <1>5 DEF Tick, Keys
  <2> QED
    BY <1>0, <2>1, <2>2 DEF Visited, Passed
<1>6. CASE IterNextKey
  <2> DEFINE p == mapIter.prevKey
             after == KeysAfter(p)
             k == FirstOf(after)
  <2>1. Present' = Present /\ UNCHANGED <<stable, polled, bpfMap, place>> /\ pc = "next"
    BY <1>6 DEF IterNextKey, Present
  <2>2. ASSUME NEW n \in stable, n \notin after PROVE n \in polled
    <3>1. n \in Present /\ p \in Present /\ n \in Keys /\ p \in Keys
      BY <1>0, <2>2 DEF KeysAfter, Visited
    <3>2. CASE n = p
      BY <2>1, <3>2 DEF Visited
    <3>3. CASE n # p
      <4>1. ~Before(p, n) /\ place[n] # place[p]
        BY <2>2, <3>1, <3>3 DEF KeysAfter, TypeInv, Places
      <4>2. place[n] \in Int /\ place[p] \in Int /\ Bucket[n] \in Nat /\ Bucket[p] \in Nat
        BY <3>1, BucketAssumption DEF TypeInv, TypeOK
      <4>3. Before(n, p)
        BY <4>1, <4>2 DEF Before
      <4> QED
        BY <2>1, <3>1, <4>3 DEF Visited, Passed
    <3> QED
      BY <3>2, <3>3
  <2>3. CASE mapIter.count > MapSize \/ after = {}
    <3>1. pc' = "select" /\ UNCHANGED mapIter
      BY <1>6, <2>3 DEF IterNextKey
    <3>2. aborted' = (mapIter.count > MapSize)
      BY <1>6, <2>3, Zenon DEF IterNextKey
    <3>3. ASSUME ~aborted' PROVE stable \subseteq polled
      <4>1. ~(mapIter.count > MapSize)
        BY <3>2, <3>3, Zenon
      <4> QED
        BY <2>2, <2>3, <4>1
    <3> QED
      BY <2>1, <3>1, <3>3 DEF Visited
  <2>4. CASE ~(mapIter.count > MapSize \/ after = {})
    <3>0. PICK f : f = k
      OBVIOUS
    <3>1. f \in after /\ f \in Present /\ \A n \in after \ {f} : Before(f, n)
      BY <2>4, <3>0, NextKey, AfterPresent
    <3>2. mapIter'.prevKey = f /\ pc' = "lookup"
      BY <1>6, <2>4, <3>0 DEF IterNextKey
    <3> HIDE DEF k, after
    <3>3. ASSUME NEW n \in stable, Passed(n, f) PROVE n \in polled
      <4>1. n \in Keys /\ f \in Keys
        BY <1>0, <3>1
      <4>2. /\ place[n] \in Int /\ place[f] \in Int /\ Bucket[n] \in Nat /\ Bucket[f] \in Nat
        BY <4>1, BucketAssumption DEF TypeInv, TypeOK
      <4>3. Before(n, f)
        BY <3>3 DEF Passed, Before
      <4>4. n # f /\ ~Before(f, n)
        BY <4>2, <4>3 DEF Before
      <4> QED
        BY <2>2, <3>1, <4>4
    <3>4. \A n \in stable : Passed(n, f)' => Passed(n, f)
      BY <1>0, <2>1 DEF Passed, Before
    <3>5. \A n \in stable' : Passed(n, mapIter.prevKey)' => n \in polled'
      BY <2>1, <3>2, <3>3, <3>4 DEF Passed, Before
    <3> QED
      BY <2>1, <3>2, <3>5 DEF Visited
  <2> QED
    BY <2>3, <2>4
<1>7. CASE IterLookup
  <2>1. UNCHANGED <<bpfMap, place, mapIter, stable, polled, aborted>> /\ pc = "lookup"
    BY <1>7 DEF IterLookup
  <2>2. pc' = "set" \/ (pc' = "next" /\ mapIter.prevKey \notin Present)
    BY <1>7 DEF IterLookup
  <2>3. \A k \in stable : Passed(k, mapIter.prevKey)' => Passed(k, mapIter.prevKey)
    BY <1>0, <2>1 DEF Present, Passed, Before
  <2> QED
    BY <1>p, <2>1, <2>2, <2>3 DEF Visited
<1>8. CASE InstrumentSet
  <2>1. /\ UNCHANGED <<bpfMap, place, stable, mapIter, aborted>> /\ pc = "set"
        /\ polled' = polled \cup {mapIter.prevKey}
    BY <1>8 DEF InstrumentSet
  <2>2. pc' \in {"send", "panic"}
    BY <1>8 DEF InstrumentSet, CounterSet, GaugeSet, NoopSet
  <2>3. \A k \in stable : Passed(k, mapIter.prevKey)' => Passed(k, mapIter.prevKey)
    BY <1>0, <2>1 DEF Present, Passed, Before
  <2> QED
    BY <1>p, <2>1, <2>2, <2>3 DEF Visited
<1>9. CASE SendEntry \/ RenderHash
  <2>1. /\ UNCHANGED <<bpfMap, place, stable, mapIter, aborted, polled>>
        /\ UNCHANGED pc \/ (pc = "send" /\ pc' = "next")
    BY <1>9 DEF SendEntry, RenderHash
  <2>2. \A k \in stable : Passed(k, mapIter.prevKey)' => Passed(k, mapIter.prevKey)
    BY <1>0, <2>1 DEF Present, Passed, Before
  <2> QED
    BY <1>p, <2>1, <2>2 DEF Visited
<1> QED
  BY <1>1, <1>2, <1>4, <1>5, <1>6, <1>7, <1>8, <1>9 DEF Next, Program, Poll

-----------------------------------------------------------------------------
(* The display.                                                            *)

\* As long as values only grow: what is shown of a key is no newer than what
\* waits to be shown, which is in the order it was read, and that no newer than
\* what is about to be sent, and that no newer than the map.
Sorted ==
  /\ \A i \in 1..Len(rows) : rows[i].val <= bpfMap[rows[i].key]
  /\ \A j \in 1..Len(entries) : entries[j].val <= bpfMap[entries[j].key]
  /\ \A i, j \in 1..Len(entries) :
       i < j /\ entries[i].key = entries[j].key => entries[i].val <= entries[j].val
  /\ \A i \in 1..Len(rows), j \in 1..Len(entries) :
       rows[i].key = entries[j].key => rows[i].val <= entries[j].val
  /\ pc \in {"set", "send"} =>
       /\ value <= bpfMap[mapIter.prevKey]
       /\ \A i \in 1..Len(rows) : rows[i].key = mapIter.prevKey => rows[i].val <= value
       /\ \A j \in 1..Len(entries) : entries[j].key = mapIter.prevKey => entries[j].val <= value

Growing == ~lowered => Sorted

\* Reading, sending and rendering keep entries of a key in the order of its values.
LEMMA GrowingStep == TypeInv /\ Growing /\ [Next]_vars => Growing'
<1> SUFFICES ASSUME TypeInv, Growing, [Next]_vars, ~lowered' PROVE Sorted'
  BY DEF Growing
<1> USE DEF vars, progVars, iterVars, metricVars, displayVars, historyVars
<1>0. ~lowered /\ Sorted
  BY DEF Growing, Next, Program, Poll, ProgIncrement, ProgDecrement, Update, ProgDelete, Tick,
     IterNextKey,
         IterLookup, InstrumentSet, SendEntry, RenderHash
<1>a. /\ DOMAIN bpfMap = Keys /\ \A k \in Keys : bpfMap[k] \in Int
      /\ rows \in Seq(Entry) /\ entries \in Seq(Entry) /\ value \in Int
  BY SizesAssumption DEF TypeInv, TypeOK, Entry, Values, Absent
<1>b. /\ \A i \in 1..Len(rows) : rows[i].key \in Keys /\ rows[i].val \in Int
      /\ \A i \in 1..Len(entries) : entries[i].key \in Keys /\ entries[i].val \in Int
  <2>1. \A e \in Entry : e.key \in Keys /\ e.val \in Int
    BY SizesAssumption DEF Entry, Values
  <2>2. (\A i \in 1..Len(rows) : rows[i] \in Entry)
        /\ \A i \in 1..Len(entries) : entries[i] \in Entry
    BY <1>a
  <2> QED
    BY <2>1, <2>2
<1>1. CASE UNCHANGED vars
  BY <1>0, <1>1 DEF Sorted
<1>2. ASSUME NEW k \in Keys, ProgIncrement(k) PROVE Sorted'
  <2>1. \A n \in Keys : bpfMap'[n] \in Int /\ bpfMap[n] <= bpfMap'[n]
    <3>1. ProgIncrement(k) /\ Update(k, IF k \in Present THEN bpfMap[k] + 1 ELSE 1)
      BY <1>2 DEF ProgIncrement
    <3>2. bpfMap' = [bpfMap EXCEPT ![k] = IF k \in Present THEN bpfMap[k] + 1 ELSE 1]
      BY <3>1 DEF Update
    <3> QED
      BY <1>a, <3>2 DEF Present, Absent
  <2>2. UNCHANGED <<iterVars, displayVars>>
    BY <1>2 DEF ProgIncrement, Update
  <2>3. pc \in {"set", "send"} => mapIter.prevKey \in Keys
    BY DEF TypeInv, AtKey
  <2> QED
    BY <1>0, <1>a, <1>b, <2>1, <2>2, <2>3 DEF Sorted
<1>3. ASSUME NEW k \in Keys, ProgDecrement(k) \/ ProgDelete(k) PROVE FALSE
  BY <1>3 DEF ProgDecrement, ProgDelete
<1>5. CASE Tick \/ IterNextKey
  <2>1. pc' \in {"next", "select", "lookup"} /\ UNCHANGED <<bpfMap, rows, entries>>
    BY <1>5 DEF Tick, IterNextKey
  <2> QED
    BY <1>0, <2>1 DEF Sorted
<1>7. CASE IterLookup
  <2>1. UNCHANGED <<bpfMap, rows, entries,
  mapIter>> /\ (pc' = "next" \/ value' = bpfMap[mapIter.prevKey])
    BY <1>7 DEF IterLookup
  <2>2. pc' \in {"next", "set"} /\ (pc' = "set" => mapIter.prevKey \in Keys)
    BY <1>7 DEF IterLookup, Present
  <2> QED
    BY <1>0, <1>a, <1>b, <2>1, <2>2 DEF Sorted
<1>8. CASE InstrumentSet
  BY <1>0, <1>8 DEF InstrumentSet, Sorted
<1>9. CASE SendEntry
  <2> DEFINE e == [key |-> mapIter.prevKey, val |-> value]
             n == Len(entries)
  <2>0. mapIter.prevKey \in Keys /\ e \in Entry /\ e.key = mapIter.prevKey /\ e.val = value
        /\ n \in Nat
    BY <1>9, <1>a DEF SendEntry, TypeInv, AtKey, TypeOK, Entry
  <2>1. UNCHANGED <<bpfMap, rows, mapIter, value>> /\ pc = "send" /\ pc' = "next"
    BY <1>9 DEF SendEntry
  <2>2. entries' = Append(entries, e) \/ UNCHANGED entries
    BY <1>9 DEF SendEntry
  <2>3. CASE UNCHANGED entries
    BY <1>0, <2>1, <2>3 DEF Sorted
  <2>4. CASE entries' = Append(entries, e)
    <3> HIDE DEF e
    <3>1. Len(entries') = n + 1 /\ entries'[n + 1] = e /\ \A i \in 1..n : entries'[i] = entries[i]
      BY <1>a, <2>0, <2>4
    <3> HIDE DEF n
    <3>2. \A j \in 1..(n + 1) : j \in 1..n \/ j = n + 1
      BY <2>0
    <3>3. ASSUME NEW j \in 1..(n + 1)
          PROVE  /\ entries'[j].val <= bpfMap[entries'[j].key]
                 /\ \A i \in 1..Len(rows) : rows[i].key = entries'[j].key
                       => rows[i].val <= entries'[j].val
                 /\ \A i \in 1..n : i < j /\ entries'[i].key = entries'[j].key
                       => entries'[i].val <= entries'[j].val
      <4>1. CASE j \in 1..n
        BY <1>0, <3>1, <4>1 DEF Sorted, n
      <4>2. CASE j = n + 1
        BY <1>0, <2>0, <2>1, <3>1, <4>2 DEF Sorted, n
      <4> QED
        BY <3>2, <4>1, <4>2
    <3>4. ASSUME NEW i \in 1..(n + 1), NEW j \in 1..(n + 1), i < j PROVE i \in 1..n
      BY <2>0, <3>4
    <3> QED
      BY <1>0, <2>1, <3>1, <3>3, <3>4 DEF Sorted
  <2> QED
    BY <2>2, <2>3, <2>4
<1>10. CASE RenderHash
  <2> DEFINE e == entries[1]
             n == Len(entries)
             l == Len(rows)
  <2>1. /\ UNCHANGED <<bpfMap, pc, mapIter, value>> /\ entries # << >>
        /\ rows' = Rendered(Head(entries)) /\ entries' = Tail(entries)
    BY <1>10 DEF RenderHash
  <2>2. n \in Nat /\ l \in Nat /\ n >= 1 /\ e \in Entry /\ Head(entries) = e
    BY <1>a, <2>1
  <2>3. Len(entries') = n - 1 /\ \A j \in 1..(n - 1) : entries'[j] = entries[j + 1]
    BY <1>a, <2>1
  <2>4. \A i \in 1..Len(rows') : rows'[i] = e \/ (i \in 1..l /\ rows'[i] = rows[i])
    <3>1. /\ Len(rows') \in {l, l + 1}
          /\ \A i \in 1..l : rows'[i] = IF rows[i].key = e.key THEN e ELSE rows[i]
          /\ Len(rows') = l + 1 => rows'[l + 1] = e
      BY <2>1, <2>2, RenderedRows DEF TypeInv
    <3>a. \A i \in 1..l : rows'[i] = e \/ rows'[i] = rows[i]
      BY <3>1, Zenon
    <3> HIDE DEF e, l
    <3>2. \A i \in 1..Len(rows') : i \in 1..l \/ (i = l + 1 /\ Len(rows') = l + 1)
      BY <2>2, <3>1
    <3>3. ASSUME NEW i \in 1..Len(rows') PROVE rows'[i] = e \/ (i \in 1..l /\ rows'[i] = rows[i])
      <4>1. CASE i \in 1..l
        BY <3>a, <4>1, Zenon
      <4>2. CASE i = l + 1 /\ Len(rows') = l + 1
        BY <3>1, <4>2, Zenon
      <4> QED
        BY <3>2, <4>1, <4>2
    <3> QED
      BY <3>3
  <2>5. \A j \in 1..(n - 1) : j + 1 \in 1..n /\ 1 < j + 1
    BY <2>2
  <2>6. 1 \in 1..n
    BY <2>2
  <2>7. ASSUME NEW i \in 1..Len(rows')
        PROVE  /\ rows'[i].val <= bpfMap[rows'[i].key]
               /\ \A j \in 1..(n - 1) : rows'[i].key = entries'[j].key
                     => rows'[i].val <= entries'[j].val
               /\ pc \in {"set", "send"} /\ rows'[i].key = mapIter.prevKey => rows'[i].val <= value
    <3>1. CASE rows'[i] = e
      BY <1>0, <2>3, <2>5, <2>6, <3>1 DEF Sorted
    <3>2. CASE i \in 1..l /\ rows'[i] = rows[i]
      BY <1>0, <2>3, <2>5, <3>2 DEF Sorted
    <3> QED
      BY <2>4, <3>1, <3>2
  <2>8. \A j \in 1..(n - 1) :
          /\ entries'[j].val <= bpfMap[entries'[j].key]
          /\ pc \in {"set", "send"} /\ entries'[j].key = mapIter.prevKey => entries'[j].val <= value
    BY <1>0, <2>3, <2>5 DEF Sorted
  <2>9. ASSUME NEW i \in 1..(n - 1), NEW j \in 1..(n - 1), i < j, entries'[i].key = entries'[j].key
        PROVE  entries'[i].val <= entries'[j].val
    <3>1. i + 1 \in 1..n /\ j + 1 \in 1..n /\ i + 1 < j + 1
      BY <2>2, <2>9
    <3>2. entries'[i] = entries[i + 1] /\ entries'[j] = entries[j + 1]
      BY <2>3
    <3> HIDE DEF n
    <3> QED
      BY <1>0, <2>9, <3>1, <3>2 DEF Sorted, n
  <2> QED
    BY <1>0, <2>1, <2>3, <2>7, <2>8, <2>9 DEF Sorted
<1> QED
  BY <1>1, <1>2, <1>3, <1>5, <1>7, <1>8, <1>9, <1>10 DEF Next, Program, Poll

-----------------------------------------------------------------------------
Inv == TypeInv /\ CounterAddsUp /\ Visited /\ Growing

\* Before the first tick the map, the metrics and the screen are empty.
LEMMA InitInv == Init => Inv
<1> SUFFICES ASSUME Init PROVE Inv
  OBVIOUS
<1>1. TypeInv
  <2> USE SizesAssumption, LimitsAssumption DEF Init
  <2>1. /\ bpfMap \in [Keys -> Values \cup {Absent}] /\ writes \in 0..MaxWrites
        /\ value \in Values /\ place \in [Keys -> 0..writes] /\ Places
    BY DEF Values, Places, Present
  <2>2. /\ mapIter \in [prevKey : 0..NKeys, count : 0..(MapSize + 1)]
        /\ counterMap \in [Keys -> (-Half)..(Half - 1)]
    OBVIOUS
  <2>3. lowered \in BOOLEAN /\ aborted \in BOOLEAN
    BY Zenon
  <2> QED
    BY <2>1, <2>2, <2>3 DEF TypeInv, TypeOK, AtKey
<1>2. CounterAddsUp
  <2>1. Wrap(0) = 0
    BY SizesAssumption DEF Wrap
  <2> QED
    BY <2>1 DEF Init, CounterAddsUp
<1>3. Visited
  BY DEF Init, Visited
<1>4. Growing
  BY DEF Init, Growing, Sorted
<1> QED
  BY <1>1, <1>2, <1>3, <1>4 DEF Inv

\* The invariant behind the theorems is inductive.
LEMMA Inductive == Spec => []Inv
<1>1. Inv /\ [Next]_vars => Inv'
  BY TypeStep, CounterStep, VisitedStep, GrowingStep DEF Inv
<1> QED
  BY <1>1, InitInv, PTL DEF Spec

\* The iterator gives up after MapSize + 1 keys however often it starts again, and
\* what the instruments are given and remember is an int64.
THEOREM TypeCorrect == Spec => []TypeOK
<1>1. Inv => TypeOK
  BY DEF Inv, TypeInv
<1> QED
  BY <1>1, Inductive, PTL

\* A counter that has not panicked has been given, modulo 2^64, exactly the value
\* it remembers, for integers of any width and any sequence of polls.
THEOREM CounterSumsDifferences == Spec => []CounterAddsUp
<1>1. Inv => CounterAddsUp
  BY DEF Inv
<1> QED
  BY <1>1, Inductive, PTL

\* A poll that the iterator did not abort has visited every key that was in the map
\* from its tick to its end, whatever else was removed, inserted and updated
\* meanwhile, and unless an update moved it in front of the iterator's key.
THEOREM NoKeyMissed == Spec => []PollIsComplete
<1>1. Inv => PollIsComplete
  BY DEF Inv, Visited, PollIsComplete
<1> QED
  BY <1>1, Inductive, PTL

\* While the program only counts up, renderHash never shows a lower value than it
\* has shown, nor moves a row, although three goroutines pass the values on.
THEOREM RowsOnlyGrow == Spec => DisplayNeverGoesBack
<1> DEFINE Grows == ~lowered => \A i \in 1..Len(rows) :
                      rows'[i].key = rows[i].key /\ rows'[i].val >= rows[i].val
<1>1. Inv /\ [Next]_vars => [Grows]_vars
  <2> SUFFICES ASSUME Inv, [Next]_vars, ~lowered, NEW i \in 1..Len(rows)
               PROVE  rows'[i].key = rows[i].key /\ rows'[i].val >= rows[i].val
    OBVIOUS
  <2> USE DEF vars, progVars, iterVars, metricVars, displayVars, historyVars
  <2>0. rows \in Seq(Entry) /\ entries \in Seq(Entry)
    BY DEF Inv, TypeInv, TypeOK, Entry
  <2>1. rows[i].val \in Int
    <3>1. rows[i] \in Entry
      BY <2>0
    <3> QED
      BY <3>1, SizesAssumption DEF Entry, Values
  <2>2. CASE UNCHANGED rows
    BY <2>1, <2>2
  <2>3. CASE RenderHash
    <3> DEFINE e == entries[1]
    <3>1. e \in Entry /\ Head(entries) = e /\ 1 \in 1..Len(entries)
      BY <2>0, <2>3 DEF RenderHash
    <3>2. rows'[i] = IF rows[i].key = e.key THEN e ELSE rows[i]
      BY <2>3, <3>1, RenderedRows DEF RenderHash, Inv, TypeInv
    <3>3. rows[i].key = e.key => rows[i].val <= e.val
      BY <3>1 DEF Inv, Growing, Sorted
    <3>4. e.val \in Int
      BY <3>1, SizesAssumption DEF Entry, Values
    <3> HIDE DEF e
    <3> QED
      BY <2>1, <3>2, <3>3, <3>4
  <2>4. UNCHANGED rows \/ RenderHash
    BY DEF Next, Program, Poll, ProgIncrement, ProgDecrement, Update, ProgDelete, Tick, IterNextKey,
           IterLookup, InstrumentSet, SendEntry
  <2> QED
    BY <2>2, <2>3, <2>4
<1> QED
  BY <1>1, Inductive, PTL DEF Spec, DisplayNeverGoesBack
=============================================================================
