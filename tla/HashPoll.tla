------------------------------ MODULE HashPoll ------------------------------
(***************************************************************************)
(* One hash map from the kernel to the metric and the screen.              *)
(*                                                                         *)
(* A BPF program writes the map while startHashMap (pkg/loader/loader.go)  *)
(* polls it once per tick, one key at a time; for every key it calls the   *)
(* instrument (pkg/stats/stats.go) and SendEntry, and renderHash           *)
(* (pkg/tui/tui.go) turns the entries into rows. The program, the poll and *)
(* the display run concurrently.                                           *)
(*                                                                         *)
(* The kernel keeps the elements of a hash in the lists of its buckets. An *)
(* update replaces the element: the key comes to the head of its list, be  *)
(* it new or not. Values are the u64 of the map, read by the instruments   *)
(* as int64: Half stands for 2^63. Hashes of keys (hashstructure) are      *)
(* taken to be distinct.                                                   *)
(***************************************************************************)
EXTENDS Integers, Sequences, FiniteSets

CONSTANTS
  NKeys,          \* how many different keys the program uses
  Bucket,         \* Bucket[k]: the number of the kernel's bucket for k
  ProgramOps,     \* what the program does: "increment", "decrement", "delete"
  Half,           \* 2^63: a u64 of Half or more is a negative int64
  Instruments,    \* the instruments the map may have: "counter", "gauge", "noop"
  Matching,       \* the keys the map's filter lets through; all without one
  MapSize,        \* max_entries of the map
  EntriesCap,     \* capacity of a.Entries: 20 in the code
  MaxWrites       \* bound: writes of the program in a behaviour

Keys == 1..NKeys
Values == 0..(2 * Half - 1)

ASSUME SizesAssumption == NKeys \in Nat /\ Half \in Nat \ {0} /\ MapSize \in Nat
ASSUME BucketAssumption == Bucket \in [Keys -> Nat]
ASSUME InstrumentsAssumption == Instruments \subseteq {"counter", "gauge", "noop"}
ASSUME FilterAssumption == Matching \subseteq Keys
ASSUME LimitsAssumption == EntriesCap \in Nat \ {0} /\ MaxWrites \in Nat

VARIABLES
  bpfMap,         \* the contents of the map in the kernel, or Absent
  place,          \* the number of the write that put a key at the head of its list
  writes,         \* how many writes the program has made
  pc,             \* "select", "next", "lookup", "set", "send" or "panic"
  mapIter,        \* the iterator: the previous key (0: none) and the count
  value,          \* the value looked up for the previous key
  instrument,     \* the instrument WatchMaps chose by the section of the map
  counterMap,     \* setCounter.counterMap, 0 where it has no entry
  exported,       \* the keys that have a series in the Prometheus registry
  series,         \* the value of each series; 0 where there is none
  entries,        \* a.Entries
  rows,           \* current.Entries of the table: a key and its value
  polled,         \* history: the keys visited since the last tick
  stable,         \* history: the keys in the map ever since the last tick, but
                  \* for those that were put in front of the iterator's key
  lowered,        \* history: the program has lowered a value or removed a key
  aborted         \* history: the last iteration ended with ErrIterationAborted

progVars    == <<bpfMap, place, writes>>
iterVars    == <<pc, mapIter, value>>
metricVars  == <<instrument, counterMap, exported, series>>
displayVars == <<entries, rows>>
historyVars == <<polled, stable, lowered, aborted>>
vars == <<progVars, iterVars, metricVars, displayVars, historyVars>>

Absent == -1

Present == {k \in Keys : bpfMap[k] # Absent}

Init ==
  /\ bpfMap = [k \in Keys |-> Absent]
  /\ place = [k \in Keys |-> 0]
  /\ writes = 0
  /\ pc = "select"
  /\ mapIter = [prevKey |-> 0, count |-> 0]
  /\ value = 0
  /\ instrument \in Instruments
  /\ counterMap = [k \in Keys |-> 0]
  /\ exported = {}
  /\ series = [k \in Keys |-> 0]
  /\ entries = << >>
  /\ rows = << >>
  /\ polled = {}
  /\ stable = {}
  /\ lowered = FALSE
  /\ aborted = FALSE

-----------------------------------------------------------------------------
(* The BPF program.                                                        *)

\* The iterator stands on another key of the list: k gets in front of it.
PassesIterator(k) ==
  mapIter.prevKey \in Present \ {k} /\ Bucket[mapIter.prevKey] = Bucket[k]

\* bpf_map_update_elem
Update(k, v) ==
  /\ writes < MaxWrites
  /\ k \in Present \/ Cardinality(Present) < MapSize
  /\ bpfMap' = [bpfMap EXCEPT ![k] = v]
  /\ place' = [place EXCEPT ![k] = writes + 1]
  /\ writes' = writes + 1
  /\ stable' = IF PassesIterator(k) THEN stable \ {k} ELSE stable
  /\ UNCHANGED <<iterVars, metricVars, displayVars, polled, aborted>>

\* A counting program adds one to the key's value, starting a new key at one.
ProgIncrement(k) ==
  /\ "increment" \in ProgramOps
  /\ bpfMap[k] + 1 \in Values
  /\ Update(k, IF k \in Present THEN bpfMap[k] + 1 ELSE 1)
  /\ UNCHANGED lowered

\* Others lower a value by one, modulo 2^64.
ProgDecrement(k) ==
  /\ "decrement" \in ProgramOps
  /\ k \in Present
  /\ Update(k, (bpfMap[k] - 1) % (2 * Half))
  /\ lowered' = TRUE

\* Or they remove a key.
ProgDelete(k) ==
  /\ "delete" \in ProgramOps
  /\ writes < MaxWrites
  /\ k \in Present
  /\ bpfMap' = [bpfMap EXCEPT ![k] = Absent]
  /\ place' = [place EXCEPT ![k] = 0]
  /\ writes' = writes + 1
  /\ stable' = stable \ {k}
  /\ lowered' = TRUE
  /\ UNCHANGED <<iterVars, metricVars, displayVars, polled, aborted>>

-----------------------------------------------------------------------------
(* The poll.                                                               *)

\* Mutant: the iterator is made once, before the loop.
TickSameIterator ==
  /\ pc = "select"
  /\ pc' = "next"
  /\ polled' = {}
  /\ stable' = Present
  /\ aborted' = FALSE
  /\ UNCHANGED <<progVars, mapIter, value, metricVars, displayVars, lowered>>

\* A tick: a new iterator.
Tick ==
  /\ pc = "select"
  /\ pc' = "next"
  /\ mapIter' = [prevKey |-> 0, count |-> 0]
  /\ polled' = {}
  /\ stable' = Present
  /\ aborted' = FALSE
  /\ UNCHANGED <<progVars, value, metricVars, displayVars, lowered>>

\* The order of the kernel's lists: bucket by bucket, and in a bucket the key
\* that was written last comes first.
Before(j, k) ==
  \/ Bucket[j] < Bucket[k]
  \/ Bucket[j] = Bucket[k] /\ place[j] > place[k]

\* The kernel's get_next_key starts again from the first key when the
\* previous one has been removed.
KeysAfter(k) == IF k \in Present THEN {n \in Present : Before(k, n)} ELSE Present

FirstOf(S) == CHOOSE k \in S : \A n \in S \ {k} : Before(k, n)

\* The first half of MapIterator.Next: the next key, if there is one. After
\* MapSize + 1 keys Next is false because of ErrIterationAborted, which the
\* caller looks at only after Next was true.
IterNextKey ==
  /\ pc = "next"
  /\ LET after == KeysAfter(mapIter.prevKey) IN
     IF mapIter.count > MapSize \/ after = {}
       THEN /\ pc' = "select"
            /\ aborted' = (mapIter.count > MapSize)
            /\ UNCHANGED mapIter
       ELSE /\ pc' = "lookup"
            /\ mapIter' = [prevKey |-> FirstOf(after), count |-> mapIter.count + 1]
            /\ UNCHANGED aborted
  /\ UNCHANGED <<progVars, value, metricVars, displayVars, polled, stable, lowered>>

\* The second half: the lookup of its value. A key removed in between is skipped.
IterLookup ==
  /\ pc = "lookup"
  /\ LET k == mapIter.prevKey IN
     IF k \in Present
       THEN pc' = "set" /\ value' = bpfMap[k]
       ELSE pc' = "next" /\ UNCHANGED value
  /\ UNCHANGED <<progVars, mapIter, metricVars, displayVars, historyVars>>

\* Mutant: no conversion.
Int64AsIs(v) == v

\* int64(intVal), and a difference of two int64.
Int64(v) == IF v < Half THEN v ELSE v - 2 * Half
Wrap(d) == ((d + Half) % (2 * Half)) - Half

\* Mutant: the previous value is not remembered.
CounterSetForgets(k, v) ==
  LET diff == Wrap(v - counterMap[k]) IN
  /\ UNCHANGED <<instrument, counterMap>>
  /\ exported' = exported \cup {k}
  /\ IF diff < 0
       THEN pc' = "panic" /\ UNCHANGED series
       ELSE pc' = "send" /\ series' = [series EXCEPT ![k] = @ + diff]

\* setCounter.Set: nothing when the value is the same; otherwise With makes
\* the series of the labels, and Add panics when the difference is negative.
CounterSet(k, v) ==
  LET diff == Wrap(v - counterMap[k]) IN
  IF v = counterMap[k]
    THEN pc' = "send" /\ UNCHANGED metricVars
    ELSE /\ counterMap' = [counterMap EXCEPT ![k] = v]
         /\ exported' = exported \cup {k}
         /\ IF diff < 0
              THEN pc' = "panic" /\ UNCHANGED series
              ELSE pc' = "send" /\ series' = [series EXCEPT ![k] = @ + diff]
         /\ UNCHANGED instrument

\* Mutant: a gauge that is set once only.
GaugeSetOnce(k, v) ==
  /\ series' = IF k \in exported THEN series ELSE [series EXCEPT ![k] = v]
  /\ exported' = exported \cup {k}
  /\ pc' = "send"
  /\ UNCHANGED <<instrument, counterMap>>

\* gauge.Set
GaugeSet(k, v) ==
  /\ series' = [series EXCEPT ![k] = v]
  /\ exported' = exported \cup {k}
  /\ pc' = "send"
  /\ UNCHANGED <<instrument, counterMap>>

NoopSet == pc' = "send" /\ UNCHANGED metricVars

\* instrument.Set(ctx, int64(intVal), stringLabels)
InstrumentSet ==
  /\ pc = "set"
  /\ LET k == mapIter.prevKey
         v == Int64(value) IN
     \/ instrument = "counter" /\ CounterSet(k, v)
     \/ instrument = "gauge" /\ GaugeSet(k, v)
     \/ instrument = "noop" /\ NoopSet
  /\ polled' = polled \cup {mapIter.prevKey}
  /\ UNCHANGED <<progVars, mapIter, value, displayVars, stable, lowered, aborted>>

\* Mutant: every entry is sent by a goroutine of its own, so one may overtake
\* another.
SendEntryUnordered ==
  /\ pc = "send"
  /\ LET k == mapIter.prevKey IN
     IF k \in Matching
       THEN /\ Len(entries) < EntriesCap
            /\ entries' = <<[key |-> k, val |-> value]>> \o entries
       ELSE UNCHANGED entries
  /\ pc' = "next"
  /\ UNCHANGED <<progVars, mapIter, value, metricVars, rows, historyVars>>

\* SendEntry: an entry the filter refuses is dropped; the others wait for room.
SendEntry ==
  /\ pc = "send"
  /\ LET k == mapIter.prevKey IN
     IF k \in Matching
       THEN /\ Len(entries) < EntriesCap
            /\ entries' = Append(entries, [key |-> k, val |-> value])
       ELSE UNCHANGED entries
  /\ pc' = "next"
  /\ UNCHANGED <<progVars, mapIter, value, metricVars, rows, historyVars>>

-----------------------------------------------------------------------------
(* The display.                                                            *)

\* Mutant: a row that is never updated.
RenderedOnce(e) == IF \E i \in 1..Len(rows) : rows[i].key = e.key THEN rows ELSE Append(rows, e)

\* renderHash updates the row of the key, or appends one.
Rendered(e) ==
  IF \E i \in 1..Len(rows) : rows[i].key = e.key
    THEN [i \in 1..Len(rows) |-> IF rows[i].key = e.key THEN e ELSE rows[i]]
    ELSE Append(rows, e)

RenderHash ==
  /\ pc # "panic"
  /\ entries # << >>
  /\ rows' = Rendered(Head(entries))
  /\ entries' = Tail(entries)
  /\ UNCHANGED <<progVars, iterVars, metricVars, historyVars>>

Program == \E k \in Keys : ProgIncrement(k) \/ ProgDecrement(k) \/ ProgDelete(k)
Poll == Tick \/ IterNextKey \/ IterLookup \/ InstrumentSet \/ SendEntry

Next == Program \/ Poll \/ RenderHash

Spec == Init /\ [][Next]_vars

\* The ticker fires for ever, and the goroutines that can go on do.
FairSpec == Spec /\ WF_vars(Poll) /\ WF_vars(RenderHash)

-----------------------------------------------------------------------------
(* Properties.                                                             *)

\* The range of every variable: in particular the iterator never goes beyond
\* MapSize + 1 keys, and what counterMap keeps is an int64.
TypeOK ==
  /\ bpfMap \in [Keys -> Values \cup {Absent}]
  /\ writes \in 0..MaxWrites /\ place \in [Keys -> 0..writes]
  /\ pc \in {"select", "next", "lookup", "set", "send", "panic"}
  /\ mapIter \in [prevKey : 0..NKeys, count : 0..(MapSize + 1)]
  /\ value \in Values
  /\ instrument \in Instruments
  /\ counterMap \in [Keys -> (-Half)..(Half - 1)]
  /\ exported \subseteq Keys
  /\ series \in [Keys -> Int]
  /\ entries \in Seq([key : Keys, val : Values])
  /\ rows \in Seq([key : Keys, val : Values])
  /\ polled \subseteq Keys /\ stable \subseteq Keys
  /\ lowered \in BOOLEAN /\ aborted \in BOOLEAN

\* The increments handed to the Prometheus counter add up, modulo 2^64, to the
\* value counterMap remembers: a key that is polled again is not counted twice,
\* not even when its value has crossed 2^63 and int64 is negative.
CounterAddsUp ==
  instrument = "counter" /\ pc # "panic" =>
    \A k \in Keys : counterMap[k] = Wrap(series[k])

\* A poll that was not aborted visited every key that stayed in the map from
\* its tick to its end, whatever the program inserted, updated and removed
\* meanwhile, but for a key of the bucket the iterator was in that an update put
\* in front of the iterator's key: that one waits for the next tick.
PollIsComplete == pc = "select" /\ ~aborted => stable \subseteq polled

\* While the program has only counted up, a displayed value never goes down and a
\* row never moves, although values are read, sent and rendered at different times.
DisplayNeverGoesBack ==
  [][~lowered => \A i \in 1..Len(rows) :
       rows'[i].key = rows[i].key /\ rows'[i].val >= rows[i].val]_vars

\* Once the program is quiet, the table has one row for each key of the map that
\* the filter lets through, with the value in the map, and keeps it: the last
\* update is never the one that is lost, and no older row of a key remains.
DisplayCatchesUp ==
  <>[](pc = "panic" \/ \A k \in Present \cap Matching :
         \E i \in 1..Len(rows) :
           /\ rows[i] = [key |-> k, val |-> bpfMap[k]]
           /\ \A j \in 1..Len(rows) : rows[j].key = k => j = i)

\* Once the program is quiet, the series of every key reaches the value in the
\* map and stays there. A counter has no series for a value that was always 0.
MetricCatchesUp ==
  <>[](pc = "panic" \/ instrument = "noop" \/ \A k \in Present :
         /\ Wrap(series[k]) = Int64(bpfMap[k])
         /\ k \in exported \/ (instrument = "counter" /\ bpfMap[k] = 0))

-----------------------------------------------------------------------------
(* What the documentation and the code's own checks say.                   *)

\* docs/concepts.md: a hash map, whose entries can be removed and made again,
\* may be in a counter section. (Checked with a program that only adds and removes,
\* and with values far below 2^63.)
CounterWorks == pc # "panic"
=============================================================================
