------------------------- MODULE ExampleProgsProofs -------------------------
(***************************************************************************)
(* The safety properties of ExampleProgs, proved for any number of threads *)
(* and sockets, any addresses and any sizes of the maps and of the ring    *)
(* buffer.                                                                 *)
(*                                                                         *)
(* The parts of the inductive invariant: the ring buffer (RingInv), the    *)
(* entries of calls in progress (Pairs), the locks of the sockets          *)
(* (Alone), the entries of sockets in tcpconnlat (Latency), and the        *)
(* counts while no two updates overlap (ExactAlone).                       *)
(***************************************************************************)
EXTENDS ExampleProgs, FiniteSetTheorems, NumberLemmas, TLAPS

\* The programs that keep an entry from a call to its return, under the thread.
Pairing == {"tcpconnect", "activeconn", "opensnoop"}

-----------------------------------------------------------------------------
(* The maps.                                                               *)

\* An update changes the entry of its key only, and never makes the map too large.
LEMMA Update ==
  ASSUME NEW m, NEW k, NEW v, NEW max \in Nat,
         IsFiniteSet(DOMAIN m), Cardinality(DOMAIN m) <= max
  PROVE  LET n == MapUpdate(m, k, v, max) IN
         /\ IsFiniteSet(DOMAIN n) /\ Cardinality(DOMAIN n) <= max
         /\ DOMAIN m \subseteq DOMAIN n /\ DOMAIN n \subseteq DOMAIN m \cup {k}
         /\ \A x \in DOMAIN m : x # k => n[x] = m[x]
         /\ k \in DOMAIN n => n[k] = v
         /\ Room(m, k, max) => k \in DOMAIN n
<1> DEFINE n == MapUpdate(m, k, v, max)
<1>1. CASE ~Room(m, k, max)
  BY <1>1 DEF MapUpdate, Room
<1>2. CASE Room(m, k, max)
  <2>1. n = Put(m, k, v)
    BY <1>2 DEF MapUpdate
  <2>2. DOMAIN n = DOMAIN m \cup {k} /\ n[k] = v /\ \A x \in DOMAIN m : x # k => n[x] = m[x]
    BY <2>1 DEF Put
  <2>3. IsFiniteSet(DOMAIN m \cup {k}) /\ Cardinality(DOMAIN m \cup {k}) <= max
    <3>1. CASE k \in DOMAIN m
      <4>1. DOMAIN m \cup {k} = DOMAIN m
        BY <3>1
      <4> QED
        BY <4>1
    <3>2. CASE k \notin DOMAIN m
      <4>1. Cardinality(DOMAIN m) < max /\ Cardinality(DOMAIN m) \in Nat
        BY <1>2, <3>2, FS_CardinalityType DEF Room
      <4>2. /\ IsFiniteSet(DOMAIN m \cup {k})
            /\ Cardinality(DOMAIN m \cup {k}) = Cardinality(DOMAIN m) + 1
        BY <3>2, FS_AddElement
      <4> QED
        BY <4>1, <4>2
    <3> QED
      BY <3>1, <3>2
  <2> QED
    BY <2>2, <2>3
<1> QED
  BY <1>1, <1>2

\* A deletion removes the entry of its key only.
LEMMA Delete ==
  ASSUME NEW m, NEW k, NEW max \in Nat, IsFiniteSet(DOMAIN m), Cardinality(DOMAIN m) <= max
  PROVE  LET n == MapDelete(m, k) IN
         /\ IsFiniteSet(DOMAIN n) /\ Cardinality(DOMAIN n) <= max
         /\ DOMAIN n = DOMAIN m \ {k}
         /\ \A x \in DOMAIN n : n[x] = m[x]
<1> DEFINE n == MapDelete(m, k)
<1>1. DOMAIN n = DOMAIN m \ {k} /\ \A x \in DOMAIN n : n[x] = m[x]
  BY DEF MapDelete
<1>2. /\ IsFiniteSet(DOMAIN m \ {k}) /\ Cardinality(DOMAIN m) \in Nat
      /\ Cardinality(DOMAIN m \ {k}) \in {Cardinality(DOMAIN m), Cardinality(DOMAIN m) - 1}
  BY FS_RemoveElement, FS_CardinalityType
<1> QED
  BY <1>1, <1>2

-----------------------------------------------------------------------------
(* The ring buffer.                                                        *)

Record == [owner : Threads, busy : BOOLEAN]

RingInv == ring \in Seq(Record) /\ Len(ring) <= RingSize

\* Records are reserved where there is room, and submitted where they are.
LEMMA RingStep == RingInv /\ [Next]_vars => RingInv'
<1> SUFFICES ASSUME RingInv, [Next]_vars PROVE RingInv'
  OBVIOUS
<1>1. CASE UNCHANGED ring
  BY <1>1 DEF RingInv
<1>2. ASSUME NEW t \in Threads, RingHasRoom, RingReserve(t) PROVE RingInv'
  <2> DEFINE e == [owner |-> t, busy |-> TRUE]
  <2>1. e \in Record
    BY DEF Record
  <2>2. ring' = Append(ring, e) /\ Len(ring) < RingSize
    BY <1>2 DEF RingReserve, RingHasRoom
  <2> HIDE DEF e
  <2>3. ring' \in Seq(Record) /\ Len(ring') = Len(ring) + 1 /\ Len(ring) \in Nat
    BY <2>1, <2>2 DEF RingInv
  <2> QED
    BY <2>2, <2>3, SizesAssumption DEF RingInv
<1>3. ASSUME NEW t \in Threads, RingSubmit(t) PROVE RingInv'
  <2> DEFINE f(i) == IF ring[i].owner = t THEN [ring[i] EXCEPT !.busy = FALSE] ELSE ring[i]
  <2>1. DOMAIN ring = 1..Len(ring) /\ Len(ring) \in Nat
    BY DEF RingInv
  <2>2. \A i \in 1..Len(ring) : f(i) \in Record
    <3>1. \A r \in Record : [r EXCEPT !.busy = FALSE] \in Record
      BY DEF Record
    <3>2. \A i \in 1..Len(ring) : ring[i] \in Record
      BY DEF RingInv
    <3> QED
      BY <3>1, <3>2
  <2>3. ring' = [i \in 1..Len(ring) |-> f(i)]
    BY <1>3, <2>1 DEF RingSubmit
  <2> HIDE DEF f
  <2>4. ring' \in Seq(Record) /\ Len(ring') = Len(ring)
    BY <2>1, <2>2, <2>3
  <2> QED
    BY <2>4 DEF RingInv
<1>4. CASE ring # << >> /\ ring' = Tail(ring)
  <2>1. ring' \in Seq(Record) /\ Len(ring') = Len(ring) - 1 /\ Len(ring) \in Nat
    BY <1>4 DEF RingInv
  <2> QED
    BY <2>1, SizesAssumption DEF RingInv
<1>5. \/ UNCHANGED ring
      \/ \E t \in Threads : (RingHasRoom /\ RingReserve(t)) \/ RingSubmit(t)
      \/ ring # << >> /\ ring' = Tail(ring)
  <2> USE DEF vars, mapVars
  <2>1. ASSUME NEW t \in Threads, Tcpconnect(t)
        PROVE  UNCHANGED ring \/ (RingHasRoom /\ RingReserve(t)) \/ RingSubmit(t)
    BY <2>1 DEF Tcpconnect, TcpconnectEnter, TcpconnectNoEntry, TcpconnectCount, TcpconnectUpdate,
         TcpconnectDelete, TcpconnectReserve, TcpconnectFull, TcpconnectSubmit, StoreEntry, NoEntry,
         CountFor, WriteCount, DeleteEntry, Reserve, Submit
  <2>2. ASSUME NEW t \in Threads, Activeconn(t) PROVE UNCHANGED ring
    BY <2>2 DEF Activeconn, ActiveconnEnter, ActiveconnNoEntry, ActiveconnCount, ActiveconnUpdate,
         ActiveconnDelete, StoreEntry, NoEntry, CountFor, WriteCount, DeleteEntry
  <2>3. ASSUME NEW t \in Threads, Opensnoop(t)
        PROVE  UNCHANGED ring \/ (RingHasRoom /\ RingReserve(t)) \/ RingSubmit(t)
    BY <2>3 DEF Opensnoop, OpensnoopEnterOpen, OpensnoopEnterOpenat, OpensnoopNoEntry,
       OpensnoopLookup,
         OpensnoopReserve, OpensnoopFull, OpensnoopSubmit, OpensnoopDelete, StoreEntry, NoEntry,
         DeleteEntry, Reserve, Submit
  <2>4. ASSUME NEW t \in Threads, Tcpconnlat(t)
        PROVE  UNCHANGED ring \/ (RingHasRoom /\ RingReserve(t)) \/ RingSubmit(t)
    BY <2>4 DEF Tcpconnlat, TraceConnect, TcpconnlatSkip, TcpconnlatBackwards, TcpconnlatLookup,
         TcpconnlatReserve, TcpconnlatFull, TcpconnlatSubmit, Reserve, EnterFull, EnterSubmit, Submit
  <2>5. ASSUME NEW t \in Threads, RingOnly(t)
        PROVE  UNCHANGED ring \/ (RingHasRoom /\ RingReserve(t)) \/ RingSubmit(t)
    BY <2>5 DEF RingOnly, CapableReserve, CapableSubmit, ExitsnoopReserve, ExitsnoopSubmit,
         OomkillReserve, OomkillSubmit, KprobetcpReserve, KprobetcpSubmit, Reserve, EnterFull,
         EnterSubmit, Submit
  <2> QED
    BY <2>1, <2>2, <2>3, <2>4, <2>5 DEF Next, Attach, Call, ReturnFn, Probe, ReadRecord
<1> QED
  BY <1>1, <1>2, <1>3, <1>4, <1>5

-----------------------------------------------------------------------------
(* What a step does to everything but the ring buffer.                     *)

OthersSame == UNCHANGED <<progVars, addr, counts, synsent, calls, history>>

\* Nothing.
Quiet == OthersSame /\ UNCHANGED <<pc, call, inflight, locals>>

\* The probe of a thread goes on, at most with a record.
Passes(t) ==
  /\ OthersSame /\ UNCHANGED <<call, inflight, locals>>
  /\ \/ prog \in Pairing /\ pc[t] = "reserve" /\ Goto(t, "submit")
     \/ prog = "opensnoop" /\ pc[t] = "submit" /\ Goto(t, "delete")
     \/ /\ prog \notin Pairing
        /\ pc[t] \in {"enter", "reserve"} /\ (prog = "tcpconnlat" => pc[t] = "reserve")
        /\ Goto(t, "submit")
     \/ /\ prog \notin Pairing
        /\ pc[t] \in {"enter", "reserve", "submit"}
        /\ prog = "tcpconnlat" /\ pc[t] = "enter" => call[t].fn = "tcp_rcv_state_process"
        /\ Goto(t, "inside")

\* It ends after its entry is gone.
Leaves(t) ==
  /\ prog = "tcpconnect"
  /\ OthersSame /\ UNCHANGED <<inflight, locals>>
  /\ pc[t] \in {"reserve", "submit"}
  /\ EndExit(t)

Misses(t) == prog \in Pairing /\ NoEntry(t)

Stores(t) == prog \in Pairing /\ StoreEntry(t)

Counts(t) ==
  \/ prog = "tcpconnect" /\ CountFor(t, 1)
  \/ prog = "activeconn" /\ CountFor(t, Op(call[t].fn))

Writes(t) == prog \in {"tcpconnect", "activeconn"} /\ WriteCount(t)

Deletes(t) ==
  /\ prog \in Pairing
  /\ DeleteEntry(t)
  /\ \/ prog = "tcpconnect" /\ Goto(t, "reserve") /\ UNCHANGED call
     \/ prog # "tcpconnect" /\ EndExit(t)

ProbeStep(t) ==
  \/ Passes(t) \/ Leaves(t) \/ Misses(t) \/ OpensnoopFull(t)
  \/ Stores(t) \/ Counts(t) \/ Writes(t) \/ Deletes(t)
  \/ OpensnoopLookup(t) \/ TraceConnect(t) \/ TcpconnlatBackwards(t) \/ TcpconnlatLookup(t)

\* Every step of every program is one of these.
LEMMA Steps ==
  ASSUME [Next]_vars
  PROVE  \/ Quiet
         \/ \E p \in Probes : Attach(p)
         \/ \E t \in Threads, fn \in Functions, o \in Objects : Call(t, fn, o)
         \/ \E t \in Threads : ReturnFn(t) \/ ProbeStep(t)
<1> USE DEF vars, mapVars, locals, OthersSame, Pairing
<1>1. ASSUME NEW t \in Threads, Tcpconnect(t) PROVE ProbeStep(t)
  <2>1. CASE TcpconnectEnter(t) \/ TcpconnectCount(t) \/ TcpconnectUpdate(t) \/ TcpconnectDelete(t)
    BY <2>1 DEF TcpconnectEnter, TcpconnectCount, TcpconnectUpdate, TcpconnectDelete, ProbeStep,
                Stores, Counts, Writes, Deletes
  <2>2. CASE TcpconnectNoEntry(t)
    BY <2>2 DEF TcpconnectNoEntry, ProbeStep, Misses
  <2>3. CASE TcpconnectFull(t) \/ TcpconnectSubmit(t)
    BY <2>3 DEF TcpconnectFull, TcpconnectSubmit, Submit, ProbeStep, Leaves
  <2>4. CASE TcpconnectReserve(t)
    BY <2>4 DEF TcpconnectReserve, Reserve, ProbeStep, Passes
  <2> QED
    BY <1>1, <2>1, <2>2, <2>3, <2>4 DEF Tcpconnect
<1>2. ASSUME NEW t \in Threads, Activeconn(t) PROVE ProbeStep(t)
  <2>1. CASE ActiveconnEnter(t) \/ ActiveconnCount(t) \/ ActiveconnUpdate(t) \/ ActiveconnDelete(t)
    BY <2>1 DEF ActiveconnEnter, ActiveconnCount, ActiveconnUpdate, ActiveconnDelete, ProbeStep,
                Stores, Counts, Writes, Deletes
  <2>2. CASE ActiveconnNoEntry(t)
    BY <2>2 DEF ActiveconnNoEntry, ProbeStep, Misses
  <2> QED
    BY <1>2, <2>1, <2>2 DEF Activeconn
<1>3. ASSUME NEW t \in Threads, Opensnoop(t) PROVE ProbeStep(t)
  <2>1. CASE OpensnoopEnterOpen(t) \/ OpensnoopEnterOpenat(t) \/ OpensnoopDelete(t)
    BY <2>1 DEF OpensnoopEnterOpen, OpensnoopEnterOpenat, OpensnoopDelete, ProbeStep, Stores,
       Deletes
  <2>2. CASE OpensnoopNoEntry(t)
    BY <2>2 DEF OpensnoopNoEntry, ProbeStep, Misses
  <2>3. CASE OpensnoopReserve(t) \/ OpensnoopSubmit(t)
    BY <2>3 DEF OpensnoopReserve, OpensnoopSubmit, Reserve, Submit, ProbeStep, Passes
  <2> QED
    BY <1>3, <2>1, <2>2, <2>3 DEF Opensnoop, ProbeStep
<1>4. ASSUME NEW t \in Threads, Tcpconnlat(t) PROVE ProbeStep(t)
  <2>1. CASE TcpconnlatSkip(t)
    BY <2>1 DEF TcpconnlatSkip, Receiving, ProbeStep, Passes
  <2>2. CASE TcpconnlatReserve(t) \/ TcpconnlatFull(t) \/ TcpconnlatSubmit(t)
    BY <2>2 DEF TcpconnlatReserve, TcpconnlatFull, TcpconnlatSubmit, Reserve, EnterFull,
                EnterSubmit, Submit, ProbeStep, Passes
  <2> QED
    BY <1>4, <2>1, <2>2 DEF Tcpconnlat, ProbeStep
<1>5. ASSUME NEW t \in Threads, RingOnly(t) PROVE ProbeStep(t)
  <2>1. /\ prog \in {"capable", "exitsnoop", "oomkill", "kprobetcp"}
        /\ Reserve(t, "enter") \/ EnterFull(t, "enter") \/ EnterSubmit(t)
    BY <1>5 DEF RingOnly, CapableReserve, CapableSubmit, ExitsnoopReserve, ExitsnoopSubmit,
                OomkillReserve, OomkillSubmit, KprobetcpReserve, KprobetcpSubmit
  <2> QED
    BY <2>1 DEF Reserve, EnterFull, EnterSubmit, Submit, ProbeStep, Passes
<1> QED
  BY <1>1, <1>2, <1>3, <1>4, <1>5 DEF Next, Probe, ReadRecord, Quiet

-----------------------------------------------------------------------------
(* Types.                                                                  *)

Types ==
  /\ prog \in Programs /\ attached \subseteq Probes
  /\ pc \in [Threads -> PCs]
  /\ DOMAIN call = Threads
  /\ \A t \in Threads :
       IF pc[t] = "user" THEN call[t] = NoCall
                         ELSE /\ DOMAIN call[t] = {"fn", "obj", "armed", "entry"}
                              /\ call[t].fn \in Functions /\ call[t].obj \in Objects
  /\ addr \in [Objects -> Addresses]
  /\ DOMAIN found = Threads
  /\ hashKey \in [Threads -> Addresses]
  /\ val \in [Threads -> 0..(Word - 1)]
  /\ calls \in 0..MaxCalls
  /\ synsent \in [Objects -> {"none", "v4", "v6"}]
  /\ DOMAIN starter = Objects
  /\ expected \in [Addresses -> Int]
  /\ \A o \in DOMAIN opened : opened[o] \in Addresses

MapTypes ==
  /\ IsFiniteSet(DOMAIN inflight) /\ Cardinality(DOMAIN inflight) <= MaxEntries
  /\ IsFiniteSet(DOMAIN counts) /\ Cardinality(DOMAIN counts) <= MaxCounts
  /\ prog \in Pairing =>
       DOMAIN inflight \subseteq Threads /\ \A t \in DOMAIN inflight : inflight[t] \in Objects
  /\ DOMAIN counts \subseteq Addresses
  /\ \A a \in DOMAIN counts : counts[a] \in 0..(Word - 1)

TypeInv == Types /\ MapTypes

\* What is loaded does not change.
LEMMA SameProgram ==
  ASSUME [Next]_vars
  PROVE  prog' = prog /\ Probes' = Probes /\ Functions' = Functions
<1>1. prog' = prog
  BY Steps DEF Quiet, OthersSame, progVars, Attach, Call, ReturnFn, ProbeStep, Passes, Leaves,
     Misses, NoEntry, OpensnoopFull, Stores, StoreEntry, Counts, CountFor,
     Writes, WriteCount, Deletes, DeleteEntry,
     OpensnoopLookup, TraceConnect, TcpconnlatBackwards, TcpconnlatLookup
<1> QED
  BY <1>1 DEF Probes, Functions

\* The functions that threads call, and which of them have probes.
LEMMA WhatIsCalled ==
  ASSUME NEW fn \in Functions
  PROVE  /\ prog \in Pairing => Enter(fn) \in Probes
         /\ prog = "tcpconnect" => fn = "tcp_v4_connect"
         /\ prog = "tcpconnlat" => fn \in Connects \cup {"tcp_rcv_state_process"}
<1> USE DEF Functions, Probes, Enter, Exit, Connects
<1>1. CASE prog = "tcpconnect"
  BY <1>1 DEF TcpconnectProbes
<1>2. CASE prog = "activeconn"
  BY <1>2 DEF ActiveconnProbes
<1>3. CASE prog = "opensnoop"
  BY <1>3 DEF OpensnoopProbes
<1>4. CASE prog = "tcpconnlat"
  BY <1>4 DEF TcpconnlatProbes, Pairing
<1> QED
  BY <1>1, <1>2, <1>3, <1>4 DEF Pairing

\* The count that a probe computes is a u64.
LEMMA NewCountType ==
  ASSUME TypeInv, NEW a, NEW op \in {1, -1}
  PROVE  NewCount(a, op) \in 0..(Word - 1)
<1>1. CASE a \in DOMAIN counts
  <2> DEFINE d == counts[a] + op
  <2>1. d \in Int /\ Word \in Nat \ {0}
    BY <1>1, SizesAssumption DEF TypeInv, MapTypes
  <2> HIDE DEF d
  <2>2. d % Word \in 0..(Word - 1)
    BY <2>1, Remainder
  <2> QED
    BY <1>1, <2>2 DEF NewCount, d
<1>2. CASE a \notin DOMAIN counts
  BY <1>2, SizesAssumption DEF NewCount
<1> QED
  BY <1>1, <1>2

\* The addresses that a function leaves in its socket.
LEMMA AddressTypes ==
  ASSUME TypeInv, NEW o \in Objects, NEW a \in AddrAfter(o)
  PROVE  a \in Addresses
BY DEF TypeInv, Types, AddrAfter

\* What a call that is over makes of the tallies.
LEMMA AccountTypes ==
  ASSUME TypeInv, NEW t \in Threads, NEW a \in Addresses, NEW seen, Account(t, a, seen)
  PROVE  expected' \in [Addresses -> Int] /\ \A o \in DOMAIN opened' : opened'[o] \in Addresses
<1> USE DEF TypeInv, Types
<1> DEFINE o == call[t].obj
<1>1. CASE UNCHANGED <<expected, opened>>
  BY <1>1
<1>2. CASE /\ expected' = IF o \in DOMAIN opened THEN [expected EXCEPT ![opened[o]] = @ - 1]
                                                ELSE expected
           /\ opened' = MapDelete(opened, o)
  BY <1>2 DEF MapDelete
<1>3. CASE expected' = [expected EXCEPT ![a] = @ + 1] /\ opened' = Put(opened, o, a)
  BY <1>3 DEF Put
<1> QED
  BY <1>1, <1>2, <1>3 DEF Account, tallies

\* The probe on an entry changes what is noted of its call, and nothing else of it.
LEMMA EntryNoted ==
  ASSUME TypeInv, NEW t \in Threads, pc[t] # "user", EntryStored(t) \/ EntryRefused(t)
  PROVE  /\ DOMAIN call' = Threads /\ DOMAIN call'[t] = {"fn", "obj", "armed", "entry"}
         /\ call'[t].fn = call[t].fn /\ call'[t].obj = call[t].obj
         /\ \A u \in Threads : u # t => call'[u] = call[u]
<1>1. PICK e : call' = [call EXCEPT ![t].entry = e]
  BY Zenon DEF EntryStored, EntryRefused
<1> QED
  BY <1>1 DEF TypeInv, Types

\* Every step keeps the types.
LEMMA TypesStep == TypeInv /\ [Next]_vars => Types'
<1> SUFFICES ASSUME TypeInv, [Next]_vars PROVE Types'
  OBVIOUS
<1> USE SameProgram DEF TypeInv, Types, MapTypes, OthersSame, progVars, locals, mapVars, history,
           tallies, PCs, Goto, EndExit
<1>1. CASE Quiet
  BY <1>1 DEF Quiet
<1>2. ASSUME NEW p \in Probes, Attach(p) PROVE Types'
  BY <1>2 DEF Attach
<1>3. ASSUME NEW t \in Threads, NEW fn \in Functions, NEW o \in Objects, Call(t, fn, o) PROVE Types'
  <2>1. PICK l \in {"enter", "inside"} : Goto(t, l)
    BY <1>3 DEF Call
  <2>2. calls' \in 0..MaxCalls
    BY <1>3, SizesAssumption DEF Call
  <2>3. PICK b : call' = [call EXCEPT ![t] =
                           [fn |-> fn, obj |-> o, armed |-> b, entry |-> "unseen"]]
    BY <1>3, Zenon DEF Call
  <2>4. DOMAIN starter' = Objects
    BY <1>3 DEF Call
  <2>5. UNCHANGED <<prog, attached, addr, found, hashKey, val, synsent, expected, opened>>
    BY <1>3 DEF Call
  <2> QED
    BY <2>1, <2>2, <2>3, <2>4, <2>5
<1>4. ASSUME NEW t \in Threads, ReturnFn(t) PROVE Types'
  <2>1. call[t].obj \in Objects
    BY <1>4 DEF ReturnFn
  <2>2. synsent' \in [Objects -> {"none", "v4", "v6"}]
    BY <1>4, <2>1 DEF ReturnFn, StateAfter
  <2>3. PICK a \in AddrAfter(call[t].obj) :
          /\ addr' = [addr EXCEPT ![call[t].obj] = a]
          /\ \/ Goto(t, "exit") /\ UNCHANGED <<call, orphans, tallies>>
             \/ EndExit(t) /\ Account(t, a, FALSE)
    BY <1>4, Zenon DEF ReturnFn, EndExit
  <2>4. a \in Addresses
    BY <2>1, AddressTypes
  <2>5. addr' \in [Objects -> Addresses]
    BY <2>3, <2>4
  <2>6. expected' \in [Addresses -> Int] /\ \A o \in DOMAIN opened' : opened'[o] \in Addresses
    BY <2>3, <2>4, AccountTypes
  <2>7. pc[t] = "inside" /\ UNCHANGED <<prog, attached, found, hashKey, val, calls, starter>>
    BY <1>4 DEF ReturnFn
  <2>8. CASE Goto(t, "exit") /\ UNCHANGED call
    BY <2>2, <2>5, <2>6, <2>7, <2>8
  <2>9. CASE EndExit(t)
    BY <2>2, <2>5, <2>6, <2>7, <2>9
  <2> QED
    BY <2>3, <2>8, <2>9
<1>5. ASSUME NEW t \in Threads, Passes(t) PROVE Types'
  <2>1. PICK l \in {"submit", "delete", "inside"} : Goto(t, l) /\ pc[t] # "user"
    BY <1>5 DEF Passes
  <2> QED
    BY <1>5, <2>1 DEF Passes
<1>6. ASSUME NEW t \in Threads, Leaves(t) \/ OpensnoopFull(t) PROVE Types'
  BY <1>6 DEF Leaves, OpensnoopFull
<1>14. ASSUME NEW t \in Threads, Misses(t) PROVE Types'
  <2>1. /\ pc[t] = "exit" /\ EndExit(t) /\ Account(t, addr[call[t].obj], FALSE)
        /\ UNCHANGED <<progVars, addr, locals, synsent, calls, starter>>
    BY <1>14 DEF Misses, NoEntry
  <2>2. expected' \in [Addresses -> Int] /\ \A o \in DOMAIN opened' : opened'[o] \in Addresses
    <3>1. addr[call[t].obj] \in Addresses
      BY <2>1
    <3> QED
      BY <2>1, <3>1, AccountTypes
  <2> QED
    BY <2>1, <2>2
<1>7. ASSUME NEW t \in Threads, Stores(t) PROVE Types'
  <2>1. /\ pc[t] = "enter" /\ Goto(t, "inside") /\ (EntryStored(t) \/ EntryRefused(t))
        /\ UNCHANGED <<progVars, addr, locals, synsent, calls, tallies, starter>>
    BY <1>7 DEF Stores, StoreEntry
  <2>2. /\ DOMAIN call' = Threads /\ DOMAIN call'[t] = {"fn", "obj", "armed", "entry"}
        /\ call'[t].fn = call[t].fn /\ call'[t].obj = call[t].obj
        /\ \A u \in Threads : u # t => call'[u] = call[u]
    BY <2>1, EntryNoted
  <2> QED
    BY <2>1, <2>2
<1>8. ASSUME NEW t \in Threads, Counts(t) PROVE Types'
  <2>1. PICK op \in {1, -1} : CountFor(t, op) /\ prog \in Pairing
    BY <1>8 DEF Counts, Op, Pairing
  <2> DEFINE o == inflight[t]
             a == addr[o]
             n == NewCount(a, op)
  <2>2. o \in Objects /\ a \in Addresses /\ addr[call[t].obj] \in Addresses
    BY <2>1 DEF CountFor, KeyOf
  <2>3. n \in 0..(Word - 1)
    BY NewCountType
  <2>4. /\ found' = [found EXCEPT ![t] = o] /\ val' = [val EXCEPT ![t] = n]
        /\ hashKey' = [hashKey EXCEPT ![t] = a]
        /\ Account(t, addr[call[t].obj], call[t].entry = "stored")
        /\ Goto(t, "update") /\ pc[t] = "exit"
        /\ UNCHANGED <<progVars, call, addr, synsent, calls, starter>>
    BY <2>1 DEF CountFor, KeyOf
  <2>5. expected' \in [Addresses -> Int] /\ \A x \in DOMAIN opened' : opened'[x] \in Addresses
    BY <2>2, <2>4, AccountTypes, Zenon
  <2> HIDE DEF n, a, o
  <2> QED
    BY <2>2, <2>3, <2>4, <2>5
<1>9. ASSUME NEW t \in Threads, Writes(t) PROVE Types'
  BY <1>9 DEF Writes, WriteCount
<1>10. ASSUME NEW t \in Threads, Deletes(t) PROVE Types'
  <2>1. CASE Goto(t, "reserve") /\ UNCHANGED call
    BY <1>10, <2>1 DEF Deletes, DeleteEntry
  <2>2. CASE EndExit(t)
    BY <1>10, <2>2 DEF Deletes, DeleteEntry
  <2> QED
    BY <1>10, <2>1, <2>2 DEF Deletes
<1>11. ASSUME NEW t \in Threads, OpensnoopLookup(t) PROVE Types'
  BY <1>11 DEF OpensnoopLookup
<1>12. ASSUME NEW t \in Threads, TraceConnect(t) \/ TcpconnlatBackwards(t) PROVE Types'
  BY <1>12 DEF TraceConnect, TcpconnlatBackwards, Receiving
<1>13. ASSUME NEW t \in Threads, TcpconnlatLookup(t) PROVE Types'
  BY <1>13 DEF TcpconnlatLookup, Receiving
<1> QED
  BY <1>1, <1>2, <1>3, <1>4, <1>5, <1>6, <1>7, <1>8, <1>9, <1>10, <1>11, <1>12, <1>13,
     <1>14, Steps
     DEF ProbeStep

\* The maps keep to their sizes.
LEMMA MapTypesStep == TypeInv /\ [Next]_vars => MapTypes'
<1> SUFFICES ASSUME TypeInv, [Next]_vars PROVE MapTypes'
  OBVIOUS
<1> USE SameProgram, SizesAssumption DEF TypeInv, MapTypes
<1>1. CASE UNCHANGED <<inflight, counts>>
  BY <1>1
<1>2. ASSUME NEW t \in Threads, Stores(t) PROVE MapTypes'
  <2>1. UNCHANGED counts /\ (EntryStored(t) \/ UNCHANGED inflight)
    BY <1>2 DEF Stores, StoreEntry, EntryRefused
  <2>2. call[t].obj \in Objects /\ prog \in Pairing
    BY <1>2 DEF Stores, StoreEntry, Types
  <2>3. /\ IsFiniteSet(DOMAIN inflight') /\ Cardinality(DOMAIN inflight') <= MaxEntries
        /\ DOMAIN inflight' \subseteq DOMAIN inflight \cup {t}
        /\ \A x \in DOMAIN inflight : x # t => inflight'[x] = inflight[x]
        /\ t \in DOMAIN inflight' => inflight'[t] = call[t].obj \/ inflight' = inflight
    <3>1. CASE UNCHANGED inflight
      BY <3>1
    <3>2. CASE EntryStored(t)
      <4>1. inflight' = MapUpdate(inflight, t, call[t].obj, MaxEntries)
        BY <3>2 DEF EntryStored, MapUpdate, KeyOf
      <4> QED
        BY <4>1, Update
    <3> QED
      BY <2>1, <3>1, <3>2
  <2> QED
    BY <2>1, <2>2, <2>3
<1>3. ASSUME NEW t \in Threads, TraceConnect(t) PROVE MapTypes'
  <2>1. /\ inflight' = MapUpdate(inflight, call[t].obj, t, MaxEntries) /\ UNCHANGED counts
        /\ prog \notin Pairing
    BY <1>3 DEF TraceConnect, Start, Pairing
  <2>2. IsFiniteSet(DOMAIN inflight') /\ Cardinality(DOMAIN inflight') <= MaxEntries
    BY <2>1, Update
  <2> QED
    BY <2>1, <2>2
<1>4. ASSUME NEW k, inflight' = MapDelete(inflight, k), UNCHANGED counts PROVE MapTypes'
  <2>1. /\ IsFiniteSet(DOMAIN inflight') /\ Cardinality(DOMAIN inflight') <= MaxEntries
        /\ DOMAIN inflight' = DOMAIN inflight \ {k}
        /\ \A x \in DOMAIN inflight' : inflight'[x] = inflight[x]
    BY <1>4, Delete
  <2> QED
    BY <1>4, <2>1
<1>5. ASSUME NEW t \in Threads, Writes(t) PROVE MapTypes'
  <2> DEFINE a == hashKey[t]
  <2>1. counts' = MapUpdate(counts, a, val[t], MaxCounts) /\ UNCHANGED inflight
    BY <1>5 DEF Writes, WriteCount
  <2>2. a \in Addresses /\ val[t] \in 0..(Word - 1)
    BY <1>5 DEF Writes, WriteCount, Types
  <2> HIDE DEF a
  <2>3. /\ IsFiniteSet(DOMAIN counts') /\ Cardinality(DOMAIN counts') <= MaxCounts
        /\ DOMAIN counts' \subseteq DOMAIN counts \cup {a}
        /\ \A x \in DOMAIN counts : x # a => counts'[x] = counts[x]
        /\ a \in DOMAIN counts' => counts'[a] = val[t]
    BY <2>1, Update
  <2>4. \A x \in DOMAIN counts' : counts'[x] \in 0..(Word - 1)
    BY <2>2, <2>3
  <2> QED
    BY <2>1, <2>2, <2>3, <2>4
<1>6. \/ UNCHANGED <<inflight, counts>>
      \/ \E t \in Threads : Stores(t) \/ TraceConnect(t) \/ Writes(t)
      \/ (\E k : inflight' = MapDelete(inflight, k)) /\ UNCHANGED counts
  BY Steps DEF Quiet, OthersSame, mapVars, Attach, Call, ReturnFn, ProbeStep, Passes, Leaves,
     Misses, NoEntry, OpensnoopFull, Counts, CountFor, Deletes, DeleteEntry,
     OpensnoopLookup, TcpconnlatBackwards,
     TcpconnlatLookup
<1> QED
  BY <1>1, <1>2, <1>3, <1>4, <1>5, <1>6

\* What a deletion leaves of the entries.
LEMMA DeleteInflight ==
  ASSUME TypeInv, NEW k, inflight' = MapDelete(inflight, k)
  PROVE  /\ DOMAIN inflight' = DOMAIN inflight \ {k}
         /\ \A x \in DOMAIN inflight' : inflight'[x] = inflight[x]
BY Delete, SizesAssumption DEF TypeInv, MapTypes

-----------------------------------------------------------------------------
(* tcpconnect, activeconn and opensnoop: the entries of calls.             *)

\* The calls whose entry is in the map, if there is one of their thread.
Entered(t) == call[t].entry \in {"stored", "refused"}

\* An entry is of the call that is in progress, unless the entry of that call
\* went by unseen or was refused in favour of an older one; and when a call is
\* over there is none, or a reason for it.
Pairs ==
  prog \in Pairing =>
    \A t \in Threads :
      /\ pc[t] \in {"inside", "exit"} /\ Entered(t) /\ t \in DOMAIN inflight =>
           inflight[t] = call[t].obj
      /\ pc[t] \in Looked /\ Entered(t) => found[t] = call[t].obj
      /\ prog = "tcpconnect" /\ pc[t] \in {"reserve", "submit"} => t \notin DOMAIN inflight
      /\ t \in DOMAIN inflight => pc[t] # "user" \/ t \in orphans

\* A thread changes its own entry only, and other threads leave it alone.
LEMMA PairsStep == TypeInv /\ Pairs /\ [Next]_vars => Pairs'
<1> SUFFICES ASSUME TypeInv, Pairs, [Next]_vars, prog \in Pairing PROVE Pairs'
  BY SameProgram DEF Pairs
<1> USE SameProgram, SizesAssumption
    DEF TypeInv, Types, MapTypes, Pairs, Entered, Looked, OthersSame, locals, mapVars, history, Goto,
        EndExit
<1>1. CASE Quiet
  BY <1>1 DEF Quiet
<1>2. ASSUME NEW p \in Probes, Attach(p) PROVE Pairs'
  BY <1>2 DEF Attach
<1>3. ASSUME NEW t \in Threads, NEW fn \in Functions, NEW o \in Objects, Call(t, fn, o) PROVE Pairs'
  <2>1. PICK l \in {"enter", "inside"} : Goto(t, l)
    BY <1>3 DEF Call
  <2>2. PICK b : call' = [call EXCEPT ![t] =
                           [fn |-> fn, obj |-> o, armed |-> b, entry |-> "unseen"]]
    BY <1>3, Zenon DEF Call
  <2>3. UNCHANGED <<inflight, found, orphans>>
    BY <1>3 DEF Call
  <2> QED
    BY <2>1, <2>2, <2>3
<1>4. ASSUME NEW t \in Threads, ReturnFn(t) PROVE Pairs'
  <2>1. UNCHANGED <<inflight, found>> /\ pc[t] = "inside"
    BY <1>4 DEF ReturnFn
  <2>2. CASE Goto(t, "exit") /\ UNCHANGED <<call, orphans>>
    BY <2>1, <2>2
  <2>3. CASE EndExit(t) /\ orphans' = orphans \cup (DOMAIN inflight \cap {t})
    BY <2>1, <2>3
  <2> QED
    BY <1>4, <2>2, <2>3 DEF ReturnFn
<1>5. ASSUME NEW t \in Threads, Passes(t) PROVE Pairs'
  <2>1. CASE pc[t] = "reserve" /\ Goto(t, "submit")
    BY <1>5, <2>1 DEF Passes
  <2>2. CASE prog = "opensnoop" /\ pc[t] = "submit" /\ Goto(t, "delete")
    BY <1>5, <2>2 DEF Passes
  <2> QED
    BY <1>5, <2>1, <2>2 DEF Passes
<1>6. ASSUME NEW t \in Threads, Leaves(t) PROVE Pairs'
  BY <1>6 DEF Leaves
<1>14. ASSUME NEW t \in Threads, Misses(t) PROVE Pairs'
  <2>1. /\ pc[t] = "exit" /\ t \notin DOMAIN inflight /\ EndExit(t)
        /\ UNCHANGED <<inflight, found, orphans>>
    BY <1>14 DEF Misses, NoEntry, KeyOf
  <2> QED
    BY <2>1
<1>7. ASSUME NEW t \in Threads, OpensnoopFull(t) PROVE Pairs'
  BY <1>7 DEF OpensnoopFull
<1>8. ASSUME NEW t \in Threads, Stores(t) PROVE Pairs'
  <2>1. /\ pc[t] = "enter" /\ Goto(t, "inside") /\ (EntryStored(t) \/ EntryRefused(t))
        /\ UNCHANGED found
    BY <1>8 DEF Stores, StoreEntry
  <2>2. call'[t].obj = call[t].obj /\ \A u \in Threads : u # t => call'[u] = call[u]
    BY <2>1, EntryNoted
  <2>3. CASE EntryStored(t)
    <3>1. /\ DOMAIN inflight' = DOMAIN inflight \cup {t} /\ inflight'[t] = call[t].obj
          /\ \A x \in DOMAIN inflight : x # t => inflight'[x] = inflight[x]
          /\ orphans' = orphans \ {t}
      BY <2>3 DEF EntryStored, Put, KeyOf
    <3> QED
      BY <2>1, <2>2, <3>1
  <2>4. CASE EntryRefused(t)
    <3>1. /\ UNCHANGED <<inflight, orphans>>
          /\ call'[t].entry = IF t \in DOMAIN inflight THEN "kept" ELSE "refused"
      BY <2>1, <2>4 DEF EntryRefused, KeyOf
    <3> QED
      BY <2>1, <2>2, <3>1
  <2> QED
    BY <2>1, <2>3, <2>4
<1>9. ASSUME NEW t \in Threads, Counts(t) PROVE Pairs'
  <2>1. /\ pc[t] = "exit" /\ t \in DOMAIN inflight /\ found' = [found EXCEPT ![t] = inflight[t]]
        /\ Goto(t, "update") /\ UNCHANGED <<call, inflight, orphans>>
    BY <1>9 DEF Counts, CountFor, KeyOf
  <2> QED
    BY <2>1
<1>10. ASSUME NEW t \in Threads, Writes(t) PROVE Pairs'
  BY <1>10 DEF Writes, WriteCount
<1>11. ASSUME NEW t \in Threads, Deletes(t) PROVE Pairs'
  <2>1. /\ inflight' = MapDelete(inflight, t) /\ orphans' = orphans \ {t} /\ pc[t] = "delete"
        /\ UNCHANGED found
    BY <1>11 DEF Deletes, DeleteEntry, KeyOf
  <2>2. /\ DOMAIN inflight' = DOMAIN inflight \ {t}
        /\ \A x \in DOMAIN inflight' : inflight'[x] = inflight[x]
    BY <2>1, DeleteInflight
  <2>3. CASE Goto(t, "reserve") /\ UNCHANGED call
    BY <2>1, <2>2, <2>3
  <2>4. CASE EndExit(t)
    BY <2>1, <2>2, <2>4
  <2> QED
    BY <1>11, <2>3, <2>4 DEF Deletes
<1>12. ASSUME NEW t \in Threads, OpensnoopLookup(t) PROVE Pairs'
  BY <1>12 DEF OpensnoopLookup, KeyOf
<1>13. ASSUME NEW t \in Threads, TraceConnect(t) \/ TcpconnlatBackwards(t) \/ TcpconnlatLookup(t)
       PROVE  FALSE
  BY <1>13 DEF TraceConnect, TcpconnlatBackwards, TcpconnlatLookup, Receiving, Pairing
<1> QED
  BY <1>1, <1>2, <1>3, <1>4, <1>5, <1>6, <1>7, <1>8, <1>9, <1>10, <1>11, <1>12, <1>13,
     <1>14, Steps
     DEF ProbeStep

-----------------------------------------------------------------------------
(* tcpconnlat: the entries of sockets.                                     *)

\* The lock of a socket.
Alone ==
  prog # "opensnoop" =>
    \A t, u \in Threads :
      t # u /\ pc[t] # "user" /\ pc[u] # "user" => call[t].obj # call[u].obj

\* Threads stay with the sockets of their calls.
SameObjects == \A t \in Threads : call'[t].obj = call[t].obj

\* Only a call takes the lock, and only the end of a call releases it.
LEMMA AloneStep == TypeInv /\ Alone /\ [Next]_vars => Alone'
<1> SUFFICES ASSUME TypeInv, Alone, [Next]_vars, prog # "opensnoop" PROVE Alone'
  BY SameProgram DEF Alone
<1> USE SameProgram DEF TypeInv, Types, Alone, OthersSame, Goto, EndExit
<1>1. ASSUME NEW t \in Threads, NEW fn \in Functions, NEW o \in Objects, Call(t, fn, o) PROVE Alone'
  <2>1. PICK l, b : /\ Goto(t, l)
                    /\ call' = [call EXCEPT ![t] =
                                  [fn |-> fn, obj |-> o, armed |-> b, entry |-> "unseen"]]
    BY <1>1, Zenon DEF Call
  <2>2. \A u \in Threads : call[u].obj # o
    BY <1>1 DEF Call
  <2> QED
    BY <2>1, <2>2
<1>2. CASE UNCHANGED <<pc, call>>
  BY <1>2
<1>3. ASSUME NEW t \in Threads, NEW l, pc[t] # "user", Goto(t, l), SameObjects PROVE Alone'
  BY <1>3 DEF SameObjects
<1>4. ASSUME NEW t \in Threads, EndExit(t) PROVE Alone'
  BY <1>4
<1>5. \/ UNCHANGED <<pc, call>>
      \/ \E t \in Threads, fn \in Functions, o \in Objects : Call(t, fn, o)
      \/ \E t \in Threads : EndExit(t)
      \/ \E t \in Threads : pc[t] # "user" /\ SameObjects /\ \E l : Goto(t, l)
  <2> HIDE DEF Goto, EndExit, TypeInv, Alone
  <2>1. ASSUME NEW t \in Threads, ReturnFn(t)
        PROVE  EndExit(t) \/ (pc[t] # "user" /\ SameObjects /\ \E l : Goto(t, l))
    BY <2>1 DEF ReturnFn, EndExit, SameObjects
  <2>2. ASSUME NEW t \in Threads, Stores(t)
        PROVE  pc[t] # "user" /\ SameObjects /\ \E l : Goto(t, l)
    <3>1. pc[t] = "enter" /\ Goto(t, "inside") /\ (EntryStored(t) \/ EntryRefused(t))
      BY <2>2 DEF Stores, StoreEntry
    <3> QED
      BY <3>1, EntryNoted DEF SameObjects
  <2>3. ASSUME NEW t \in Threads, ProbeStep(t), ~Stores(t)
        PROVE  EndExit(t) \/ (pc[t] # "user" /\ SameObjects /\ \E l : Goto(t, l))
    BY <2>3 DEF ProbeStep, Passes, Leaves, Misses, NoEntry, OpensnoopFull, Counts, CountFor, Writes,
       WriteCount, Deletes, DeleteEntry, OpensnoopLookup, TraceConnect, TcpconnlatBackwards,
       TcpconnlatLookup, Receiving, SameObjects
  <2> QED
    BY <2>1, <2>2, <2>3, Steps DEF Quiet, Attach
<1> QED
  BY <1>1, <1>2, <1>3, <1>4, <1>5

V4 == "tcp_v4_connect"

\* The entry of a socket that is connecting over IPv4 says who connects it, and a
\* socket is not connecting before its connect returns.
Latency ==
  prog = "tcpconnlat" =>
    /\ Enter(V4) \notin attached => DOMAIN inflight = {}
    /\ \A o \in Objects : synsent[o] = "v4" /\ o \in DOMAIN inflight => inflight[o] = starter[o]
    /\ \A t \in Threads :
         LET o == call[t].obj IN
         /\ pc[t] = "enter" => Enter(call[t].fn) \in attached
         /\ pc[t] # "user" /\ call[t].fn = V4 => starter[o] = t
         /\ pc[t] \in {"enter", "inside"} /\ call[t].fn \in Connects => synsent[o] = "none"
         /\ pc[t] = "inside" /\ call[t].fn = V4 /\ o \in DOMAIN inflight => inflight[o] = t
         /\ pc[t] \in Looked => call[t].fn \notin Connects
         /\ pc[t] \in Looked /\ synsent[o] = "v4" => found[t] = starter[o]

\* What a thread does to a socket and its entry, no other thread interferes with.
LEMMA LatencyStep == TypeInv /\ Alone /\ Latency /\ [Next]_vars => Latency'
<1> SUFFICES ASSUME TypeInv, Alone, Latency, [Next]_vars, prog = "tcpconnlat" PROVE Latency'
  BY SameProgram DEF Latency
<1> USE SameProgram, SizesAssumption
    DEF TypeInv, Types, MapTypes, Latency, Looked, OthersSame, progVars, locals, mapVars, history, Goto,
        EndExit, Connects, V4
<1>1. CASE Quiet
  BY <1>1 DEF Quiet
<1>2. ASSUME NEW p \in Probes, Attach(p) PROVE Latency'
  BY <1>2 DEF Attach
<1>3. ASSUME NEW t \in Threads, NEW fn \in Functions, NEW o \in Objects, Call(t, fn, o)
      PROVE  Latency'
  <2>1. PICK l \in {"enter", "inside"} : Goto(t,
  l) /\ l = IF Enter(fn) \in attached THEN "enter" ELSE "inside"
    BY <1>3 DEF Call
  <2>2. /\ pc[t] = "user" /\ (\A u \in Threads : call[u].obj # o)
        /\ fn \in Connects => synsent[o] = "none"
        /\ UNCHANGED <<attached, inflight, found, synsent>>
    BY <1>3 DEF Call
  <2>3. call'[t].fn = fn /\ call'[t].obj = o /\ \A u \in Threads : u # t => call'[u] = call[u]
    <3>1. PICK b : call' = [call EXCEPT ![t] =
                             [fn |-> fn, obj |-> o, armed |-> b, entry |-> "unseen"]]
      BY <1>3, Zenon DEF Call
    <3> QED
      BY <3>1
  <2>4. /\ fn = V4 => starter'[o] = t
        /\ fn # V4 => starter' = starter
        /\ \A x \in Objects : x # o => starter'[x] = starter[x]
    BY <1>3 DEF Call
  <2>5. \A u \in Threads : u # t /\ pc[u] # "user" => starter'[call[u].obj] = starter[call[u].obj]
    BY <2>2, <2>4
  <2>6. \A x \in Objects : synsent[x] = "v4" => starter'[x] = starter[x]
    BY <2>2, <2>4
  <2> HIDE DEF V4
  <2> QED
    BY <2>1, <2>2, <2>3, <2>4, <2>5, <2>6 DEF V4
<1>4. ASSUME NEW t \in Threads, ReturnFn(t) PROVE Latency'
  <2> DEFINE o == call[t].obj
             fn == call[t].fn
  <2>1. /\ pc[t] = "inside" /\ o \in Objects /\ fn \in Connects \cup {"tcp_rcv_state_process"}
        /\ UNCHANGED <<attached, inflight, found, starter>>
    BY <1>4, WhatIsCalled DEF ReturnFn
  <2>2. PICK s \in StateAfter(fn, o) : synsent' = [synsent EXCEPT ![o] = s]
    BY <1>4 DEF ReturnFn
  <2>3. s = "v4" => (fn = V4 \/ synsent[o] = "v4")
    BY <2>1, <2>2 DEF StateAfter
  <2>4. \A x \in Objects : synsent'[x] = "v4" /\ x \in DOMAIN inflight => inflight[x] = starter[x]
    BY <2>1, <2>2, <2>3
  <2>5. \A u \in Threads : u # t /\ pc[u] # "user" => call[u].obj # o
    BY <2>1 DEF Alone
  <2>6. \A u \in Threads : u # t /\ pc[u] # "user" => synsent'[call[u].obj] = synsent[call[u].obj]
    BY <2>2, <2>5
  <2>7. CASE Goto(t, "exit") /\ UNCHANGED call
    BY <2>1, <2>4, <2>6, <2>7
  <2>8. CASE EndExit(t)
    BY <2>1, <2>4, <2>6, <2>8
  <2> QED
    BY <1>4, <2>7, <2>8 DEF ReturnFn
<1>5. ASSUME NEW t \in Threads, Passes(t) PROVE Latency'
  <2>1. CASE pc[t] = "reserve" /\ Goto(t, "submit")
    BY <1>5, <2>1 DEF Passes
  <2>2. CASE pc[t] \in {"enter", "reserve", "submit"} /\ call[t].fn \notin Connects /\ Goto(t,
  "inside")
    BY <1>5, <2>2 DEF Passes
  <2>3. prog \notin Pairing
    BY DEF Pairing
  <2>4. pc[t] \in {"enter", "reserve", "submit"} /\ Goto(t, "inside") => call[t].fn \notin Connects
    BY <1>5, <2>3 DEF Passes
  <2> QED
    BY <1>5, <2>1, <2>2, <2>3, <2>4 DEF Passes
<1>6. ASSUME NEW t \in Threads, TraceConnect(t) PROVE Latency'
  <2> DEFINE o == call[t].obj
  <2>1. /\ inflight' = MapUpdate(inflight, o, t, MaxEntries)
        /\ pc[t] = "enter" /\ call[t].fn = V4 /\ Goto(t, "inside")
        /\ UNCHANGED <<attached, call, found, synsent, starter>>
    BY <1>6 DEF TraceConnect, Start
  <2>2. /\ DOMAIN inflight' \subseteq DOMAIN inflight \cup {o}
        /\ \A x \in DOMAIN inflight : x # o => inflight'[x] = inflight[x]
        /\ o \in DOMAIN inflight' => inflight'[o] = t
    BY <2>1, Update
  <2>3. Enter(V4) \in attached /\ starter[o] = t /\ synsent[o] = "none" /\ o \in Objects
    BY <2>1
  <2>4. \A u \in Threads : u # t /\ pc[u] # "user" => call[u].obj # o
    BY <2>1 DEF Alone
  <2>5. \A x \in Objects : synsent[x] = "v4" /\ x \in DOMAIN inflight' => inflight'[x] = starter[x]
    <3> HIDE DEF o
    <3> SUFFICES ASSUME NEW x \in Objects, synsent[x] = "v4", x \in DOMAIN inflight'
                 PROVE  inflight'[x] = starter[x]
      OBVIOUS
    <3>1. x # o
      BY <2>3
    <3>2. x \in DOMAIN inflight /\ inflight'[x] = inflight[x]
      BY <2>2, <3>1
    <3> QED
      BY <3>2
  <2>6. ASSUME NEW u \in Threads, u # t, pc[u] = "inside", call[u].fn = V4,
  call[u].obj \in DOMAIN inflight'
        PROVE  inflight'[call[u].obj] = u
    BY <2>2, <2>4, <2>6
  <2>7. pc' = [pc EXCEPT ![t] = "inside"] /\ pc'[t] = "inside"
    BY <2>1
  <2> QED
    BY <2>1, <2>2, <2>3, <2>5, <2>6, <2>7
<1>7. ASSUME NEW t \in Threads, TcpconnlatBackwards(t) PROVE Latency'
  <2> DEFINE o == call[t].obj
  <2>1. /\ inflight' = MapDelete(inflight, o)
        /\ pc[t] = "enter" /\ call[t].fn \notin Connects /\ Goto(t, "inside")
        /\ UNCHANGED <<attached, call, found, synsent, starter>>
    BY <1>7 DEF TcpconnlatBackwards, Receiving
  <2>2. /\ DOMAIN inflight' = DOMAIN inflight \ {o}
        /\ \A x \in DOMAIN inflight' : inflight'[x] = inflight[x]
    BY <2>1, DeleteInflight
  <2> QED
    BY <2>1, <2>2
<1>8. ASSUME NEW t \in Threads, TcpconnlatLookup(t) PROVE Latency'
  BY <1>8 DEF TcpconnlatLookup, Receiving
<1>9. ASSUME NEW t \in Threads,
             \/ Leaves(t) \/ Misses(t) \/ OpensnoopFull(t) \/ Stores(t) \/ Counts(t) \/ Writes(t)
             \/ Deletes(t) \/ OpensnoopLookup(t)
      PROVE  FALSE
  BY <1>9 DEF Leaves, Misses, OpensnoopFull, Stores, Counts, Writes, Deletes, OpensnoopLookup,
     Pairing
<1> QED
  BY <1>1, <1>2, <1>3, <1>4, <1>5, <1>6, <1>7, <1>8, <1>9, Steps DEF ProbeStep

-----------------------------------------------------------------------------
(* tcpconnect and activeconn: the counts.                                  *)

\* A socket is connected with the addresses a.
Connected(a) == \E o \in DOMAIN opened : opened[o] = a

\* While every call is traced and updates come one at a time, a count in the map
\* is the expected one, the one being written is, and addresses without a count
\* have had no connection. The addresses of a socket that is connected have a
\* count, or are about to.
Exact ==
  /\ \A a \in Addresses : Updating(a) = {} =>
       IF a \in DOMAIN counts THEN counts[a] = expected[a] % Word ELSE expected[a] = 0
  /\ \A t \in Threads : pc[t] = "update" => val[t] = expected[hashKey[t]] % Word
  /\ \A t, u \in Threads :
       pc[t] = "update" /\ pc[u] = "update" /\ hashKey[t] = hashKey[u] => t = u
  /\ \A a \in Addresses : Connected(a) => a \in DOMAIN counts \/ Updating(a) # {}

ExactAlone == traced /\ alone => Exact

\* A call whose probes did not see it all is noted.
LEMMA Unseen ==
  ASSUME NEW t, NEW a, Account(t, a, FALSE)
  PROVE  UNCHANGED tallies \/ ~traced'
BY Zenon DEF Account, tallies

\* Steps that neither count nor write leave the counts and those who write alone,
\* or are noted.
LEMMA Uncounted ==
  ASSUME TypeInv, [Next]_vars, ~\E t \in Threads : Counts(t) \/ Writes(t)
  PROVE  /\ UNCHANGED <<counts, alone>>
         /\ UNCHANGED tallies \/ ~traced'
         /\ \A t \in Threads : pc'[t] = "update" <=> pc[t] = "update"
         /\ \A t \in Threads : pc[t] = "update" => hashKey'[t] = hashKey[t] /\ val'[t] = val[t]
<1> USE DEF TypeInv, Types, OthersSame, locals, mapVars, history, Goto, EndExit
<1>1. CASE Quiet
  BY <1>1 DEF Quiet
<1>2. ASSUME NEW p \in Probes, Attach(p)
      PROVE  UNCHANGED <<pc, hashKey, val>>
  BY <1>2 DEF Attach
<1>3. UNCHANGED <<counts, alone>>
  <2> HIDE DEF TypeInv
  <2> QED
    BY Steps DEF Quiet, Attach, Call, ReturnFn, ProbeStep, Passes, Leaves, Misses, NoEntry,
       OpensnoopFull, Stores, StoreEntry, Deletes, DeleteEntry, OpensnoopLookup, TraceConnect,
       TcpconnlatBackwards, TcpconnlatLookup
<1>6. UNCHANGED tallies \/ ~traced'
  <2> HIDE DEF TypeInv
  <2>1. ASSUME NEW t \in Threads, ReturnFn(t) PROVE UNCHANGED tallies \/ ~traced'
    BY <2>1, Unseen, Zenon DEF ReturnFn, tallies
  <2>2. ASSUME NEW t \in Threads, Misses(t) PROVE UNCHANGED tallies \/ ~traced'
    BY <2>2, Unseen, Zenon DEF Misses, NoEntry
  <2>3. ASSUME NEW t \in Threads, ProbeStep(t), ~Misses(t), ~Counts(t), ~Writes(t)
        PROVE  UNCHANGED tallies
    BY <2>3 DEF ProbeStep, Passes, Leaves, OpensnoopFull, Stores, StoreEntry, Deletes, DeleteEntry,
       OpensnoopLookup, TraceConnect, TcpconnlatBackwards, TcpconnlatLookup
  <2>4. ASSUME NEW t \in Threads, NEW fn \in Functions, NEW o \in Objects, Call(t, fn, o)
        PROVE  UNCHANGED tallies
    BY <2>4 DEF Call
  <2>5. ASSUME NEW p \in Probes, Attach(p) PROVE UNCHANGED tallies
    BY <2>5 DEF Attach
  <2>6. CASE Quiet
    BY <2>6 DEF Quiet
  <2> QED
    BY <2>1, <2>2, <2>3, <2>4, <2>5, <2>6, Steps, Zenon
<1>4. ASSUME NEW t \in Threads, NEW l, Goto(t, l), pc[t] # "update", l # "update",
             \A u \in Threads : u # t => hashKey'[u] = hashKey[u] /\ val'[u] = val[u]
      PROVE  /\ \A u \in Threads : pc'[u] = "update" <=> pc[u] = "update"
             /\ \A u \in Threads : pc[u] = "update" => hashKey'[u] = hashKey[u] /\ val'[u] = val[u]
  BY <1>4
<1>5. \/ Quiet \/ (\E p \in Probes : Attach(p))
      \/ \E t \in Threads : /\ pc[t] # "update" /\ (\E l : l # "update" /\ Goto(t, l))
                            /\ \A u \in Threads : u # t =>
                                 hashKey'[u] = hashKey[u] /\ val'[u] = val[u]
  <2> DEFINE Moves(t) == /\ pc[t] # "update" /\ (\E l : l # "update" /\ Goto(t, l))
                         /\ \A u \in Threads : u # t =>
                              hashKey'[u] = hashKey[u] /\ val'[u] = val[u]
  <2>1. ASSUME NEW t \in Threads, NEW fn \in Functions, NEW o \in Objects, Call(t, fn, o)
        PROVE  Moves(t)
    BY <2>1 DEF Call
  <2>2. ASSUME NEW t \in Threads, ReturnFn(t) PROVE Moves(t)
    BY <2>2 DEF ReturnFn
  <2>3. ASSUME NEW t \in Threads, Passes(t) PROVE Moves(t)
    BY <2>3 DEF Passes
  <2>4. ASSUME NEW t \in Threads, Leaves(t) \/ Misses(t) \/ OpensnoopFull(t) PROVE Moves(t)
    BY <2>4 DEF Leaves, Misses, NoEntry, OpensnoopFull
  <2>5. ASSUME NEW t \in Threads, Stores(t) \/ TraceConnect(t) \/ TcpconnlatBackwards(t)
        PROVE  Moves(t)
    BY <2>5 DEF Stores, StoreEntry, TraceConnect, TcpconnlatBackwards, Receiving
  <2>6. ASSUME NEW t \in Threads, Deletes(t) PROVE Moves(t)
    BY <2>6 DEF Deletes, DeleteEntry
  <2>7. ASSUME NEW t \in Threads, OpensnoopLookup(t) \/ TcpconnlatLookup(t) PROVE Moves(t)
    BY <2>7 DEF OpensnoopLookup, TcpconnlatLookup, Receiving
  <2> HIDE DEF Moves
  <2>8. \/ Quiet \/ (\E p \in Probes : Attach(p)) \/ \E t \in Threads : Moves(t)
    BY <2>1, <2>2, <2>3, <2>4, <2>5, <2>6, <2>7, Steps DEF ProbeStep
  <2> QED
    BY <2>8 DEF Moves
<1> QED
  BY <1>1, <1>2, <1>3, <1>4, <1>5, <1>6

\* A probe that reads a count nobody is writing computes the expected one.
LEMMA CountsStep ==
  ASSUME TypeInv, Pairs, ExactAlone, NEW t \in Threads, Counts(t)
  PROVE  ExactAlone'
<1> USE DEF TypeInv, Types, MapTypes
<1>1. PICK op \in {1, -1} : /\ CountFor(t, op) /\ prog \in Counting /\ prog \in Pairing
                            /\ op = IF call[t].fn = "tcp_close" THEN -1 ELSE 1
  <2>1. CASE prog = "tcpconnect" /\ CountFor(t, 1)
    <3>1. call[t].fn \in Functions
      BY <2>1 DEF CountFor
    <3>2. call[t].fn = "tcp_v4_connect"
      BY <2>1, <3>1, WhatIsCalled
    <3> QED
      BY <2>1, <3>2 DEF Pairing, Counting
  <2>2. CASE prog = "activeconn" /\ CountFor(t, Op(call[t].fn))
    BY <2>2 DEF Op, Pairing, Counting
  <2> QED
    BY <2>1, <2>2, Counts(t) DEF Counts
<1> SUFFICES ASSUME traced', alone' PROVE Exact'
  BY DEF ExactAlone
<1> DEFINE o == call[t].obj
           a == addr[o]
           closing == call[t].fn = "tcp_close"
<1>2. Account(t, a, call[t].entry = "stored") /\ pc[t] = "exit" /\ t \in DOMAIN inflight
  BY <1>1 DEF CountFor, KeyOf
<1>3. /\ traced /\ call[t].entry = "stored"
      /\ closing => /\ o \in DOMAIN opened /\ opened[o] = a /\ opened' = MapDelete(opened, o)
                    /\ expected' = [expected EXCEPT ![a] = @ - 1]
      /\ ~closing => expected' = [expected EXCEPT ![a] = @ + 1] /\ opened' = Put(opened, o, a)
  <2>1. CASE closing
    <3>1. traced /\ call[t].entry = "stored" /\ o \in DOMAIN opened /\ opened[o] = a
      BY <1>1, <1>2, <2>1, Zenon DEF Account
    <3>2. opened' = MapDelete(opened, o) /\ expected' = [expected EXCEPT ![opened[o]] = @ - 1]
      BY <1>1, <1>2, <2>1, <3>1 DEF Account
    <3> QED
      BY <2>1, <3>1, <3>2
  <2>2. CASE ~closing
    <3>1. traced /\ call[t].entry = "stored"
      BY <1>1, <1>2, <2>2, Zenon DEF Account
    <3>2. expected' = [expected EXCEPT ![a] = @ + 1] /\ opened' = Put(opened, o, a)
      BY <1>1, <1>2, <2>2 DEF Account
    <3> QED
      BY <2>2, <3>1, <3>2
  <2> QED
    BY <2>1, <2>2
<1>4. inflight[t] = o
  BY <1>1, <1>2, <1>3 DEF Pairs, Entered
<1>5. o \in Objects /\ a \in Addresses
  BY <1>2
<1>6. /\ pc' = [pc EXCEPT ![t] = "update"] /\ hashKey' = [hashKey EXCEPT ![t] = a]
      /\ val' = [val EXCEPT ![t] = NewCount(a, op)]
      /\ UNCHANGED counts
  BY <1>1, <1>4 DEF CountFor, KeyOf, mapVars, Goto
<1>7. alone /\ Updating(a) = {}
  BY <1>1, <1>4, Zenon DEF CountFor, KeyOf
<1>8. Exact
  BY <1>3, <1>7 DEF ExactAlone
<1>9. expected' = [expected EXCEPT ![a] = expected[a] + op]
  <2>1. CASE closing
    BY <1>1, <1>3, <1>5, <2>1
  <2>2. CASE ~closing
    BY <1>1, <1>3, <1>5, <2>2
  <2> QED
    BY <2>1, <2>2
<1>10. \A x \in DOMAIN opened' : opened'[x] = a \/ (x \in DOMAIN opened /\ opened'[x] = opened[x])
  <2>1. CASE closing
    BY <1>3, <2>1 DEF MapDelete
  <2>2. CASE ~closing
    BY <1>3, <2>2 DEF Put
  <2> QED
    BY <2>1, <2>2
<1>11. NewCount(a, op) = expected'[a] % Word
  <2>1. expected'[a] = expected[a] + op /\ expected[a] \in Int
    BY <1>5, <1>9
  <2>2. CASE a \in DOMAIN counts
    <3>1. counts[a] = expected[a] % Word
      BY <1>5, <1>7, <1>8, <2>2 DEF Exact
    <3>2. Word \in Nat \ {0} /\ op \in Int
      BY SizesAssumption
    <3>3. ((expected[a] % Word) + op) % Word = (expected[a] + op) % Word
      BY <2>1, <3>2, RemainderOfSum
    <3> QED
      BY <2>1, <2>2, <3>1, <3>3 DEF NewCount
  <2>3. CASE a \notin DOMAIN counts
    <3>1. ~closing /\ expected[a] = 0
      BY <1>3, <1>5, <1>7, <1>8, <2>3 DEF Exact, Connected
    <3>2. expected'[a] = 1
      BY <1>1, <2>1, <3>1
    <3> QED
      BY <2>3, <3>2, SizesAssumption DEF NewCount
  <2> QED
    BY <2>2, <2>3
<1> PICK aa : aa = a
  OBVIOUS
<1>12. /\ aa \in Addresses /\ Updating(aa) = {} /\ NewCount(aa, op) = expected'[aa] % Word
       /\ pc'[t] = "update" /\ hashKey'[t] = aa /\ val'[t] = NewCount(aa, op)
       /\ \A u \in Threads : u # t => pc'[u] = pc[u] /\ hashKey'[u] = hashKey[u] /\ val'[u] = val[u]
       /\ \A b \in Addresses : b # aa => expected'[b] = expected[b]
       /\ \A x \in DOMAIN opened' : opened'[x] = aa \/ (x \in DOMAIN opened /\ opened'[x] = opened[x])
  BY <1>5, <1>6, <1>7, <1>9, <1>10, <1>11
<1> HIDE DEF o, a, closing
<1>13. \A u \in Threads : u # t /\ pc[u] = "update" => hashKey[u] # aa
  BY <1>12 DEF Updating
<1>14. \A b : b # aa => Updating(b)' = Updating(b)
  BY <1>2, <1>12 DEF Updating
<1>15. t \in Updating(aa)'
  BY <1>12 DEF Updating
<1>16. \A b \in Addresses : Updating(b)' = {} =>
         IF b \in DOMAIN counts' THEN counts'[b] = expected'[b] % Word ELSE expected'[b] = 0
  BY <1>6, <1>8, <1>12, <1>14, <1>15 DEF Exact
<1>17. \A u \in Threads : pc'[u] = "update" => val'[u] = expected'[hashKey'[u]] % Word
  BY <1>8, <1>12, <1>13 DEF Exact
<1>18. \A u, v \in Threads :
         pc'[u] = "update" /\ pc'[v] = "update" /\ hashKey'[u] = hashKey'[v] => u = v
  BY <1>8, <1>12, <1>13 DEF Exact
<1>19. \A b \in Addresses : Connected(b)' => b \in DOMAIN counts' \/ Updating(b)' # {}
  <2> SUFFICES ASSUME NEW b \in Addresses, Connected(b)'
               PROVE  b \in DOMAIN counts' \/ Updating(b)' # {}
    OBVIOUS
  <2>1. CASE b = aa
    BY <1>15, <2>1
  <2>2. CASE b # aa
    <3>1. Connected(b)
      BY <1>12, <2>2 DEF Connected
    <3>2. b \in DOMAIN counts \/ Updating(b) # {}
      BY <1>8, <3>1 DEF Exact
    <3> QED
      BY <1>6, <1>14, <2>2, <3>2
  <2> QED
    BY <2>1, <2>2
<1> QED
  BY <1>16, <1>17, <1>18, <1>19 DEF Exact

\* What is written is the expected count, and the map holds it.
LEMMA WritesStep ==
  ASSUME TypeInv, ExactAlone, NEW t \in Threads, Writes(t)
  PROVE  ExactAlone'
<1> USE SizesAssumption DEF TypeInv, Types, MapTypes
<1> DEFINE a == hashKey[t]
<1>1. /\ pc[t] = "update" /\ pc' = [pc EXCEPT ![t] = "delete"]
      /\ counts' = MapUpdate(counts, a, val[t], MaxCounts)
      /\ UNCHANGED <<hashKey, val, expected, opened>>
  BY DEF Writes, WriteCount, locals, Goto
<1>2. traced' = (traced /\ Room(counts, a, MaxCounts)) /\ alone' = alone
  BY Zenon DEF Writes, WriteCount
<1> SUFFICES ASSUME traced', alone' PROVE Exact'
  BY DEF ExactAlone
<1>3. traced /\ alone /\ Room(counts, a, MaxCounts)
  BY <1>2, Zenon
<1>4. Exact
  BY <1>3 DEF ExactAlone
<1>5. /\ DOMAIN counts \subseteq DOMAIN counts' /\ DOMAIN counts' \subseteq DOMAIN counts \cup {a}
      /\ \A x \in DOMAIN counts : x # a => counts'[x] = counts[x]
      /\ a \in DOMAIN counts' /\ counts'[a] = val[t]
  <2> HIDE DEF a
  <2>1. IsFiniteSet(DOMAIN counts) /\ Cardinality(DOMAIN counts) <= MaxCounts /\ MaxCounts \in Nat
    OBVIOUS
  <2> QED
    BY <1>1, <1>3, <2>1, Update
<1>6. val[t] = expected[a] % Word
  BY <1>1, <1>4 DEF Exact
<1> HIDE DEF a
<1>7. /\ pc'[t] # "update"
      /\ \A u \in Threads : u # t => pc'[u] = pc[u]
  BY <1>1
<1>8. \A u \in Threads : u # t /\ pc[u] = "update" => hashKey[u] # a
  BY <1>1, <1>4 DEF Exact, a
<1>9. \A b : b # a => Updating(b)' = Updating(b)
  BY <1>1, <1>7, <1>8 DEF Updating, a
<1>10. \A b \in Addresses : Updating(b)' = {} =>
         IF b \in DOMAIN counts' THEN counts'[b] = expected'[b] % Word ELSE expected'[b] = 0
  BY <1>1, <1>4, <1>5, <1>6, <1>9 DEF Exact
<1>11. \A u \in Threads : pc'[u] = "update" => val'[u] = expected'[hashKey'[u]] % Word
  BY <1>1, <1>4, <1>7 DEF Exact
<1>12. \A u, v \in Threads :
         pc'[u] = "update" /\ pc'[v] = "update" /\ hashKey'[u] = hashKey'[v] => u = v
  BY <1>1, <1>4, <1>7 DEF Exact
<1>13. \A b \in Addresses : Connected(b)' => b \in DOMAIN counts' \/ Updating(b)' # {}
  <2>1. \A b : Connected(b)' = Connected(b)
    BY <1>1 DEF Connected
  <2> QED
    BY <1>4, <1>5, <1>9, <2>1 DEF Exact
<1> QED
  BY <1>10, <1>11, <1>12, <1>13 DEF Exact

\* Every step keeps the counts exact, or is noted in traced or in alone.
LEMMA ExactStep == TypeInv /\ Pairs /\ ExactAlone /\ [Next]_vars => ExactAlone'
<1> SUFFICES ASSUME TypeInv, Pairs, ExactAlone, [Next]_vars PROVE ExactAlone'
  OBVIOUS
<1>1. CASE \E t \in Threads : Counts(t) \/ Writes(t)
  BY <1>1, CountsStep, WritesStep
<1>2. CASE ~\E t \in Threads : Counts(t) \/ Writes(t)
  <2>1. /\ UNCHANGED <<counts, alone>>
        /\ UNCHANGED tallies \/ ~traced'
        /\ \A t \in Threads : pc'[t] = "update" <=> pc[t] = "update"
        /\ \A t \in Threads : pc[t] = "update" => hashKey'[t] = hashKey[t] /\ val'[t] = val[t]
    BY <1>2, Uncounted, Zenon
  <2>2. \A b : Updating(b)' = Updating(b)
    BY <2>1 DEF Updating
  <2> SUFFICES ASSUME traced', alone' PROVE Exact'
    BY DEF ExactAlone
  <2>3. traced /\ alone /\ UNCHANGED <<expected, opened>>
    BY <2>1, Zenon DEF tallies
  <2>4. Exact
    BY <2>3 DEF ExactAlone
  <2>5. \A b : Connected(b)' = Connected(b)
    BY <2>3 DEF Connected
  <2> QED
    BY <2>1, <2>2, <2>3, <2>4, <2>5 DEF Exact
<1> QED
  BY <1>1, <1>2

-----------------------------------------------------------------------------
(* The invariant, and what follows.                                        *)

Inv == TypeInv /\ RingInv /\ Pairs /\ Alone /\ Latency /\ ExactAlone

\* Before anything is attached there is nothing in the maps.
LEMMA InitInv == Init => Inv
<1> SUFFICES ASSUME Init PROVE Inv
  OBVIOUS
<1> USE SizesAssumption DEF Init
<1>1. DOMAIN inflight = {} /\ DOMAIN counts = {}
  OBVIOUS
<1>2. IsFiniteSet({}) /\ Cardinality({}) = 0
  BY FS_EmptySet
<1>3. TypeInv
  <2>1. Types
    <3>1. addr \in [Objects -> Addresses]
      OBVIOUS
    <3>2. hashKey \in [Threads -> Addresses]
      BY ObjectsAssumption
    <3>3. DOMAIN opened = {}
      OBVIOUS
    <3> QED
      BY <3>1, <3>2, <3>3 DEF Types, PCs
  <2>2. MapTypes
    BY <1>1, <1>2 DEF MapTypes
  <2> QED
    BY <2>1, <2>2 DEF TypeInv
<1>4. RingInv
  BY DEF RingInv
<1>5. Pairs /\ Alone
  BY <1>1 DEF Pairs, Alone, Looked, Entered
<1>6. Latency
  BY <1>1 DEF Latency, Looked
<1>7. ExactAlone
  BY <1>1 DEF ExactAlone, Exact, Connected
<1> QED
  BY <1>3, <1>4, <1>5, <1>6, <1>7 DEF Inv

\* Inv is an inductive invariant of the specification.
LEMMA Inductive == Spec => []Inv
<1>1. Inv /\ [Next]_vars => Inv'
  BY TypesStep, MapTypesStep, RingStep, PairsStep, AloneStep, LatencyStep, ExactStep DEF Inv,
     TypeInv
<1> QED
  BY InitInv, <1>1, PTL DEF Spec

\* The range of every variable: the maps and the ring buffer of the examples keep
\* to max_entries, however the probes of several threads interleave.
THEOREM TypeCorrect == Spec => []TypeOK
<1>1. Inv => TypeOK
  <2> SUFFICES ASSUME Inv PROVE TypeOK
    OBVIOUS
  <2>1. \A t \in Threads : call[t] = NoCall <=> pc[t] = "user"
    BY ObjectsAssumption DEF Inv, TypeInv, Types, NoCall
  <2> QED
    BY <2>1 DEF Inv, TypeInv, Types, MapTypes, RingInv, TypeOK
<1> QED
  BY <1>1, Inductive, PTL

\* exit_tcp_connect() of tcpconnect, record() of activeconn and trace_exit() of
\* opensnoop report what their own call was entered with, and tcpconnlat's
\* handle_tcp_rcv_state_process() the thread that connected the socket.
THEOREM ReportsItsOwnCall == Spec => []EntryOfThisCall
<1>1. Inv => EntryOfThisCall
  BY DEF Inv, Pairs, Entered, Latency, EntryOfThisCall, Pairing
<1> QED
  BY <1>1, Inductive, PTL

\* The map of the calls in progress holds nothing of a call that is over, but for
\* the calls whose return probe did not run, because it was attached too late or
\* missed by the kernel, and opensnoop's early return when the ring buffer is full.
THEOREM EntriesEnd == Spec => []NoStaleEntries
<1>1. Inv => NoStaleEntries
  BY DEF Inv, TypeInv, MapTypes, Pairs, NoStaleEntries, Pairing
<1> QED
  BY <1>1, Inductive, PTL

\* A count that no probe is about to write is the number of connects less closes,
\* modulo the word, as long as every call was traced and the updates of a count
\* came one at a time.
THEOREM CountsExact == Spec => []CountsExactAlone
<1>1. Inv => CountsExactAlone
  <2> SUFFICES ASSUME Inv, traced, alone, NEW a \in Addresses, Updating(a) = {}
               PROVE  (IF a \in DOMAIN counts THEN counts[a] ELSE 0) = expected[a] % Word
    BY DEF CountsExactAlone
  <2>1. IF a \in DOMAIN counts THEN counts[a] = expected[a] % Word ELSE expected[a] = 0
    BY DEF Inv, ExactAlone, Exact
  <2>2. 0 % Word = 0
    BY SizesAssumption
  <2> QED
    BY <2>1, <2>2
<1> QED
  BY <1>1, Inductive, PTL
=============================================================================
