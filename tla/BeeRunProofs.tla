---------------------------- MODULE BeeRunProofs ----------------------------
(***************************************************************************)
(* The safety properties of BeeRun, proved for any maps, options, channel  *)
(* capacity and bounds.                                                    *)
(*                                                                         *)
(* Type correctness is proved first, on its own. The other properties      *)
(* follow from one inductive invariant, IndInv, whose conjuncts say where  *)
(* the goroutines can be relative to each other (Phases, Readers, Queue),  *)
(* what has been registered and put on the screen (Tables, Screen), where  *)
(* the keys and the focus are (Navigation) and what is between the senders *)
(* and the display (Backlog). Each conjunct has a lemma that a step        *)
(* preserves it.                                                           *)
(***************************************************************************)
EXTENDS BeeRun, TLAPS, FiniteSetTheorems, SequenceTheorems

\* The event loop holds a read lock while it iterates, so NavSelect never
\* takes the number of read locks below zero.
TypeInv == TypeOK /\ (tui = "iterate" => rlocks >= 1)

\* There are finitely many registered maps: nextTable and prevTable can count them.
LEMMA RegisteredFinite ==
  ASSUME TypeOK
  PROVE  IsFiniteSet(Registered) /\ Cardinality(Registered) \in Nat
<1>1. Registered \subseteq Maps
  BY DEF Registered
<1> QED
  BY <1>1, MapsAssumption, FS_Subset, FS_CardinalityType

\* The initial state is well typed.
LEMMA TypeInit == Init => TypeInv
<1> SUFFICES ASSUME Init PROVE TypeInv
  OBVIOUS
<1>1. ctx \in BOOLEAN /\ egErr \in BOOLEAN /\ closed \in BOOLEAN
  BY Zenon DEF Init
<1> QED
  BY <1>1, OptionsAssumption
  DEF Init, TypeInv, TypeOK, Faults, TuiStates, LoadStates, Registering, Serving, Absent

\* Every step of every goroutine keeps the types.
LEMMA TypeStep == TypeInv /\ [Next]_vars => TypeInv'
<1> SUFFICES ASSUME TypeInv, [Next]_vars PROVE TypeInv'
  OBVIOUS
<1> USE DEF TypeInv, TypeOK, Faults, TuiStates, LoadStates, Registering, Serving, Absent,
        runVars, tuiVars, tableVars, loadVars, chanVars, watchVars, notRun, notTui, notPc, notLoad,
        TuiGoes, LoadGoes, MapGoes
<1>1. CASE RunNext
  <2>1. CASE SetupFails
    BY <2>1 DEF SetupFails
  <2>2. CASE SetupDone
    BY <2>2 DEF SetupDone
  <2>3. CASE Signal
    BY <2>3 DEF Signal
  <2>4. CASE RunReturns
    BY <2>4 DEF RunReturns
  <2> QED
    BY <1>1, <2>1, <2>2, <2>3, <2>4 DEF RunNext
<1>2. CASE TuiNext
  <2>1. CASE TuiStart
    BY <2>1 DEF TuiStart
  <2>2. CASE TuiFails
    BY <2>2 DEF TuiFails
  <2>3. CASE KeyCtrlC
    BY <2>3 DEF KeyCtrlC
  <2>4. CASE KeyQ
    BY <2>4 DEF KeyQ
  <2>5. CASE TuiStop
    BY <2>5 DEF TuiStop
  <2>6. CASE RunUpdate
    BY <2>6 DEF RunUpdate, FocusAfter
  <2>7. CASE NavKey(NextIndex)
    BY <2>7, RegisteredFinite DEF NavKey, NextIndex
  <2>8. CASE NavKey(PrevIndex)
    BY <2>8, RegisteredFinite DEF NavKey, PrevIndex
  <2>9. CASE NavRLock
    BY <2>9 DEF NavRLock
  <2>10. CASE NavSelect
    BY <2>10 DEF NavSelect, Registered
  <2> QED
    BY <1>2, <2>1, <2>2, <2>3, <2>4, <2>5, <2>6, <2>7, <2>8, <2>9, <2>10 DEF TuiNext
<1>3. CASE LoadNext
  <2>1. CASE LoadEntry
    BY <2>1 DEF LoadEntry
  <2>2. CASE LoadFails
    BY <2>2 DEF LoadFails
  <2>3. CASE LoadAttached
    BY <2>3 DEF LoadAttached
  <2>4. CASE SpawnedAll
    BY <2>4 DEF SpawnedAll
  <2>5. CASE EgWait
    BY <2>5 DEF EgWait
  <2>6. CASE LoadClose
    BY <2>6 DEF LoadClose
  <2>7. CASE \E m \in Maps : Spawn(m)
    BY <2>7 DEF Spawn
  <2> QED
    BY <1>3, <2>1, <2>2, <2>3, <2>4, <2>5, <2>6, <2>7 DEF LoadNext
<1>4. ASSUME NEW m \in Maps, MapNext(m) PROVE TypeInv'
  <2>1. CASE RequestLock(m)
    BY <2>1 DEF RequestLock
  <2>2. CASE AcquireLock(m)
    BY <2>2, RegisteredFinite DEF AcquireLock
  <2>3. CASE Register(m)
    BY <2>3 DEF Register
  <2>4. CASE QueueUpdate(m)
    BY <2>4 DEF QueueUpdate
  <2>5. CASE OpenReader(m)
    BY <2>5 DEF OpenReader
  <2>6. CASE OpenFails(m)
    BY <2>6 DEF OpenFails, ReturnError
  <2>7. CASE CloseReader(m)
    BY <2>7 DEF CloseReader
  <2>8. CASE RingRead(m)
    <3>1. CASE MapGoes(m, "loop", "send")
      BY <3>1
    <3>2. CASE MapGoes(m, "loop", "loop")
      BY <3>2
    <3> QED
      BY <2>8, <3>1, <3>2 DEF RingRead, CallSendEntry
  <2>9. CASE RingNilInstrument(m)
    BY <2>9 DEF RingNilInstrument
  <2>10. CASE RingClosed(m)
    BY <2>10 DEF RingClosed
  <2>11. CASE DecodeFails(m)
    BY <2>11 DEF DecodeFails, ReturnError
  <2>12. CASE StartTicker(m)
    BY <2>12 DEF StartTicker
  <2>13. CASE HashTick(m)
    BY <2>13 DEF HashTick
  <2>14. CASE HashEntry(m)
    <3>1. CASE MapGoes(m, "iter", "send")
      BY <3>1
    <3>2. CASE MapGoes(m, "iter", "iter")
      BY <3>2
    <3> QED
      BY <2>14, <3>1, <3>2 DEF HashEntry, CallSendEntry
  <2>15. CASE HashFatal(m)
    BY <2>15 DEF HashFatal
  <2>16. CASE HashIterEnd(m)
    BY <2>16 DEF HashIterEnd
  <2>17. CASE HashDone(m)
    BY <2>17 DEF HashDone
  <2>18. CASE Send(m)
    <3>1. CASE closed
      BY <2>18, <3>1 DEF Send
    <3>2. CASE ~closed
      <4>1. pc' = [pc EXCEPT ![m] = "loop"] \/ pc' = [pc EXCEPT ![m] = "iter"]
        BY <2>18, <3>2 DEF Send
      <4>2. pc' \in [Maps -> {"idle", "done"} \cup Registering \cup Serving]
        <5>1. CASE pc' = [pc EXCEPT ![m] = "loop"]
          BY <5>1
        <5>2. CASE pc' = [pc EXCEPT ![m] = "iter"]
          BY <5>2
        <5> QED
          BY <4>1, <5>1, <5>2
      <4>3. entries' \in Seq(Maps) /\ accepted' \in Seq(Maps)
        <5>1. entries' = Append(entries, m) /\ accepted' = Append(accepted, m)
          BY <2>18, <3>2 DEF Send
        <5> QED
          BY <5>1
      <4>4. UNCHANGED <<runVars, tuiVars, updates, tableVars, rd, loadVars, closed, watchVars>>
        BY <2>18, <3>2 DEF Send
      <4> QED
        BY <4>2, <4>3, <4>4
    <3> QED
      BY <3>1, <3>2
  <2> QED
    BY <1>4, <2>1, <2>2, <2>3, <2>4, <2>5, <2>6, <2>7, <2>8, <2>9, <2>10, <2>11, <2>12, <2>13,
       <2>14, <2>15, <2>16, <2>17, <2>18
    DEF MapNext
<1>5. CASE WatchNext
  <2>1. CASE WatchRecv
    BY <2>1 DEF WatchRecv
  <2>2. CASE WatchRender
    BY <2>2 DEF WatchRender, Registered
  <2>3. CASE WatchEnd
    BY <2>3 DEF WatchEnd
  <2>4. CASE MapRaceNoticed
    BY <2>4 DEF MapRaceNoticed
  <2> QED
    BY <1>5, <2>1, <2>2, <2>3, <2>4 DEF WatchNext
<1>6. CASE UNCHANGED vars
  BY <1>6 DEF vars
<1> QED
  BY <1>1, <1>2, <1>3, <1>4, <1>5, <1>6 DEF Next, Ended

\* The variables of `bee run` keep their types: in particular prevTable never makes
\* currentIndex negative and no RUnlock is called without a read lock.
THEOREM TypeCorrect == Spec => []TypeOK
<1>1. TypeInv => TypeOK
  BY DEF TypeInv
<1> QED
  BY <1>1, TypeInit, TypeStep, PTL DEF Spec

-----------------------------------------------------------------------------
(* Who may be where: Load, its goroutines, the readers and the queue.      *)

Phases ==
  /\ load \in {"entry", "attach"} => \A m \in Maps : pc[m] = "idle"
  /\ load \in {"closing", "done"} => \A m \in Maps : pc[m] \in {"idle", "done"}
  /\ closed => load = "done"
  /\ fault # "sendOnClosed"

Readers ==
  \A m \in Maps : rd[m] = "open" => m \in RingBufs /\ pc[m] \in {"loop", "send"}

Queue ==
  /\ \A i \in 1..Len(updates) : pc[updates[i]] = "await"
  /\ \A i, j \in 1..Len(updates) : updates[i] = updates[j] => i = j

\* The registrations in progress and done.
Early == {"idle", "register", "lockwait", "critical"}

Tables ==
  /\ \A m \in Maps : pc[m] \in Early => mapOfMaps[m] = Absent
  /\ Tty => \A m \in Maps : pc[m] \notin Early => mapOfMaps[m] # Absent
  /\ \A m, n \in Maps : pc[m] = "critical" /\ pc[n] = "critical" => m = n
  /\ \A m \in Maps : pc[m] = "critical" => slot[m] = Cardinality(Registered)
  /\ IndexesArePositions

\* The tables on the screen, and the entries that need one.
Screen ==
  /\ \A m \in Maps : pc[m] \in Registering \cup {"send"} => Tty
  /\ Tty => \A m \in Maps : pc[m] \in Serving \cup {"done"} => m \in OnScreen
  /\ OnScreen \subseteq Registered
  /\ EntriesHaveTables

\* What has been accepted is what has been shown, then the entry being
\* rendered, then the contents of the channel.
Held == IF watch = "render" THEN 1 ELSE 0

Backlog ==
  /\ Len(accepted) = Len(shown) + Held + Len(entries)
  /\ \A i \in 1..Len(shown) : shown[i] = accepted[i]
  /\ watch = "render" => cur = accepted[Len(shown) + 1]
  /\ \A i \in 1..Len(entries) : entries[i] = accepted[Len(shown) + Held + i]
  /\ watch = "render" <=> cur # NoMap
  /\ ~Tty => watch = "done" /\ accepted = << >>
  /\ watch = "done" => entries = << >> /\ (Tty => closed)
  /\ main = "setup" => accepted = << >>
  /\ main = "returned" => shown = accepted

\* Every position has a table, and the keys stay among them. Where tview withholds
\* keys from a root without focus, the first table has taken the focus before any
\* key is handled, and no other closure of makeMapValue moves it.
Navigation ==
  /\ \A k \in 0..(Cardinality(Registered) - 1) : \E m \in Registered : mapOfMaps[m] = k
  /\ currentIndex = 0 \/ currentIndex < Cardinality(Registered)
  /\ tui \in {"rlock", "iterate"} => currentIndex < Cardinality(Registered)
  /\ \A m \in Maps : pc[m] \in {"queue", "await"} => mapOfMaps[m] = slot[m]
  /\ focus # NoMap => focus \in Registered
  /\ ~RootHasFocus =>
       /\ focus = NoMap => currentIndex = 0 /\ tui \notin {"rlock", "iterate"}
       /\ focus # NoMap => \E z \in Registered : mapOfMaps[z] = 0 /\ pc[z] \notin Registering
       /\ focus # NoMap /\ tui \notin {"rlock", "iterate"} => mapOfMaps[focus] = currentIndex

IndInv ==
  TypeInv /\ Phases /\ Readers /\ Queue /\ Tables /\ Screen /\ Backlog /\ Navigation

\* A sequence without repetitions loses exactly its head when the head is removed.
LEMMA TailOfDistinct ==
  ASSUME NEW S, NEW q \in Seq(S), q # << >>,
         \A i, j \in 1..Len(q) : q[i] = q[j] => i = j
  PROVE  /\ \A i \in 1..Len(Tail(q)) : /\ Tail(q)[i] = q[i + 1]
                                       /\ i + 1 \in 1..Len(q)
                                       /\ Tail(q)[i] # Head(q)
         /\ \A i, j \in 1..Len(Tail(q)) : Tail(q)[i] = Tail(q)[j] => i = j
<1>1. Len(q) \in Nat /\ Len(q) # 0 /\ Len(Tail(q)) = Len(q) - 1 /\ Head(q) = q[1]
  OBVIOUS
<1>2. ASSUME NEW i \in 1..Len(Tail(q))
      PROVE  Tail(q)[i] = q[i + 1] /\ i + 1 \in 1..Len(q)
  BY <1>1
<1>3. ASSUME NEW i \in 1..Len(Tail(q)) PROVE Tail(q)[i] # Head(q)
  <2>1. i + 1 # 1 /\ 1 \in 1..Len(q)
    BY <1>1
  <2> QED
    BY <1>1, <1>2, <2>1
<1>4. ASSUME NEW i \in 1..Len(Tail(q)), NEW j \in 1..Len(Tail(q)), Tail(q)[i] = Tail(q)[j]
      PROVE  i = j
  <2>1. q[i + 1] = q[j + 1] /\ i + 1 \in 1..Len(q) /\ j + 1 \in 1..Len(q)
    BY <1>2, <1>4
  <2>2. i + 1 = j + 1
    BY <2>1
  <2> QED
    BY <1>1, <2>2
<1> QED
  BY <1>2, <1>3, <1>4

\* A sequence without repetitions stays so when a new element is appended.
LEMMA AppendToDistinct ==
  ASSUME NEW S, NEW q \in Seq(S), NEW e \in S
  PROVE  /\ \A i \in 1..Len(Append(q, e)) :
              Append(q, e)[i] = e \/ \E j \in 1..Len(q) : Append(q, e)[i] = q[j]
         /\ (\A i, j \in 1..Len(q) : q[i] = q[j] => i = j) /\ (\A i \in 1..Len(q) : q[i] # e)
              => \A i, j \in 1..Len(Append(q, e)) : Append(q, e)[i] = Append(q, e)[j] => i = j
<1> DEFINE r == Append(q, e)
<1>1. Len(q) \in Nat /\ Len(r) = Len(q) + 1 /\ r[Len(q) + 1] = e
  OBVIOUS
<1>2. \A i \in 1..Len(q) : r[i] = q[i]
  OBVIOUS
<1> HIDE DEF r
<1>3. \A i \in 1..Len(r) : i = Len(q) + 1 \/ i \in 1..Len(q)
  BY <1>1
<1>4. \A i \in 1..Len(r) : r[i] = e \/ \E j \in 1..Len(q) : r[i] = q[j]
  BY <1>1, <1>2, <1>3
<1>5. ASSUME \A i, j \in 1..Len(q) : q[i] = q[j] => i = j, \A i \in 1..Len(q) : q[i] # e,
             NEW i \in 1..Len(r), NEW j \in 1..Len(r), r[i] = r[j]
      PROVE  i = j
  <2>1. CASE i = Len(q) + 1 \/ j = Len(q) + 1
    BY <1>1, <1>2, <1>3, <1>5, <2>1
  <2>2. CASE i \in 1..Len(q) /\ j \in 1..Len(q)
    BY <1>2, <1>5, <2>2
  <2> QED
    BY <1>3, <2>1, <2>2
<1> QED
  BY <1>4, <1>5 DEF r

\* The elements of a sequence after an Append.
LEMMA AppendRange ==
  ASSUME NEW S, NEW q \in Seq(S), NEW e \in S
  PROVE  {Append(q, e)[i] : i \in 1..Len(Append(q, e))} = {q[i] : i \in 1..Len(q)} \cup {e}
<1> DEFINE r == Append(q, e)
<1>1. Len(q) \in Nat /\ Len(r) = Len(q) + 1 /\ r[Len(q) + 1] = e
  OBVIOUS
<1>2. \A i \in 1..Len(q) : r[i] = q[i]
  OBVIOUS
<1> HIDE DEF r
<1>3. \A i \in 1..Len(r) : i = Len(q) + 1 \/ i \in 1..Len(q)
  BY <1>1
<1>4. Len(q) + 1 \in 1..Len(r) /\ \A i \in 1..Len(q) : i \in 1..Len(r)
  BY <1>1
<1>5. {r[i] : i \in 1..Len(r)} = {q[i] : i \in 1..Len(q)} \cup {e}
  BY <1>1, <1>2, <1>3, <1>4
<1> QED
  BY <1>5 DEF r

\* The elements of a non-empty sequence are its head and those of its tail.
LEMMA HeadAndTail ==
  ASSUME NEW S, NEW q \in Seq(S), q # << >>, NEW T, \A i \in 1..Len(q) : q[i] \in T
  PROVE  Head(q) \in T /\ \A i \in 1..Len(Tail(q)) : Tail(q)[i] \in T
<1>1. Len(q) \in Nat /\ Len(q) # 0 /\ Len(Tail(q)) = Len(q) - 1 /\ Head(q) = q[1]
  OBVIOUS
<1>2. ASSUME NEW i \in 1..Len(Tail(q)) PROVE Tail(q)[i] = q[i + 1] /\ i + 1 \in 1..Len(q)
  BY <1>1
<1> QED
  BY <1>1, <1>2

\* The goroutine the event loop is about to wake is waiting for it.
LEMMA HeadAwaits ==
  ASSUME TypeInv, Queue, updates # << >>
  PROVE  Head(updates) \in Maps /\ pc[Head(updates)] = "await"
<1>1. updates \in Seq(Maps) /\ 1 \in 1..Len(updates) /\ Head(updates) = updates[1]
  BY DEF TypeInv, TypeOK
<1> QED
  BY <1>1 DEF Queue

\* Every step preserves Phases: EgWait waits for all goroutines, LoadClose comes after it.
LEMMA PhasesStep == TypeInv /\ Phases /\ Queue /\ [Next]_vars => Phases'
<1> SUFFICES ASSUME TypeInv, Phases, Queue, [Next]_vars PROVE Phases'
  OBVIOUS
<1> USE DEF TypeInv, TypeOK, Phases,
        runVars, tuiVars, tableVars, loadVars, chanVars, watchVars, notRun, notTui, notPc, notLoad,
        TuiGoes, LoadGoes, MapGoes
<1>1. CASE UNCHANGED <<load, pc, closed, fault>>
  BY <1>1
<1>2. CASE RunNext \/ UNCHANGED vars
  BY <1>2, <1>1 DEF RunNext, SetupFails, SetupDone, Signal, RunReturns, vars
<1>3. CASE TuiNext
  <2>1. CASE RunUpdate
    BY <2>1, HeadAwaits DEF RunUpdate
  <2>2. CASE ~RunUpdate
    BY <1>1, <1>3, <2>2
    DEF TuiNext, TuiStart, TuiFails, KeyCtrlC, KeyQ, TuiStop, NavKey, NavRLock, NavSelect
  <2> QED
    BY <2>1, <2>2
<1>4. CASE LoadNext
  BY <1>4
  DEF LoadNext, LoadEntry, LoadFails, LoadAttached, SpawnedAll, EgWait, WatchersDone, LoadClose, Spawn
<1>5. CASE WatchNext
  BY <1>5 DEF WatchNext, WatchRecv, WatchRender, WatchEnd, MapRaceNoticed
<1>6. ASSUME NEW m \in Maps, MapNext(m) PROVE Phases'
  <2>1. CASE CloseReader(m) 
    BY <2>1, <1>1 DEF CloseReader
  <2>2. CASE RingNilInstrument(m) \/ HashFatal(m)
    BY <2>2 DEF RingNilInstrument, HashFatal
  <2>3. CASE Send(m)
    BY <2>3 DEF Send
  <2> QED
    BY <1>6, <2>1, <2>2, <2>3 DEF MapNext, RequestLock, AcquireLock, Register, QueueUpdate,
       OpenReader, OpenFails, DecodeFails, ReturnError, RingRead, HashEntry, CallSendEntry,
       RingClosed, StartTicker, HashTick, HashIterEnd, HashDone
<1> QED
  BY <1>2, <1>3, <1>4, <1>5, <1>6 DEF Next, Ended

\* Every step preserves Readers: a goroutine that returns has closed its reader.
LEMMA ReadersStep == TypeInv /\ Readers /\ Queue /\ [Next]_vars => Readers'
<1> SUFFICES ASSUME TypeInv, Readers, Queue, [Next]_vars PROVE Readers'
  OBVIOUS
<1> USE DEF TypeInv, TypeOK, Readers,
        runVars, tuiVars, tableVars, loadVars, chanVars, watchVars, notRun, notTui, notPc, notLoad,
        TuiGoes, LoadGoes, MapGoes
<1>1. CASE UNCHANGED <<pc, rd>>
  BY <1>1
<1>2. CASE RunNext \/ UNCHANGED vars
  BY <1>2, <1>1 DEF RunNext, SetupFails, SetupDone, Signal, RunReturns, vars
<1>3. CASE TuiNext
  <2>1. CASE RunUpdate
    BY <2>1, HeadAwaits DEF RunUpdate
  <2>2. CASE ~RunUpdate
    BY <1>1, <1>3, <2>2
    DEF TuiNext, TuiStart, TuiFails, KeyCtrlC, KeyQ, TuiStop, NavKey, NavRLock, NavSelect
  <2> QED
    BY <2>1, <2>2
<1>4. CASE LoadNext
  BY <1>4 DEF LoadNext, LoadEntry, LoadFails, LoadAttached, SpawnedAll, EgWait, LoadClose, Spawn
<1>5. CASE WatchNext
  BY <1>1, <1>5 DEF WatchNext, WatchRecv, WatchRender, WatchEnd, MapRaceNoticed
<1>6. ASSUME NEW m \in Maps, MapNext(m) PROVE Readers'
  <2>1. CASE OpenReader(m) \/ CloseReader(m)
    BY <2>1 DEF OpenReader, CloseReader
  <2>2. CASE OpenFails(m) \/ DecodeFails(m)
    BY <2>2 DEF OpenFails, DecodeFails, ReturnError
  <2>3. CASE RingRead(m) \/ HashEntry(m)
    BY <2>3 DEF RingRead, HashEntry, CallSendEntry
  <2>4. CASE Send(m)
    BY <2>4 DEF Send
  <2> QED
    BY <1>6, <2>1, <2>2, <2>3, <2>4 DEF MapNext, RequestLock, AcquireLock, Register, QueueUpdate,
       RingNilInstrument, RingClosed, StartTicker, HashTick, HashFatal, HashIterEnd, HashDone
<1> QED
  BY <1>2, <1>3, <1>4, <1>5, <1>6 DEF Next, Ended

\* Every step preserves Queue: QueueUpdateDraw queues one closure and waits for it.
LEMMA QueueStep == TypeInv /\ Queue /\ [Next]_vars => Queue'
<1> SUFFICES ASSUME TypeInv, Queue, [Next]_vars PROVE Queue'
  OBVIOUS
<1> USE DEF TypeInv, TypeOK, Queue,
        runVars, tuiVars, tableVars, loadVars, chanVars, watchVars, notRun, notTui, notPc, notLoad,
        TuiGoes, LoadGoes, MapGoes
<1>1. CASE UNCHANGED <<pc, updates>>
  BY <1>1
<1>2. CASE RunNext \/ UNCHANGED vars
  BY <1>2, <1>1 DEF RunNext, SetupFails, SetupDone, Signal, RunReturns, vars
<1>3. CASE TuiNext
  <2>1. CASE RunUpdate
    <3>1. updates # << >> /\ updates' = Tail(updates)
          /\ pc' = [pc EXCEPT ![Head(updates)] = "start"]
      BY <2>1 DEF RunUpdate
    <3>2. updates' \in Seq(Maps)
      BY <3>1
    <3>3. \A i \in 1..Len(updates') : /\ updates'[i] = updates[i + 1]
                                      /\ i + 1 \in 1..Len(updates)
                                      /\ updates'[i] # Head(updates)
      BY <3>1, TailOfDistinct
    <3>4. \A i \in 1..Len(updates') : pc'[updates'[i]] = "await"
      <4> TAKE i \in 1..Len(updates')
      <4>1. updates'[i] \in Maps /\ updates'[i] # Head(updates)
        BY <3>2, <3>3
      <4>2. pc[updates'[i]] = "await"
        <5>1. updates'[i] = updates[i + 1] /\ i + 1 \in 1..Len(updates)
          BY <3>3
        <5> QED
          BY <5>1
      <4> QED
        BY <3>1, <4>1, <4>2
    <3>5. \A i, j \in 1..Len(updates') : updates'[i] = updates'[j] => i = j
      <4>1. \A i, j \in 1..Len(Tail(updates)) : Tail(updates)[i] = Tail(updates)[j] => i = j
        BY <3>1, TailOfDistinct
      <4> QED
        BY <3>1, <4>1
    <3> QED
      BY <3>4, <3>5
  <2>2. CASE ~RunUpdate
    BY <1>1, <1>3, <2>2
    DEF TuiNext, TuiStart, TuiFails, KeyCtrlC, KeyQ, TuiStop, NavKey, NavRLock, NavSelect
  <2> QED
    BY <2>1, <2>2
<1>4. CASE LoadNext
  <2>1. ASSUME NEW m \in Maps, Spawn(m) PROVE Queue'
    <3>1. \A i \in 1..Len(updates) : updates[i] # m /\ updates[i] \in Maps
      BY <2>1 DEF Spawn
    <3> QED
      BY <2>1, <3>1 DEF Spawn
  <2> QED
    BY <1>1, <1>4, <2>1
    DEF LoadNext, LoadEntry, LoadFails, LoadAttached, SpawnedAll, EgWait, LoadClose
<1>5. CASE WatchNext
  BY <1>1, <1>5 DEF WatchNext, WatchRecv, WatchRender, WatchEnd, MapRaceNoticed
<1>6. ASSUME NEW m \in Maps, MapNext(m) PROVE Queue'
  <2>1. CASE QueueUpdate(m)
    <3>1. pc[m] = "queue" /\ updates' = Append(updates, m) /\ pc' = [pc EXCEPT ![m] = "await"]
      BY <2>1 DEF QueueUpdate
    <3>2. \A i \in 1..Len(updates) : updates[i] # m /\ updates[i] \in Maps
      BY <3>1
    <3>3. \A i \in 1..Len(updates') : updates'[i] = m \/ \E j \in 1..Len(updates) : updates'[i] = updates[j]
      BY <3>1, AppendToDistinct
    <3>4. \A i \in 1..Len(updates') : pc'[updates'[i]] = "await"
      BY <3>1, <3>2, <3>3
    <3>5. \A i, j \in 1..Len(updates') : updates'[i] = updates'[j] => i = j
      BY <3>1, <3>2, AppendToDistinct
    <3> QED
      BY <3>4, <3>5
  <2>2. CASE UNCHANGED updates /\ pc[m] # "await" /\ \E to : pc' = [pc EXCEPT ![m] = to]
    BY <2>2
  <2>3. CASE Send(m)
    BY <1>1, <2>2, <2>3 DEF Send
  <2> QED
    BY <1>1, <1>6, <2>1, <2>2, <2>3 DEF MapNext, RequestLock, AcquireLock, Register,
       OpenReader, OpenFails, CloseReader, RingRead, HashEntry, DecodeFails, ReturnError, CallSendEntry,
       RingNilInstrument, RingClosed, StartTicker, HashTick, HashFatal, HashIterEnd, HashDone
<1> QED
  BY <1>2, <1>3, <1>4, <1>5, <1>6 DEF Next, Ended

\* A goroutine that moves without touching mapOfMaps, and without entering or
\* passing its critical section, keeps Tables.
LEMMA MoveKeepsTables ==
  ASSUME TypeInv, Tables, NEW m \in Maps, NEW to, to # "critical",
         pc' = [pc EXCEPT ![m] = to], UNCHANGED <<slot, mapOfMaps>>,
         to \in Early => pc[m] \in Early,
         Tty /\ pc[m] \in Early => to \in Early
  PROVE  Tables'
<1>1. Registered' = Registered
  BY DEF Registered
<1>2. \A n \in Maps : n # m => pc'[n] = pc[n]
  BY DEF TypeInv, TypeOK
<1>3. pc'[m] = to
  BY DEF TypeInv, TypeOK
<1> QED
  BY <1>1, <1>2, <1>3 DEF Tables, IndexesArePositions

\* Every step preserves Tables: mapMutex lets one goroutine at a time take an index.
LEMMA TablesStep == TypeInv /\ Queue /\ Tables /\ [Next]_vars => Tables'
<1> SUFFICES ASSUME TypeInv, Queue, Tables, [Next]_vars PROVE Tables'
  OBVIOUS
<1> USE DEF runVars, tuiVars, tableVars, loadVars, chanVars, watchVars, notRun, notTui, notPc,
           notLoad,
        TuiGoes, LoadGoes, MapGoes
<1>1. CASE UNCHANGED <<pc, slot, mapOfMaps>>
  BY <1>1 DEF Tables, IndexesArePositions, Registered
<1>2. CASE RunNext \/ UNCHANGED vars
  BY <1>2, <1>1 DEF RunNext, SetupFails, SetupDone, Signal, RunReturns, vars
<1>3. CASE TuiNext
  <2>1. CASE RunUpdate
    <3>1. Head(updates) \in Maps /\ pc[Head(updates)] = "await"
      BY <2>1, HeadAwaits DEF RunUpdate
    <3>2. pc' = [pc EXCEPT ![Head(updates)] = "start"] /\ UNCHANGED <<slot, mapOfMaps>>
      BY <2>1 DEF RunUpdate
    <3> QED
      BY <3>1, <3>2, MoveKeepsTables DEF Early
  <2>2. CASE ~RunUpdate
    BY <1>1, <1>3, <2>2
    DEF TuiNext, TuiStart, TuiFails, KeyCtrlC, KeyQ, TuiStop, NavKey, NavRLock, NavSelect
  <2> QED
    BY <2>1, <2>2
<1>4. CASE LoadNext
  <2>1. ASSUME NEW m \in Maps, Spawn(m) PROVE Tables'
    <3>1. CASE Tty
      BY <2>1, <3>1, MoveKeepsTables DEF Spawn, Early
    <3>2. CASE ~Tty
      BY <2>1, <3>2, MoveKeepsTables DEF Spawn, Early
    <3> QED
      BY <3>1, <3>2
  <2> QED
    BY <1>1, <1>4, <2>1
    DEF LoadNext, LoadEntry, LoadFails, LoadAttached, SpawnedAll, EgWait, LoadClose
<1>5. CASE WatchNext
  BY <1>1, <1>5 DEF WatchNext, WatchRecv, WatchRender, WatchEnd, MapRaceNoticed
<1>6. ASSUME NEW m \in Maps, MapNext(m) PROVE Tables'
  <2>1. CASE AcquireLock(m)
    <3>1. /\ pc[m] = "lockwait" /\ \A n \in Maps : pc[n] # "critical"
          /\ pc' = [pc EXCEPT ![m] = "critical"]
          /\ slot' = [slot EXCEPT ![m] = Cardinality(Registered)]
          /\ mapOfMaps' = mapOfMaps
      BY <2>1 DEF AcquireLock, LockFree
    <3>2. Registered' = Registered
      BY <3>1 DEF Registered
    <3>3. pc'[m] = "critical" /\ slot'[m] = Cardinality(Registered)
          /\ \A n \in Maps : n # m => pc'[n] = pc[n]
      BY <3>1 DEF TypeInv, TypeOK
    <3> QED
      BY <3>1, <3>2, <3>3 DEF Tables, IndexesArePositions, Early
  <2>2. CASE Register(m)
    <3>1. /\ pc[m] = "critical" /\ pc' = [pc EXCEPT ![m] = "queue"]
          /\ mapOfMaps' = [mapOfMaps EXCEPT ![m] = slot[m]] /\ slot' = slot
      BY <2>2 DEF Register
    <3>0. mapOfMaps[m] = Absent /\ slot[m] \in Nat
      BY <3>1 DEF Tables, Early, TypeInv, TypeOK
    <3>2. slot[m] = Cardinality(Registered)
      BY <3>1 DEF Tables
    <3>3. Registered' = Registered \cup {m} /\ m \notin Registered
      BY <3>1, <3>0 DEF Registered, Absent, TypeInv, TypeOK
    <3>4. Cardinality(Registered') = Cardinality(Registered) + 1 /\ Cardinality(Registered) \in Nat
      BY <3>3, RegisteredFinite, FS_AddElement DEF TypeInv
    <3>5. mapOfMaps'[m] = Cardinality(Registered)
          /\ \A n \in Maps : n # m => mapOfMaps'[n] = mapOfMaps[n]
      BY <3>1, <3>2 DEF TypeInv, TypeOK
    <3>6. pc'[m] = "queue" /\ \A n \in Maps : n # m => pc'[n] = pc[n] /\ pc[n] # "critical"
      BY <3>1 DEF TypeInv, TypeOK, Tables
    <3>7. \A n \in Registered : n \in Maps /\ n # m /\ mapOfMaps[n] \in Nat
      BY <3>3 DEF Registered, TypeInv, TypeOK
    <3>8. IndexesArePositions'
      BY <3>3, <3>4, <3>5, <3>7 DEF Tables, IndexesArePositions
    <3>9. mapOfMaps'[m] # Absent
      BY <3>4, <3>5 DEF Absent
    <3> QED
      BY <3>5, <3>6, <3>8, <3>9 DEF Tables, Early
  <2>3. CASE RequestLock(m)
    BY <2>3, MoveKeepsTables DEF RequestLock, Early
  <2>4. CASE QueueUpdate(m) \/ OpenReader(m) \/ OpenFails(m) \/ DecodeFails(m)
    BY <2>4, MoveKeepsTables DEF QueueUpdate, OpenReader, OpenFails, DecodeFails, ReturnError, Early
  <2>5. CASE RingRead(m) \/ HashEntry(m)
    BY <2>5, MoveKeepsTables DEF RingRead, HashEntry, CallSendEntry, Early
  <2>6. CASE RingClosed(m) \/ StartTicker(m) \/ HashTick(m) \/ HashIterEnd(m) \/ HashDone(m)
    BY <2>6, MoveKeepsTables DEF RingClosed, StartTicker, HashTick, HashIterEnd, HashDone, Early
  <2>7. CASE Send(m)
    BY <1>1, <2>7, MoveKeepsTables DEF Send, Early
  <2> QED
    BY <1>1, <1>6, <2>1, <2>2, <2>3, <2>4, <2>5, <2>6, <2>7
    DEF MapNext, CloseReader, RingNilInstrument, HashFatal
<1> QED
  BY <1>2, <1>3, <1>4, <1>5, <1>6 DEF Next, Ended

\* The same for Screen, as long as the goroutine does not become visible.
LEMMA MoveKeepsScreen ==
  ASSUME TypeInv, Screen, NEW m \in Maps, NEW to,
         pc' = [pc EXCEPT ![m] = to], UNCHANGED <<flex, entries, cur, mapOfMaps>>,
         to \in Registering \cup {"send"} => Tty,
         Tty /\ to \in Serving \cup {"done"} => pc[m] \in Serving \cup {"done"}
  PROVE  Screen'
<1>1. Registered' = Registered /\ OnScreen' = OnScreen
  BY DEF Registered, OnScreen
<1>2. pc'[m] = to /\ \A n \in Maps : n # m => pc'[n] = pc[n]
  BY DEF TypeInv, TypeOK
<1> QED
  BY <1>1, <1>2 DEF Screen, EntriesHaveTables

\* Every step preserves Screen: a goroutine sends only after its table was added.
LEMMA ScreenStep == TypeInv /\ Phases /\ Queue /\ Tables /\ Screen /\ [Next]_vars => Screen'
<1> SUFFICES ASSUME TypeInv, Phases, Queue, Tables, Screen, [Next]_vars PROVE Screen'
  OBVIOUS
<1> USE DEF runVars, tuiVars, tableVars, loadVars, chanVars, watchVars, notRun, notTui, notPc,
           notLoad,
        TuiGoes, LoadGoes, MapGoes
<1>1. CASE UNCHANGED <<pc, flex, entries, cur, mapOfMaps>>
  BY <1>1 DEF Screen, EntriesHaveTables, OnScreen, Registered
<1>2. CASE RunNext \/ UNCHANGED vars
  BY <1>2, <1>1 DEF RunNext, SetupFails, SetupDone, Signal, RunReturns, vars
<1>3. CASE TuiNext
  <2>1. CASE RunUpdate
    <3> DEFINE m == Head(updates)
    <3>1. m \in Maps /\ pc[m] = "await"
      BY <2>1, HeadAwaits DEF RunUpdate
    <3>2. /\ pc' = [pc EXCEPT ![m] = "start"] /\ flex' = Append(flex, m)
          /\ UNCHANGED <<entries, cur, mapOfMaps>>
      BY <2>1 DEF RunUpdate
    <3> HIDE DEF m
    <3>3. OnScreen' = OnScreen \cup {m}
      <4>1. flex \in Seq(Maps)
        BY DEF TypeInv, TypeOK
      <4>2. {Append(flex, m)[i] : i \in 1..Len(Append(flex,
      m))} = {flex[i] : i \in 1..Len(flex)} \cup {m}
        BY <3>1, <4>1, AppendRange
      <4> QED
        BY <3>2, <4>2 DEF OnScreen
    <3>4. Tty /\ m \in Registered
      BY <3>1 DEF Screen, Tables, Registering, Early, Registered
    <3>5. Registered' = Registered
      BY <3>2 DEF Registered
    <3>6. pc'[m] = "start" /\ \A n \in Maps : n # m => pc'[n] = pc[n]
      BY <3>1, <3>2 DEF TypeInv, TypeOK
    <3> QED
      BY <3>2, <3>3, <3>4, <3>5, <3>6 DEF Screen, EntriesHaveTables, Registering, Serving
  <2>2. CASE ~RunUpdate
    BY <1>3, <2>2, <1>1, Zenon
    DEF TuiNext, TuiStart, TuiFails, KeyCtrlC, KeyQ, TuiStop, NavKey, NavRLock, NavSelect
  <2> QED
    BY <2>1, <2>2
<1>4. CASE LoadNext
  <2>1. ASSUME NEW m \in Maps, Spawn(m) PROVE Screen'
    <3>1. CASE Tty
      BY <2>1, <3>1, MoveKeepsScreen DEF Spawn, Registering, Serving
    <3>2. CASE ~Tty
      BY <2>1, <3>2, MoveKeepsScreen DEF Spawn, Registering, Serving
    <3> QED
      BY <3>1, <3>2
  <2> QED
    BY <1>1, <1>4, <2>1
    DEF LoadNext, LoadEntry, LoadFails, LoadAttached, SpawnedAll, EgWait, LoadClose
<1>5. CASE WatchNext
  <2>1. CASE WatchRecv
    <3>1. /\ entries # << >> /\ cur' = Head(entries) /\ entries' = Tail(entries)
          /\ UNCHANGED <<pc, flex, mapOfMaps>>
      BY <2>1 DEF WatchRecv
    <3>2. entries \in Seq(Maps)
      BY DEF TypeInv, TypeOK
    <3>3. OnScreen' = OnScreen /\ Registered' = Registered
      BY <3>1 DEF OnScreen, Registered
    <3>4. cur' \in OnScreen /\ \A i \in 1..Len(entries') : entries'[i] \in OnScreen
      BY <3>1, <3>2, HeadAndTail DEF Screen, EntriesHaveTables
    <3> QED
      BY <3>1, <3>3, <3>4 DEF Screen, EntriesHaveTables
  <2>2. CASE WatchRender
    BY <2>2 DEF WatchRender, Screen, EntriesHaveTables, OnScreen, Registered
  <2> QED
    BY <1>1, <1>5, <2>1, <2>2 DEF WatchNext, WatchEnd, MapRaceNoticed
<1>6. ASSUME NEW m \in Maps, MapNext(m) PROVE Screen'
  <2> USE DEF Registering, Serving
  <2>0. pc[m] \in Registering \cup {"send"} => Tty
    BY DEF Screen
  <2>1. CASE Register(m)
    <3>1. /\ pc[m] = "critical" /\ pc' = [pc EXCEPT ![m] = "queue"]
          /\ mapOfMaps' = [mapOfMaps EXCEPT ![m] = slot[m]] /\ UNCHANGED <<flex, entries, cur>>
      BY <2>1 DEF Register
    <3>2. Registered \subseteq Registered'
      <4>1. slot[m] \in Nat
        BY DEF TypeInv, TypeOK
      <4> QED
        BY <3>1, <4>1 DEF Registered, Absent, TypeInv, TypeOK
    <3>3. OnScreen' = OnScreen
      BY <3>1 DEF OnScreen
    <3>4. pc'[m] = "queue" /\ \A n \in Maps : n # m => pc'[n] = pc[n]
      BY <3>1 DEF TypeInv, TypeOK
    <3> QED
      BY <2>0, <3>1, <3>2, <3>3, <3>4 DEF Screen, EntriesHaveTables
  <2>2. CASE RequestLock(m) \/ AcquireLock(m) \/ QueueUpdate(m)
    BY <2>0, <2>2, MoveKeepsScreen DEF RequestLock, AcquireLock, QueueUpdate
  <2>3. CASE OpenReader(m) \/ OpenFails(m) \/ DecodeFails(m)
    BY <2>3, MoveKeepsScreen DEF OpenReader, OpenFails, DecodeFails, ReturnError
  <2>4. CASE RingRead(m) \/ HashEntry(m)
    BY <2>4, MoveKeepsScreen DEF RingRead, HashEntry, CallSendEntry
  <2>5. CASE RingClosed(m) \/ StartTicker(m) \/ HashTick(m) \/ HashIterEnd(m) \/ HashDone(m)
    BY <2>5, MoveKeepsScreen DEF RingClosed, StartTicker, HashTick, HashIterEnd, HashDone
  <2>6. CASE Send(m) /\ ~closed
    <3>1. /\ pc[m] = "send" /\ entries' = Append(entries, m) /\ UNCHANGED <<flex, cur, mapOfMaps>>
          /\ pc' = [pc EXCEPT ![m] = "loop"] \/ pc' = [pc EXCEPT ![m] = "iter"]
      BY <2>6 DEF Send
    <3>2. m \in OnScreen
      BY <2>0, <3>1 DEF Screen
    <3>3. OnScreen' = OnScreen /\ Registered' = Registered
      BY <3>1 DEF OnScreen, Registered
    <3>4. entries \in Seq(Maps)
      BY DEF TypeInv, TypeOK
    <3>5. \A i \in 1..Len(entries') : entries'[i] = m \/ \E j \in 1..Len(entries) : entries'[i] = entries[j]
      BY <3>1, <3>4, AppendToDistinct
    <3>6. \A i \in 1..Len(entries') : entries'[i] \in OnScreen
      BY <3>2, <3>5 DEF Screen, EntriesHaveTables
    <3>7. pc'[m] \in {"loop", "iter"} /\ \A n \in Maps : n # m => pc'[n] = pc[n]
      BY <3>1 DEF TypeInv, TypeOK
    <3> QED
      BY <3>1, <3>2, <3>3, <3>6, <3>7 DEF Screen, EntriesHaveTables
  <2>7. CASE Send(m) /\ closed
    BY <1>1, <2>7 DEF Send
  <2> QED
    BY <1>1, <1>6, <2>1, <2>2, <2>3, <2>4, <2>5, <2>6, <2>7
    DEF MapNext, CloseReader, RingNilInstrument, HashFatal
<1> QED
  BY <1>2, <1>3, <1>4, <1>5, <1>6 DEF Next, Ended

\* Every step preserves Backlog: what was accepted and is not shown is in the
\* channel or in the hands of watch.
LEMMA BacklogStep == TypeInv /\ Phases /\ Tables /\ Screen /\ Backlog /\ [Next]_vars => Backlog'
<1> SUFFICES ASSUME TypeInv, Phases, Tables, Screen, Backlog, [Next]_vars PROVE Backlog'
  OBVIOUS
<1> USE DEF runVars, tuiVars, tableVars, loadVars, chanVars, watchVars, notRun, notTui, notPc,
           notLoad,
        TuiGoes, LoadGoes, MapGoes, Live
<1>0. entries \in Seq(Maps) /\ accepted \in Seq(Maps) /\ shown \in Seq(Maps) /\ NoMap \notin Maps
  BY MapsAssumption DEF TypeInv, TypeOK
<1>1. CASE UNCHANGED <<main, closed, entries, accepted, watch, cur, shown>>
  BY <1>1 DEF Backlog, Held
<1>2. CASE RunNext \/ UNCHANGED vars
  <2>1. CASE SetupFails \/ SetupDone
    BY <1>0, <2>1 DEF SetupFails, SetupDone, Backlog, Held
  <2>2. CASE RunReturns
    <3>1. watch = "done" /\ entries = << >> /\ UNCHANGED <<closed, entries, accepted, watch, cur,
    shown>>
      BY <2>2 DEF RunReturns, GoroutinesDone, Backlog
    <3>2. Len(shown) = Len(accepted)
      BY <1>0, <3>1 DEF Backlog, Held
    <3>3. shown = accepted
      BY <1>0, <3>2, SeqEqual DEF Backlog
    <3> QED
      BY <2>2, <3>1, <3>3 DEF RunReturns, Backlog, Held
  <2> QED
    BY <1>1, <1>2, <2>1, <2>2 DEF RunNext, Signal, vars
<1>3. CASE TuiNext
  BY <1>1, <1>3
  DEF TuiNext, TuiStart, TuiFails, KeyCtrlC, KeyQ, TuiStop, RunUpdate, NavKey, NavRLock, NavSelect
<1>4. CASE LoadNext
  <2>1. CASE LoadClose
    BY <2>1 DEF LoadClose, Backlog, Held
  <2> QED
    BY <1>1, <1>4, <2>1 DEF LoadNext, LoadEntry, LoadFails, LoadAttached, SpawnedAll, EgWait, Spawn
<1>5. CASE WatchNext
  <2>1. CASE WatchRecv
    <3>1. /\ entries # << >> /\ cur' = Head(entries) /\ entries' = Tail(entries)
          /\ watch = "recv" /\ watch' = "render"
          /\ UNCHANGED <<main, closed, accepted, shown>>
      BY <2>1 DEF WatchRecv
    <3>2. Len(entries) \in Nat /\ Len(entries) # 0 /\ Len(entries') = Len(entries) - 1
          /\ cur' = entries[1]
      BY <1>0, <3>1
    <3>3. /\ Held = 0 /\ Held' = 1 /\ Tty /\ cur' \in Maps /\ cur' # NoMap
          /\ Len(shown) \in Nat /\ Len(accepted) \in Nat
      BY <1>0, <3>1, <3>2 DEF Backlog, Held
    <3>4. ASSUME NEW i \in 1..Len(entries') PROVE entries'[i] = accepted[Len(shown) + 1 + i]
      <4>1. entries'[i] = entries[i + 1] /\ i + 1 \in 1..Len(entries)
        BY <1>0, <3>1, <3>2
      <4>2. entries[i + 1] = accepted[Len(shown) + Held + (i + 1)]
        BY <4>1 DEF Backlog
      <4> QED
        BY <3>3, <4>1, <4>2
    <3>5. cur' = accepted[Len(shown) + 1] /\ Len(accepted) = Len(shown) + 1 + Len(entries')
      BY <3>2, <3>3 DEF Backlog
    <3> QED
      BY <3>1, <3>3, <3>4, <3>5 DEF Backlog
  <2>2. CASE WatchRender
    <3>1. watch = "render" /\ watch' = "recv" /\ cur' = NoMap /\ UNCHANGED <<main, closed,
    entries, accepted>>
      BY <2>2 DEF WatchRender
    <3>2. cur \in Registered /\ cur \in Maps
      BY <3>1 DEF Backlog, Screen, EntriesHaveTables, Registered
    <3>3. shown' = Append(shown, cur)
      BY <2>2, <3>2 DEF WatchRender
    <3> QED
      BY <1>0, <3>1, <3>2, <3>3 DEF Backlog, Held
  <2>3. CASE WatchEnd
    BY <1>0, <2>3 DEF WatchEnd, NoMoreEntries, Backlog, Held
  <2> QED
    BY <1>1, <1>5, <2>1, <2>2, <2>3 DEF WatchNext, MapRaceNoticed
<1>6. ASSUME NEW m \in Maps, MapNext(m) PROVE Backlog'
  <2>1. CASE Send(m) /\ ~closed
    <3>1. /\ pc[m] = "send" /\ entries' = Append(entries, m) /\ accepted' = Append(accepted, m)
          /\ main = "running" /\ UNCHANGED <<main, closed, watch, cur, shown>>
      BY <2>1 DEF Send
    <3>2. Tty /\ watch # "done"
      BY <2>1, <3>1 DEF Screen, Backlog
    <3>3. /\ Len(accepted) \in Nat /\ Len(shown) \in Nat /\ Len(entries) \in Nat /\ Held \in {0, 1}
          /\ Held' = Held /\ Len(accepted) = Len(shown) + Held + Len(entries)
      BY <1>0, <3>1 DEF Backlog, Held
    <3>4. /\ Len(accepted') = Len(accepted) + 1 /\ accepted'[Len(accepted) + 1] = m
          /\ Len(entries') = Len(entries) + 1 /\ entries'[Len(entries) + 1] = m
      BY <1>0, <3>1
    <3>5. /\ \A i \in 1..Len(accepted) : accepted'[i] = accepted[i]
          /\ \A i \in 1..Len(entries) : entries'[i] = entries[i]
      BY <1>0, <3>1
    <3>6. \A i \in 1..Len(shown) : shown[i] = accepted'[i]
      BY <3>3, <3>5 DEF Backlog
    <3>7. watch = "render" => cur = accepted'[Len(shown) + 1]
      BY <3>3, <3>5 DEF Backlog, Held
    <3>8. ASSUME NEW i \in 1..Len(entries') PROVE entries'[i] = accepted'[Len(shown) + Held + i]
      <4>1. CASE i \in 1..Len(entries)
        BY <3>3, <3>5, <4>1 DEF Backlog
      <4>2. CASE i = Len(entries) + 1
        BY <3>3, <3>4, <4>2
      <4> QED
        BY <3>3, <3>4, <4>1, <4>2
    <3>9. Len(accepted') = Len(shown) + Held + Len(entries')
      BY <3>3, <3>4
    <3> QED
      BY <3>1, <3>2, <3>3, <3>6, <3>7, <3>8, <3>9 DEF Backlog
  <2>2. CASE Send(m) /\ closed
    BY <1>1, <2>2 DEF Send
  <2> QED
    BY <1>1, <1>6, <2>1, <2>2 DEF MapNext, RequestLock, AcquireLock, Register, QueueUpdate,
       OpenReader, OpenFails, CloseReader, RingRead, HashEntry, DecodeFails, ReturnError, CallSendEntry,
       RingNilInstrument, RingClosed, StartTicker, HashTick, HashFatal, HashIterEnd, HashDone
<1> QED
  BY <1>2, <1>3, <1>4, <1>5, <1>6 DEF Next, Ended

-----------------------------------------------------------------------------
(* The keys and the focus.                                                 *)

\* A goroutine that moves without touching mapOfMaps keeps Navigation, unless it
\* leaves its critical section.
LEMMA MoveKeepsNavigation ==
  ASSUME TypeInv, Tables, Navigation, NEW m \in Maps, NEW to, pc' = [pc EXCEPT ![m] = to],
         UNCHANGED <<tui, currentIndex, focus, mapOfMaps>>,
         \A n \in Maps : n # m => slot'[n] = slot[n],
         to \in {"queue", "await"} => pc[m] \in {"queue", "await"} /\ slot'[m] = slot[m],
         to \in Registering => pc[m] \in Registering \cup Early
  PROVE  Navigation'
<1>1. Registered' = Registered
  BY DEF Registered
<1>2. pc'[m] = to /\ \A n \in Maps : n # m => pc'[n] = pc[n]
  BY DEF TypeInv, TypeOK
<1>3. \A z \in Registered : z \in Maps /\ pc[z] \notin Early
  BY DEF Registered, Tables
<1>4. \A z \in Registered : pc[z] \notin Registering => pc'[z] \notin Registering
  BY <1>2, <1>3
<1> QED
  BY <1>1, <1>2, <1>4 DEF Navigation

\* Every step preserves Navigation: nextTable and prevTable wrap around at the ends
\* of the tables, and NavSelect finds the table of the index.
LEMMA NavigationStep == TypeInv /\ Queue /\ Tables /\ Navigation /\ [Next]_vars => Navigation'
<1> SUFFICES ASSUME TypeInv, Queue, Tables, Navigation, [Next]_vars PROVE Navigation'
  OBVIOUS
<1> USE DEF runVars, tuiVars, tableVars, loadVars, chanVars, watchVars, notRun, notTui, notPc,
           notLoad,
        TuiGoes, LoadGoes, MapGoes
<1>0. /\ Cardinality(Registered) \in Nat /\ currentIndex \in Nat /\ focus \in Maps \cup {NoMap}
      /\ \A m \in Registered : m \in Maps /\ mapOfMaps[m] \in Nat
      /\ NoMap \notin Maps
  BY RegisteredFinite, MapsAssumption DEF TypeInv, TypeOK, Registered
<1>1. CASE UNCHANGED <<tui, currentIndex, focus, pc, slot, mapOfMaps>>
  BY <1>1 DEF Navigation, Registered
<1>2. CASE RunNext \/ WatchNext \/ UNCHANGED vars
  BY <1>2, <1>1 DEF RunNext, SetupFails, SetupDone, Signal, RunReturns, vars, WatchNext, WatchRecv,
     WatchRender, WatchEnd, MapRaceNoticed
<1>3. CASE TuiNext
  <2>0. UNCHANGED <<slot, mapOfMaps>> /\ Registered' = Registered
    BY <1>3 DEF TuiNext, TuiStart, TuiFails, KeyCtrlC, KeyQ, TuiStop, RunUpdate, NavKey, NavRLock,
       NavSelect, Registered
  <2>1. CASE RunUpdate
    <3> DEFINE m == Head(updates)
    <3>1. m \in Maps /\ pc[m] = "await"
      BY <2>1, HeadAwaits DEF RunUpdate
    <3>2. /\ focus' = (IF slot[m] = 0 THEN m ELSE focus) /\ pc' = [pc EXCEPT ![m] = "start"]
          /\ tui \in {"loop", "stopping"} /\ UNCHANGED <<tui, currentIndex>>
      BY <2>1 DEF RunUpdate, FocusAfter
    <3>3. mapOfMaps[m] = slot[m] /\ slot[m] \in Nat
      BY <3>1 DEF Navigation, TypeInv, TypeOK
    <3>4. CASE slot[m] # 0
      <4> HIDE DEF m
      <4>1. UNCHANGED focus
        BY <3>2, <3>4
      <4> QED
        BY <2>0, <3>1, <3>2, <4>1, MoveKeepsNavigation DEF Registering
    <3>5. CASE slot[m] = 0
      <4> HIDE DEF m
      <4>1. focus' = m /\ m \in Registered /\ m # NoMap
        BY <1>0, <3>1, <3>2, <3>3, <3>5 DEF Registered, Absent
      <4>2. pc'[m] = "start" /\ \A n \in Maps : n # m => pc'[n] = pc[n]
        BY <3>1, <3>2 DEF TypeInv, TypeOK
      <4>3. ~RootHasFocus => currentIndex = 0
        <5>1. ~RootHasFocus => focus = NoMap
          BY <3>1, <3>3, <3>5, <4>1 DEF Navigation, Tables, IndexesArePositions, Registering
        <5> QED
          BY <5>1 DEF Navigation
      <4> QED
        BY <2>0, <3>2, <3>3, <3>5, <4>1, <4>2, <4>3 DEF Navigation, Registering
    <3> QED
      BY <3>4, <3>5
  <2>2. ASSUME NEW i \in {NextIndex, PrevIndex}, NavKey(i) PROVE Navigation'
    <3>1. /\ currentIndex' = i /\ tui' = "rlock" /\ UNCHANGED <<focus, pc>>
          /\ Cardinality(Registered) > 1 /\ (RootHasFocus \/ focus # NoMap)
      BY <2>2 DEF NavKey, KeyReachesFlex
    <3>2. i < Cardinality(Registered)
      BY <1>0, <3>1 DEF NextIndex, PrevIndex, Navigation
    <3> QED
      BY <2>0, <3>1, <3>2 DEF Navigation
  <2>3. CASE NavRLock
    BY <2>0, <2>3 DEF NavRLock, Navigation
  <2>4. CASE NavSelect
    <3> DEFINE found == {m \in Registered : mapOfMaps[m] = currentIndex}
    <3>1. tui = "iterate" /\ tui' = "loop" /\ UNCHANGED <<currentIndex, pc>>
      BY <2>4 DEF NavSelect
    <3>2. found # {}
      <4>1. currentIndex \in 0..(Cardinality(Registered) - 1)
        BY <1>0, <3>1 DEF Navigation
      <4> QED
        BY <4>1 DEF Navigation
    <3>3. focus' \in found
      BY <2>4, <3>2 DEF NavSelect
    <3>4. focus' \in Registered /\ mapOfMaps[focus'] = currentIndex /\ focus' # NoMap
      BY <1>0, <3>3
    <3>5. ~RootHasFocus => \E z \in Registered : mapOfMaps[z] = 0 /\ pc[z] \notin Registering
      <4>1. CASE focus # NoMap
        BY <4>1 DEF Navigation
      <4>2. CASE focus = NoMap
        BY <3>1, <4>2 DEF Navigation
      <4> QED
        BY <4>1, <4>2
    <3> QED
      BY <2>0, <3>1, <3>4, <3>5 DEF Navigation
  <2>5. CASE TuiStart \/ TuiFails \/ KeyCtrlC \/ KeyQ \/ TuiStop
    BY <2>0, <2>5 DEF TuiStart, TuiFails, KeyCtrlC, KeyQ, TuiStop, Navigation
  <2> QED
    BY <1>3, <2>1, <2>2, <2>3, <2>4, <2>5 DEF TuiNext
<1>4. CASE LoadNext
  <2>1. ASSUME NEW m \in Maps, Spawn(m) PROVE Navigation'
    <3>1. CASE Tty
      BY <2>1, <3>1, MoveKeepsNavigation DEF Spawn, Early, Registering
    <3>2. CASE ~Tty
      BY <2>1, <3>2, MoveKeepsNavigation DEF Spawn, Early, Registering
    <3> QED
      BY <3>1, <3>2
  <2> QED
    BY <1>1, <1>4, <2>1
    DEF LoadNext, LoadEntry, LoadFails, LoadAttached, SpawnedAll, EgWait, LoadClose
<1>5. ASSUME NEW m \in Maps, MapNext(m) PROVE Navigation'
  <2>1. CASE AcquireLock(m)
    <3>1. /\ pc[m] = "lockwait" /\ pc' = [pc EXCEPT ![m] = "critical"]
          /\ slot' = [slot EXCEPT ![m] = Cardinality(Registered)]
          /\ UNCHANGED <<tui, currentIndex, focus, mapOfMaps>>
      BY <2>1 DEF AcquireLock
    <3>2. \A n \in Maps : n # m => slot'[n] = slot[n]
      BY <3>1 DEF TypeInv, TypeOK
    <3> QED
      BY <3>1, <3>2, MoveKeepsNavigation DEF Registering
  <2>2. CASE Register(m)
    <3>1. /\ pc[m] = "critical" /\ pc' = [pc EXCEPT ![m] = "queue"]
          /\ mapOfMaps' = [mapOfMaps EXCEPT ![m] = slot[m]]
          /\ UNCHANGED <<tui, currentIndex, focus, slot>>
      BY <2>2 DEF Register
    <3>0. mapOfMaps[m] = Absent /\ slot[m] \in Nat
      BY <3>1 DEF Tables, Early, TypeInv, TypeOK
    <3>2. slot[m] = Cardinality(Registered)
      BY <3>1 DEF Tables
    <3>3. Registered' = Registered \cup {m} /\ m \notin Registered
      BY <3>0, <3>1 DEF Registered, Absent, TypeInv, TypeOK
    <3>4. Cardinality(Registered') = Cardinality(Registered) + 1
      BY <3>3, RegisteredFinite, FS_AddElement DEF TypeInv
    <3>5. mapOfMaps'[m] = slot[m] /\ \A n \in Maps : n # m => mapOfMaps'[n] = mapOfMaps[n]
      BY <3>1 DEF TypeInv, TypeOK
    <3>6. pc'[m] = "queue" /\ \A n \in Maps : n # m => pc'[n] = pc[n]
      BY <3>1 DEF TypeInv, TypeOK
    <3>7. \A n \in Registered : n # m /\ n \in Registered' /\ mapOfMaps'[n] = mapOfMaps[n]
          /\ pc'[n] = pc[n]
      BY <1>0, <3>3, <3>5, <3>6
    <3>8. \A k \in 0..(Cardinality(Registered') - 1) : \E n \in Registered' : mapOfMaps'[n] = k
      <4> TAKE k \in 0..(Cardinality(Registered') - 1)
      <4>1. CASE k = Cardinality(Registered)
        BY <3>2, <3>3, <3>5, <4>1
      <4>2. CASE k \in 0..(Cardinality(Registered) - 1)
        BY <3>7, <4>2 DEF Navigation
      <4> QED
        BY <1>0, <3>4, <4>1, <4>2
    <3>9. currentIndex < Cardinality(Registered) => currentIndex < Cardinality(Registered')
      BY <1>0, <3>4
    <3> QED
      BY <3>1, <3>5, <3>6, <3>7, <3>8, <3>9 DEF Navigation
  <2>3. CASE RequestLock(m) \/ QueueUpdate(m)
    BY <2>3, MoveKeepsNavigation DEF RequestLock, QueueUpdate, Registering
  <2>4. CASE OpenReader(m) \/ OpenFails(m) \/ DecodeFails(m)
    BY <2>4, MoveKeepsNavigation DEF OpenReader, OpenFails, DecodeFails, ReturnError, Registering
  <2>5. CASE RingRead(m) \/ HashEntry(m)
    BY <2>5, MoveKeepsNavigation DEF RingRead, HashEntry, CallSendEntry, Registering
  <2>6. CASE RingClosed(m) \/ StartTicker(m) \/ HashTick(m) \/ HashIterEnd(m) \/ HashDone(m)
    BY <2>6, MoveKeepsNavigation DEF RingClosed, StartTicker, HashTick, HashIterEnd, HashDone,
       Registering
  <2>7. CASE Send(m)
    BY <1>1, <2>7, MoveKeepsNavigation DEF Send, Registering
  <2> QED
    BY <1>1, <1>5, <2>1, <2>2, <2>3, <2>4, <2>5, <2>6, <2>7
    DEF MapNext, CloseReader, RingNilInstrument, HashFatal
<1> QED
  BY <1>2, <1>3, <1>4, <1>5 DEF Next, Ended

-----------------------------------------------------------------------------
(* The inductive invariant, and what follows from it.                      *)

\* The initial state satisfies the inductive invariant.
LEMMA IndInit == Init => IndInv
<1> SUFFICES ASSUME Init PROVE IndInv
  OBVIOUS
<1>1. TypeInv
  BY TypeInit
<1>2. ~closed
  BY Zenon DEF Init
<1>3. Registered = {} /\ OnScreen = {}
  BY DEF Init, Registered, OnScreen, Absent
<1>4. Phases /\ Readers /\ Queue
  BY <1>2 DEF Init, Phases, Readers, Queue
<1>5. Tables
  BY <1>3 DEF Init, Tables, Early, IndexesArePositions
<1>6. Screen
  BY <1>3 DEF Init, Screen, EntriesHaveTables, Registering, Serving
<1>7. Backlog
  BY OptionsAssumption DEF Init, Backlog, Held
<1>8. Cardinality(Registered) = 0
  BY <1>3, FS_EmptySet
<1>9. Navigation
  BY <1>3, <1>8 DEF Init, Navigation
<1> QED
  BY <1>1, <1>4, <1>5, <1>6, <1>7, <1>9 DEF IndInv

\* Every step preserves the inductive invariant.
LEMMA IndStep == IndInv /\ [Next]_vars => IndInv'
BY TypeStep, PhasesStep, ReadersStep, QueueStep, TablesStep, ScreenStep, BacklogStep, NavigationStep
DEF IndInv

\* The inductive invariant holds in every reachable state.
LEMMA Inductive == Spec => []IndInv
BY IndInit, IndStep, PTL DEF Spec

\* No path through Load, cancelled or failed at any point, closes the channel
\* while a goroutine may still send on it.
THEOREM SendsPrecedeClose == Spec => []NoSendAfterClose
<1>1. IndInv => NoSendAfterClose
  BY DEF IndInv, Phases, NoSendAfterClose
<1> QED
  BY <1>1, Inductive, PTL

\* Close is called when every goroutine has returned and every reader is closed.
THEOREM CloseLeavesNothing == Spec => []NothingLeftBehind
<1>1. IndInv => NothingLeftBehind
  BY DEF IndInv, Phases, Readers, NothingLeftBehind
<1> QED
  BY <1>1, Inductive, PTL

\* Concurrent registrations give the tables the indexes 0 .. n-1, each once.
THEOREM IndexesAssigned == Spec => []IndexesArePositions
<1>1. IndInv => IndexesArePositions
  BY DEF IndInv, Tables
<1> QED
  BY <1>1, Inductive, PTL

\* No entry reaches watch before the table of its map is on the screen.
THEOREM TablesPrecedeEntries == Spec => []EntriesHaveTables
<1>1. IndInv => EntriesHaveTables
  BY DEF IndInv, Screen
<1> QED
  BY <1>1, Inductive, PTL

\* nextTable and prevTable find a table for the index they computed, and between
\* two keys the focus is on the table of the index (where keys need a focus).
THEOREM KeysFindTables == Spec => []FocusTracksIndex
<1>1. IndInv => FocusTracksIndex
  <2> SUFFICES ASSUME IndInv PROVE FocusTracksIndex
    OBVIOUS
  <2>1. Cardinality(Registered) \in Nat /\ currentIndex \in Nat
    BY RegisteredFinite DEF IndInv, TypeInv, TypeOK
  <2>2. currentIndex < Cardinality(Registered) => \E m \in Registered : mapOfMaps[m] = currentIndex
    BY <2>1 DEF IndInv, Navigation
  <2> QED
    BY <2>2 DEF IndInv, Navigation, FocusTracksIndex
<1> QED
  BY <1>1, Inductive, PTL

\* When run() returns, everything SendEntry accepted has been rendered.
THEOREM ReturnLosesNothing == Spec => []NothingLostAtReturn
<1>1. IndInv => NothingLostAtReturn
  BY DEF IndInv, Backlog, NothingLostAtReturn
<1> QED
  BY <1>1, Inductive, PTL

\* The initial state maps to the initial state of the entry stream.
LEMMA StreamInit == Init => Stream!Init
<1> SUFFICES ASSUME Init PROVE Stream!Init
  OBVIOUS
<1>1. closed = FALSE /\ accepted = << >> /\ shown = << >>
  BY Zenon DEF Init
<1>2. (Tty /\ watch = "done") = FALSE
  BY OptionsAssumption DEF Init
<1> QED
  BY <1>1, <1>2 DEF Stream!Init

\* Every step maps to a step of the entry stream, or to none: Send is Accept,
\* WatchRender is Show, LoadClose is End and WatchEnd is Finish.
LEMMA StreamStep == IndInv /\ [Next]_vars => [Stream!Next]_(Stream!vars)
<1> SUFFICES ASSUME IndInv, [Next]_vars PROVE [Stream!Next]_(Stream!vars)
  OBVIOUS
<1> USE DEF runVars, tuiVars, tableVars, loadVars, chanVars, watchVars, notRun, notTui, notPc,
           notLoad,
        TuiGoes, LoadGoes, MapGoes
<1>0. /\ entries \in Seq(Maps) /\ accepted \in Seq(Maps) /\ shown \in Seq(Maps)
      /\ Len(accepted) = Len(shown) + Held + Len(entries)
  BY DEF IndInv, TypeInv, TypeOK, Backlog
<1>1. CASE UNCHANGED <<closed, accepted, watch, shown>>
  BY <1>1 DEF Stream!vars
<1>2. CASE RunNext \/ TuiNext \/ UNCHANGED vars
  BY <1>1, <1>2 DEF RunNext, SetupFails, SetupDone, Signal, RunReturns, vars,
     TuiNext, TuiStart, TuiFails, KeyCtrlC, KeyQ, TuiStop, RunUpdate, NavKey, NavRLock, NavSelect
<1>3. CASE LoadNext
  <2>1. CASE LoadClose
    <3>1. ~closed
      BY <2>1 DEF LoadClose, IndInv, Phases
    <3>2. closed' = TRUE /\ UNCHANGED <<accepted, shown, watch>>
      BY <2>1 DEF LoadClose
    <3> QED
      BY <3>1, <3>2 DEF Stream!Next, Stream!End
  <2> QED
    BY <1>1, <1>3, <2>1 DEF LoadNext, LoadEntry, LoadFails, LoadAttached, SpawnedAll, EgWait, Spawn
<1>4. CASE WatchNext
  <2>1. CASE WatchRecv
    <3>1. UNCHANGED <<closed, accepted, shown>> /\ watch = "recv" /\ watch' = "render"
      BY <2>1 DEF WatchRecv
    <3> QED
      BY <3>1 DEF Stream!vars
  <2>2. CASE WatchRender
    <3>1. watch = "render" /\ watch' = "recv" /\ UNCHANGED <<closed, accepted>>
      BY <2>2 DEF WatchRender
    <3>2. cur \in Registered /\ cur = accepted[Len(shown) + 1]
      BY <3>1 DEF IndInv, Backlog, Screen, EntriesHaveTables
    <3>3. shown' = Append(shown, accepted[Len(shown) + 1])
      BY <2>2, <3>2 DEF WatchRender
    <3>4. Len(shown) < Len(accepted)
      BY <1>0, <3>1 DEF Held
    <3> QED
      BY <3>1, <3>3, <3>4 DEF Stream!Next, Stream!Show
  <2>3. CASE WatchEnd
    <3>1. /\ watch = "recv" /\ watch' = "done" /\ closed /\ entries = << >>
          /\ UNCHANGED <<closed, accepted, shown>>
      BY <2>3 DEF WatchEnd, NoMoreEntries
    <3>2. shown = accepted
      <4>1. Len(shown) = Len(accepted)
        BY <1>0, <3>1 DEF Held
      <4> QED
        BY <1>0, <4>1, SeqEqual DEF IndInv, Backlog
    <3>3. Tty
      BY <3>1 DEF IndInv, Backlog
    <3> QED
      BY <3>1, <3>2, <3>3 DEF Stream!Next, Stream!Finish
  <2> QED
    BY <1>1, <1>4, <2>1, <2>2, <2>3 DEF WatchNext, MapRaceNoticed
<1>5. ASSUME NEW m \in Maps, MapNext(m) PROVE [Stream!Next]_(Stream!vars)
  <2>1. CASE Send(m) /\ ~closed
    <3>1. accepted' = Append(accepted, m) /\ UNCHANGED <<closed, watch, shown>>
      BY <2>1 DEF Send
    <3> QED
      BY <2>1, <3>1 DEF Stream!Next, Stream!Accept
  <2>2. CASE Send(m) /\ closed
    BY <1>1, <2>2 DEF Send
  <2> QED
    BY <1>1, <1>5, <2>1, <2>2 DEF MapNext, RequestLock, AcquireLock, Register, QueueUpdate,
       OpenReader, OpenFails, CloseReader, RingRead, HashEntry, DecodeFails, ReturnError, CallSendEntry,
       RingNilInstrument, RingClosed, StartTicker, HashTick, HashFatal, HashIterEnd, HashDone
<1> QED
  BY <1>2, <1>3, <1>4, <1>5 DEF Next, Ended

\* The goroutines, the channel and its closing implement the entry stream:
\* every accepted entry is rendered once, in order, and nothing is accepted
\* after the end.
THEOREM StreamImplemented == Spec => StreamSpec
BY StreamInit, StreamStep, Inductive, PTL DEF Spec, StreamSpec, Stream!Spec
=============================================================================
