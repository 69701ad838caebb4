--------------------------- MODULE RunSetupProofs ---------------------------
(***************************************************************************)
(* The safety properties of RunSetup, proved for any number of processes   *)
(* and any scenario: any maps, programs, flags and pin options.            *)
(*                                                                         *)
(* The inductive invariant, Inv, has the deferred calls and what they      *)
(* still have to undo (Stack), how far Load has come with the programs     *)
(* and their pins (Progress, Pinned), which maps Parse lets through        *)
(* (Supported), the filters (Built) and the maps that are open (Opened).   *)
(* Each part has a lemma that a step preserves it.                         *)
(***************************************************************************)
EXTENDS RunSetup, NumberLemmas, TLAPS
LOCAL INSTANCE SequencesExt

\* The places of Load, and of run() before it.
Early     == {"setup", "parse", "filter", "check", "load"}
Opening   == {"maps", "pinmap"}
AtProg    == {"attach", "stat", "mkdir", "pin"}
Attaching == {"loop", "watching", "abandoned"} \cup AtProg

Deferrable == Progs \cup {"coll", "watcher"}

Types ==
  /\ scenario \in Scenarios
  /\ pc \in [Runs -> PCs]
  /\ cancelled \in [Runs -> BOOLEAN]
  /\ watched \in [Runs -> SUBSET Maps]
  /\ DOMAIN filter = Runs /\ \A r \in Runs : DOMAIN filter[r] \subseteq watched[r]
  /\ todo \in [Runs -> SUBSET Progs] /\ links \in [Runs -> SUBSET Progs]
  /\ DOMAIN coll = Runs /\ \A r \in Runs : DOMAIN coll[r] \subseteq Maps
  /\ DOMAIN cur = Runs
  /\ defers \in [Runs -> Seq(Deferrable)]
  /\ panicking \in [Runs -> BOOLEAN] /\ closed \in [Runs -> BOOLEAN]
  /\ pinDir \in {"absent", "dir", "file"}
  /\ progPins \in [Progs -> Runs \cup {NoRun}]
  /\ mapPins \in [Maps -> Runs \cup {NoRun}]

\* What cur is where it is used, and what there is not before Parse.
Places ==
  \A r \in Runs :
    /\ pc[r] \in {"setup", "parse"} => DOMAIN filter[r] = {}
    /\ pc[r] = "pinmap" => cur[r] \in Maps /\ ByName(cur[r])
    /\ pc[r] \in AtProg => cur[r] \in Progs /\ cur[r] \notin todo[r]

TypeInv == Types /\ Places

\* What a run works with is fixed when it is started.
LEMMA SameScenario ==
  ASSUME [Next]_vars
  PROVE  /\ scenario' = scenario /\ Maps' = Maps /\ Progs' = Progs /\ Deferrable' = Deferrable
         /\ \A m : ByName(m)' = ByName(m)
         /\ \A m : Watchable(m)' = Watchable(m)
<1>1. scenario' = scenario
  BY DEF Next, Step, vars, Setup, Parse, BuildFilter, CheckContext, LoadEntry, OpenMap, CreateMap,
         PinMap, CollectionFails, NewCollection, NextProg, LoopCancelled, AttachKprobe,
         AttachTracepoint, Attached, AttachFails, NilTracepoint, StatDir, Mkdir, Pin, WatchMaps,
         RunDeferred, Return, WatchEnds, QuitTui, Signal, Killed
<1> QED
  BY <1>1 DEF Maps, Progs, Elf, Deferrable, ByName, Rodata, Watchable

\* The call x is still to be made.
Holds(q, x) == \E i \in 1..Len(q) : q[i] = x

\* Watcher.Close is the first call that is deferred, and deferred once.
WatcherLast(q) == \A i \in 1..Len(q) : q[i] = "watcher" <=> i = Len(q)

\* A call that is deferred is on top of the stack, above what was there.
LEMMA Push ==
  ASSUME NEW S, NEW q \in Seq(S), NEW d \in S
  PROVE  /\ <<d>> \o q \in Seq(S) /\ <<d>> \o q # << >>
         /\ Holds(<<d>> \o q, d)
         /\ \A x : Holds(q, x) => Holds(<<d>> \o q, x)
         /\ WatcherLast(q) /\ (d = "watcher" <=> q = << >>) => WatcherLast(<<d>> \o q)
<1> DEFINE p == <<d>> \o q
<1>1. p \in Seq(S) /\ Len(q) \in Nat /\ Len(p) = Len(q) + 1 /\ p[1] = d
  OBVIOUS
<1>2. \A i \in 1..Len(q) : p[i + 1] = q[i]
  OBVIOUS
<1>3. Len(q) = 0 <=> q = << >>
  OBVIOUS
<1>4. p # << >>
  BY <1>1
<1> HIDE DEF p
<1>5. Holds(p, d)
  BY <1>1 DEF Holds
<1>6. ASSUME NEW x, Holds(q, x) PROVE Holds(p, x)
  <2>1. PICK i \in 1..Len(q) : q[i] = x
    BY <1>6 DEF Holds
  <2>2. i + 1 \in 1..Len(p) /\ p[i + 1] = x
    BY <1>1, <1>2, <2>1
  <2> QED
    BY <2>2 DEF Holds
<1>7. ASSUME WatcherLast(q), d = "watcher" <=> q = << >>, NEW i \in 1..Len(p)
      PROVE  p[i] = "watcher" <=> i = Len(p)
  <2>1. CASE i = 1
    BY <1>1, <1>3, <1>7, <2>1
  <2>2. CASE i # 1
    <3>1. i - 1 \in 1..Len(q) /\ p[i] = q[i - 1]
      <4>1. i - 1 \in 1..Len(q) /\ (i - 1) + 1 = i
        BY <1>1, <2>2
      <4> QED
        BY <1>2, <4>1
    <3> QED
      BY <1>1, <1>7, <3>1 DEF WatcherLast
  <2> QED
    BY <2>1, <2>2
<1> QED
  BY <1>1, <1>4, <1>5, <1>6, <1>7 DEF p, WatcherLast

\* A call that is made is off the stack, and what was below it still there.
LEMMA Pop ==
  ASSUME NEW S, NEW q \in Seq(S), q # << >>
  PROVE  /\ Tail(q) \in Seq(S) /\ Head(q) \in S
         /\ \A x : Holds(q, x) /\ x # Head(q) => Holds(Tail(q), x)
         /\ WatcherLast(q) => WatcherLast(Tail(q)) /\ (Head(q) = "watcher" <=> Tail(q) = << >>)
<1> DEFINE p == Tail(q)
<1>1. p \in Seq(S) /\ Len(q) \in Nat /\ Len(p) = Len(q) - 1 /\ Len(p) \in Nat
      /\ Head(q) = q[1] /\ q[1] \in S
  OBVIOUS
<1>2. \A i \in 1..Len(p) : p[i] = q[i + 1]
  OBVIOUS
<1> HIDE DEF p
<1>3. Len(p) = 0 <=> p = << >>
  BY <1>1
<1>4. ASSUME NEW x, Holds(q, x), x # Head(q) PROVE Holds(p, x)
  <2>1. PICK i \in 1..Len(q) : q[i] = x
    BY <1>4 DEF Holds
  <2>2. i # 1
    BY <1>1, <1>4, <2>1
  <2>3. i - 1 \in 1..Len(p) /\ (i - 1) + 1 = i
    BY <1>1, <2>2
  <2>4. p[i - 1] = x
    BY <1>2, <2>1, <2>3
  <2> QED
    BY <2>3, <2>4 DEF Holds
<1>5. ASSUME WatcherLast(q) PROVE WatcherLast(p) /\ (Head(q) = "watcher" <=> p = << >>)
  <2>1. ASSUME NEW i \in 1..Len(p) PROVE p[i] = "watcher" <=> i = Len(p)
    <3>1. i + 1 \in 1..Len(q) /\ p[i] = q[i + 1]
      BY <1>1, <1>2
    <3> QED
      BY <1>1, <1>5, <3>1 DEF WatcherLast
  <2>2. 1 \in 1..Len(q)
    BY <1>1
  <2>3. q[1] = "watcher" <=> 1 = Len(q)
    BY <1>5, <2>2 DEF WatcherLast
  <2> QED
    BY <1>1, <1>3, <2>1, <2>3 DEF WatcherLast
<1> QED
  BY <1>1, <1>4, <1>5 DEF p

\* Nothing is left to be called.
LEMMA EmptyStack == WatcherLast(<< >>) /\ \A x : ~Holds(<< >>, x)
BY DEF WatcherLast, Holds

\* Every step of every process keeps the types.
LEMMA TypeStep == TypeInv /\ [Next]_vars => TypeInv'
<1> SUFFICES ASSUME TypeInv, [Next]_vars PROVE TypeInv'
  OBVIOUS
<1> USE SameScenario DEF TypeInv, Types, Places, PCs, Ended, AtProg, Goto, local, shared
<1>1. CASE UNCHANGED vars
  BY <1>1 DEF vars
<1>2. ASSUME NEW r \in Runs, Step(r) PROVE TypeInv'
  <2>1. CASE Setup(r)
    BY <2>1 DEF Setup
  <2>2. CASE Parse(r)
    <3>1. CASE \E m \in {m \in Maps : Tracked(m)} : Refused(m)
      BY <2>2, <3>1 DEF Parse
    <3>2. CASE ~\E m \in {m \in Maps : Tracked(m)} : Refused(m)
      <4> DEFINE tracked == {m \in Maps : Tracked(m)}
      <4>1. /\ pc[r] = "parse" /\ Goto(r, "filter") /\ watched' = [watched EXCEPT ![r] = tracked]
            /\ UNCHANGED <<scenario, cancelled, filter, todo, cur, links, coll, defers,
                   panicking, closed, shared>>
        BY <2>2, <3>2 DEF Parse
      <4>2. tracked \subseteq Maps /\ DOMAIN filter[r] = {}
        BY <4>1
      <4> HIDE DEF tracked
      <4> QED
        BY <4>1, <4>2
    <3> QED
      BY <3>1, <3>2
  <2>3. CASE BuildFilter(r)
    <3>1. CASE UNCHANGED filter
      <4>1. PICK l \in {"done", "died", "check"} : Goto(r, l)
        BY <2>3 DEF BuildFilter
      <4>2. UNCHANGED <<scenario, cancelled, watched, todo, cur, links, coll, defers, panicking,
      closed, shared>>
        BY <2>3 DEF BuildFilter
      <4> QED
        BY <3>1, <4>1, <4>2
    <3>2. CASE filter' # filter
      <4> DEFINE ts == Triples(Fields(scenario.flags))
                 used == {ts[i].map : i \in DOMAIN ts}
      <4>1. /\ Goto(r, "check")
            /\ filter' = [filter EXCEPT ![r] = [m \in used |-> Winner(ts, m)]]
            /\ {i \in DOMAIN ts : Unknown(r, ts[i]) \/ ~Compiles(ts[i].regex)} = {}
            /\ UNCHANGED <<scenario, cancelled, watched, todo, cur, links, coll, defers,
                   panicking, closed, shared>>
        BY <2>3, <3>2 DEF BuildFilter
      <4> HIDE DEF ts
      <4>2. used \subseteq watched[r]
        BY <4>1 DEF Unknown
      <4> HIDE DEF used
      <4> QED
        BY <4>1, <4>2
    <3> QED
      BY <3>1, <3>2
  <2>4. CASE CheckContext(r)
    BY <2>4 DEF CheckContext
  <2>5. CASE LoadEntry(r)
    BY <2>5, Push DEF LoadEntry, Defer, Deferrable
  <2>6. CASE \E m \in Maps : OpenMap(r, m)
    BY <2>6 DEF OpenMap
  <2>7. ASSUME NEW m \in Maps, CreateMap(r, m) PROVE TypeInv'
    <3>1. CASE Goto(r, "pinmap") /\ cur' = [cur EXCEPT ![r] = m]
      BY <2>7, <3>1 DEF CreateMap
    <3>2. CASE UNCHANGED <<pc, cur>>
      BY <2>7, <3>2 DEF CreateMap
    <3> QED
      BY <2>7, <3>1, <3>2 DEF CreateMap
  <2>8. CASE PinMap(r)
    <3>1. CASE mapPins' = [mapPins EXCEPT ![cur[r]] = r] /\ Goto(r, "maps") /\ UNCHANGED coll
      <4>1. mapPins' \in [Maps -> Runs \cup {NoRun}]
        BY <2>8, <3>1 DEF PinMap
      <4> QED
        BY <2>8, <3>1, <4>1 DEF PinMap
    <3>2. CASE Goto(r, "return") /\ coll' = [coll EXCEPT ![r] = << >>] /\ UNCHANGED mapPins
      BY <2>8, <3>2 DEF PinMap
    <3> QED
      BY <2>8, <3>1, <3>2 DEF PinMap
  <2>9. CASE CollectionFails(r)
    BY <2>9 DEF CollectionFails
  <2>10. CASE NewCollection(r)
    BY <2>10, Push DEF NewCollection, Defer, Deferrable
  <2>11. CASE \E p \in Progs : NextProg(r, p)
    BY <2>11 DEF NextProg
  <2>12. CASE LoopCancelled(r)
    BY <2>12 DEF LoopCancelled
  <2>13. CASE AttachKprobe(r) \/ AttachTracepoint(r)
    <3>1. Attached(r) /\ pc[r] = "attach" /\ cur[r] \in Progs /\ cur[r] \in Deferrable
      BY <2>13 DEF AttachKprobe, AttachTracepoint, Deferrable
    <3>2. PICK l \in {"stat", "loop"} : Goto(r, l)
      BY <3>1 DEF Attached
    <3>3. <<cur[r]>> \o defers[r] \in Seq(Deferrable)
      BY <3>1, Push
    <3> QED
      BY <3>1, <3>2, <3>3 DEF Attached, Defer
  <2>14. CASE AttachFails(r)
    BY <2>14 DEF AttachFails
  <2>15. CASE NilTracepoint(r)
    BY <2>15 DEF NilTracepoint
  <2>16. CASE StatDir(r)
    BY <2>16 DEF StatDir
  <2>17. CASE Mkdir(r)
    BY <2>17 DEF Mkdir
  <2>18. CASE Pin(r)
    <3>1. CASE progPins' = [progPins EXCEPT ![cur[r]] = r] /\ Goto(r, "loop")
      <4>1. progPins' \in [Progs -> Runs \cup {NoRun}]
        BY <2>18, <3>1 DEF Pin
      <4> QED
        BY <2>18, <3>1, <4>1 DEF Pin
    <3>2. CASE Goto(r, "return") /\ UNCHANGED progPins
      BY <2>18, <3>2 DEF Pin
    <3> QED
      BY <2>18, <3>1, <3>2 DEF Pin
  <2>19. CASE WatchMaps(r)
    BY <2>19 DEF WatchMaps
  <2>20. CASE RunDeferred(r)
    BY <2>20, Pop DEF RunDeferred
  <2>21. CASE Return(r)
    BY <2>21 DEF Return
  <2> QED
    BY <1>2, <2>1, <2>2, <2>3, <2>4, <2>5, <2>6, <2>7, <2>8, <2>9, <2>10, <2>11, <2>12, <2>13,
       <2>14, <2>15, <2>16, <2>17, <2>18, <2>19, <2>20, <2>21 DEF Step
<1>3. ASSUME NEW r \in Runs, WatchEnds(r) \/ QuitTui(r) PROVE TypeInv'
  <2>1. CASE WatchEnds(r)
    BY <2>1 DEF WatchEnds
  <2>2. CASE QuitTui(r)
    BY <2>2 DEF QuitTui
  <2> QED
    BY <1>3, <2>1, <2>2
<1>4. ASSUME NEW r \in Runs, Signal(r) PROVE TypeInv'
  BY <1>4 DEF Signal
<1>5. ASSUME NEW r \in Runs, Killed(r) PROVE TypeInv'
  BY <1>5 DEF Killed
<1> QED
  BY <1>1, <1>2, <1>3, <1>4, <1>5 DEF Next

-----------------------------------------------------------------------------
(* The deferred calls hold everything a run has in the kernel.             *)

Stack ==
  \A r \in Runs :
    /\ pc[r] \in Early => defers[r] = << >> /\ links[r] = {} /\ coll[r] = << >> /\ ~closed[r]
    /\ pc[r] \in Opening => defers[r] # << >> /\ links[r] = {} /\ ~closed[r]
    /\ pc[r] \in Attaching => defers[r] # << >>
    /\ WatcherLast(defers[r])
    /\ pc[r] \notin Opening /\ coll[r] # << >> => Holds(defers[r], "coll")
    /\ \A p \in links[r] : Holds(defers[r], p)
    /\ closed[r] \/ pc[r] \in Ended \cup {"waiting"} => defers[r] = << >>

\* What a run attaches is closed by a deferred call, and the watcher by the last.
LEMMA StackStep == TypeInv /\ Stack /\ [Next]_vars => Stack'
<1> SUFFICES ASSUME TypeInv, Stack, [Next]_vars PROVE Stack'
  OBVIOUS
<1> USE SameScenario DEF TypeInv, Types, Places, PCs, Ended, AtProg, Early, Opening, Attaching,
           Stack, Goto, local, shared
<1>1. CASE UNCHANGED vars
  BY <1>1 DEF vars
<1>2. ASSUME NEW r \in Runs, Step(r) PROVE Stack'
  <2>1. CASE Setup(r)
    BY <2>1 DEF Setup
  <2>2. CASE Parse(r)
    <3>1. PICK l \in {"done", "filter"} : Goto(r, l)
      BY <2>2 DEF Parse
    <3> QED
      BY <2>2, <3>1 DEF Parse
  <2>3. CASE BuildFilter(r)
    <3>1. PICK l \in {"done", "died", "check"} : Goto(r, l)
      BY <2>3 DEF BuildFilter
    <3> QED
      BY <2>3, <3>1 DEF BuildFilter
  <2>4. CASE CheckContext(r)
    BY <2>4 DEF CheckContext
  <2>5. CASE LoadEntry(r)
    <3>1. PICK l \in {"return", "maps"} : Goto(r, l)
      BY <2>5 DEF LoadEntry
    <3>2. << >> \in Seq(Deferrable) /\ "watcher" \in Deferrable
      BY DEF Deferrable
    <3> DEFINE q == <<"watcher">> \o defers[r]
    <3>3. defers[r] = << >> /\ WatcherLast(defers[r])
      BY <2>5 DEF LoadEntry
    <3>4. WatcherLast(q) /\ q # << >>
      BY <3>2, <3>3, Push
    <3>5. defers' = [defers EXCEPT ![r] = q]
      BY <2>5 DEF LoadEntry, Defer
    <3> HIDE DEF q
    <3> QED
      BY <2>5, <3>1, <3>4, <3>5 DEF LoadEntry
  <2>6. CASE \E m \in Maps : OpenMap(r, m)
    BY <2>6 DEF OpenMap
  <2>7. CASE \E m \in Maps : CreateMap(r, m)
    BY <2>7 DEF CreateMap
  <2>8. CASE PinMap(r)
    <3>1. CASE Goto(r, "maps") /\ UNCHANGED coll
      BY <2>8, <3>1 DEF PinMap
    <3>2. CASE Goto(r, "return") /\ coll' = [coll EXCEPT ![r] = << >>]
      BY <2>8, <3>2 DEF PinMap
    <3> QED
      BY <2>8, <3>1, <3>2 DEF PinMap
  <2>9. CASE CollectionFails(r)
    BY <2>9 DEF CollectionFails
  <2>10. CASE NewCollection(r)
    <3> DEFINE q == <<"coll">> \o defers[r]
    <3>1. "coll" \in Deferrable /\ defers[r] \in Seq(Deferrable) /\ defers[r] # << >>
      BY <2>10 DEF NewCollection, Deferrable
    <3>2. q # << >> /\ WatcherLast(q) /\ Holds(q, "coll") /\ \A x : Holds(defers[r],
    x) => Holds(q, x)
      BY <3>1, Push
    <3>3. defers' = [defers EXCEPT ![r] = q]
      BY <2>10 DEF NewCollection, Defer
    <3> HIDE DEF q
    <3> QED
      BY <2>10, <3>2, <3>3 DEF NewCollection
  <2>11. CASE \E p \in Progs : NextProg(r, p)
    BY <2>11 DEF NextProg
  <2>12. CASE LoopCancelled(r)
    BY <2>12 DEF LoopCancelled
  <2>13. CASE AttachKprobe(r) \/ AttachTracepoint(r)
    <3> DEFINE q == <<cur[r]>> \o defers[r]
    <3>1. Attached(r) /\ pc[r] = "attach" /\ cur[r] \in Progs /\ cur[r] \in Deferrable
      BY <2>13 DEF AttachKprobe, AttachTracepoint, Deferrable
    <3>2. defers[r] \in Seq(Deferrable) /\ defers[r] # << >> /\ cur[r] # "watcher"
      BY <3>1, ScenariosAssumption DEF Progs, Elf
    <3>3. q # << >> /\ WatcherLast(q) /\ Holds(q, cur[r]) /\ \A x : Holds(defers[r],
    x) => Holds(q, x)
      BY <3>1, <3>2, Push
    <3>4. defers' = [defers EXCEPT ![r] = q]
      BY <3>1 DEF Attached, Defer
    <3>5. PICK l \in {"stat", "loop"} : Goto(r, l)
      BY <3>1 DEF Attached
    <3> HIDE DEF q
    <3> QED
      BY <3>1, <3>2, <3>3, <3>4, <3>5 DEF Attached
  <2>14. CASE AttachFails(r)
    BY <2>14 DEF AttachFails
  <2>15. CASE NilTracepoint(r)
    BY <2>15 DEF NilTracepoint
  <2>16. CASE StatDir(r)
    <3>1. PICK l \in {"mkdir", "return", "pin"} : Goto(r, l)
      BY <2>16 DEF StatDir
    <3> QED
      BY <2>16, <3>1 DEF StatDir
  <2>17. CASE Mkdir(r)
    BY <2>17 DEF Mkdir
  <2>18. CASE Pin(r)
    BY <2>18 DEF Pin
  <2>19. CASE WatchMaps(r)
    <3>1. PICK l \in {"watching", "abandoned"} : Goto(r, l)
      BY <2>19 DEF WatchMaps
    <3> QED
      BY <2>19, <3>1 DEF WatchMaps
  <2>20. CASE RunDeferred(r)
    <3> DEFINE q == Tail(defers[r])
               d == Head(defers[r])
    <3>1. defers[r] \in Seq(Deferrable) /\ defers[r] # << >> /\ WatcherLast(defers[r])
          /\ pc[r] = "return"
      BY <2>20 DEF RunDeferred
    <3>2. /\ WatcherLast(q) /\ (d = "watcher" <=> q = << >>)
          /\ \A x : Holds(defers[r], x) /\ x # d => Holds(q, x)
      BY <3>1, Pop
    <3>3. /\ defers' = [defers EXCEPT ![r] = q] /\ links' = [links EXCEPT ![r] = links[r] \ {d}]
          /\ coll' = IF d = "coll" THEN [coll EXCEPT ![r] = << >>] ELSE coll
          /\ UNCHANGED pc
      BY <2>20 DEF RunDeferred
    <3>8. closed' = [closed EXCEPT ![r] = closed[r] \/ d = "watcher"]
      BY <2>20 DEF RunDeferred
    <3> HIDE DEF q, d
    <3>4. ASSUME NEW s \in Runs, s # r
          PROVE  /\ defers'[s] = defers[s] /\ links'[s] = links[s] /\ coll'[s] = coll[s]
                 /\ closed'[s] = closed[s]
      BY <3>3, <3>4, <3>8
    <3>5. defers'[r] = q /\ links'[r] = links[r] \ {d}
      BY <3>3
    <3>9. closed'[r] => closed[r] \/ d = "watcher"
      BY <3>8
    <3>6. coll'[r] # << >> => d # "coll" /\ coll[r] # << >>
      BY <3>3
    <3>7. closed'[r] => q = << >>
      BY <3>1, <3>2, <3>9
    <3> QED
      BY <3>1, <3>2, <3>3, <3>4, <3>5, <3>6, <3>7
  <2>21. CASE Return(r)
    <3>1. PICK l \in Ended \cup {"waiting"} : Goto(r, l)
      BY <2>21 DEF Return
    <3> QED
      BY <2>21, <3>1 DEF Return
  <2> QED
    BY <1>2, <2>1, <2>2, <2>3, <2>4, <2>5, <2>6, <2>7, <2>8, <2>9, <2>10, <2>11, <2>12, <2>13,
       <2>14, <2>15, <2>16, <2>17, <2>18, <2>19, <2>20, <2>21 DEF Step
<1>3. ASSUME NEW r \in Runs, WatchEnds(r) \/ QuitTui(r) PROVE Stack'
  <2>1. CASE WatchEnds(r)
    BY <2>1 DEF WatchEnds
  <2>2. CASE QuitTui(r)
    BY <2>2 DEF QuitTui
  <2> QED
    BY <1>3, <2>1, <2>2
<1>4. ASSUME NEW r \in Runs, Signal(r) PROVE Stack'
  BY <1>4 DEF Signal
<1>5. ASSUME NEW r \in Runs, Killed(r) PROVE Stack'
  BY <1>5, EmptyStack DEF Killed
<1> QED
  BY <1>1, <1>2, <1>3, <1>4, <1>5 DEF Next

-----------------------------------------------------------------------------
(* What has been done when the loop over the programs ends.                *)

\* The programs that the loop has left behind are attached.
Progress ==
  \A r \in Runs :
    /\ pc[r] \in Early \cup Opening => todo[r] = Progs /\ links[r] = {}
    /\ pc[r] = "attach" => links[r] = Progs \ (todo[r] \cup {cur[r]})
    /\ pc[r] \in Attaching \ {"attach"} => links[r] = Progs \ todo[r]
    /\ pc[r] = "watching" => todo[r] = {}

\* A program is attached before the next is looked at.
LEMMA ProgressStep == TypeInv /\ Progress /\ [Next]_vars => Progress'
<1> SUFFICES ASSUME TypeInv, Progress, [Next]_vars PROVE Progress'
  OBVIOUS
<1> USE SameScenario DEF TypeInv, Types, Places, PCs, Ended, AtProg, Early, Opening, Attaching,
           Progress, Goto, local, shared
<1>1. CASE UNCHANGED vars
  BY <1>1 DEF vars
<1>2. ASSUME NEW r \in Runs, Step(r) PROVE Progress'
  <2>1. CASE Setup(r)
    <3>1. PICK l \in {"parse", "done"} : Goto(r, l)
      BY <2>1 DEF Setup
    <3> QED
      BY <2>1, <3>1 DEF Setup
  <2>2. CASE Parse(r)
    <3>1. PICK l \in {"done", "filter"} : Goto(r, l)
      BY <2>2 DEF Parse
    <3> QED
      BY <2>2, <3>1 DEF Parse
  <2>3. CASE BuildFilter(r)
    <3>1. PICK l \in {"done", "died", "check"} : Goto(r, l)
      BY <2>3 DEF BuildFilter
    <3> QED
      BY <2>3, <3>1 DEF BuildFilter
  <2>4. CASE CheckContext(r)
    BY <2>4 DEF CheckContext
  <2>5. CASE LoadEntry(r)
    BY <2>5 DEF LoadEntry, Defer
  <2>6. CASE \E m \in Maps : OpenMap(r, m)
    BY <2>6 DEF OpenMap
  <2>7. CASE \E m \in Maps : CreateMap(r, m)
    BY <2>7 DEF CreateMap
  <2>8. CASE PinMap(r)
    <3>1. PICK l \in {"maps", "return"} : Goto(r, l)
      BY <2>8 DEF PinMap
    <3> QED
      BY <2>8, <3>1 DEF PinMap
  <2>9. CASE CollectionFails(r)
    BY <2>9 DEF CollectionFails
  <2>10. CASE NewCollection(r)
    BY <2>10 DEF NewCollection, Defer
  <2>11. CASE \E p \in Progs : NextProg(r, p)
    BY <2>11 DEF NextProg
  <2>12. CASE LoopCancelled(r)
    BY <2>12 DEF LoopCancelled
  <2>13. CASE AttachKprobe(r) \/ AttachTracepoint(r)
    <3>1. Attached(r) /\ pc[r] = "attach" /\ cur[r] \in Progs /\ cur[r] \notin todo[r]
      BY <2>13 DEF AttachKprobe, AttachTracepoint
    <3>2. PICK l \in {"stat", "loop"} : Goto(r, l)
      BY <3>1 DEF Attached
    <3> QED
      BY <3>1, <3>2 DEF Attached
  <2>14. CASE AttachFails(r)
    BY <2>14 DEF AttachFails
  <2>15. CASE NilTracepoint(r)
    BY <2>15 DEF NilTracepoint
  <2>16. CASE StatDir(r)
    <3>1. PICK l \in {"mkdir", "return", "pin"} : Goto(r, l)
      BY <2>16 DEF StatDir
    <3> QED
      BY <2>16, <3>1 DEF StatDir
  <2>17. CASE Mkdir(r)
    <3>1. PICK l \in {"pin", "return"} : Goto(r, l)
      BY <2>17 DEF Mkdir
    <3> QED
      BY <2>17, <3>1 DEF Mkdir
  <2>18. CASE Pin(r)
    <3>1. PICK l \in {"loop", "return"} : Goto(r, l)
      BY <2>18 DEF Pin
    <3> QED
      BY <2>18, <3>1 DEF Pin
  <2>19. CASE WatchMaps(r)
    <3>1. PICK l \in {"watching", "abandoned"} : Goto(r, l)
      BY <2>19 DEF WatchMaps
    <3> QED
      BY <2>19, <3>1 DEF WatchMaps
  <2>20. CASE RunDeferred(r)
    BY <2>20 DEF RunDeferred
  <2>21. CASE Return(r)
    <3>1. PICK l \in Ended \cup {"waiting"} : Goto(r, l)
      BY <2>21 DEF Return
    <3> QED
      BY <2>21, <3>1 DEF Return
  <2> QED
    BY <1>2, <2>1, <2>2, <2>3, <2>4, <2>5, <2>6, <2>7, <2>8, <2>9, <2>10, <2>11, <2>12, <2>13,
       <2>14, <2>15, <2>16, <2>17, <2>18, <2>19, <2>20, <2>21 DEF Step
<1>3. ASSUME NEW r \in Runs, WatchEnds(r) \/ QuitTui(r) PROVE Progress'
  <2>1. CASE WatchEnds(r)
    BY <2>1 DEF WatchEnds
  <2>2. CASE QuitTui(r)
    BY <2>2 DEF QuitTui
  <2> QED
    BY <1>3, <2>1, <2>2
<1>4. ASSUME NEW r \in Runs, Signal(r) PROVE Progress'
  BY <1>4 DEF Signal
<1>5. ASSUME NEW r \in Runs, Killed(r) PROVE Progress'
  BY <1>5 DEF Killed
<1> QED
  BY <1>1, <1>2, <1>3, <1>4, <1>5 DEF Next

\* With --pin-progs they are pinned, too, and by this run.
Pinned ==
  scenario.pinProgs =>
    \A r \in Runs :
      /\ pc[r] \in Early \cup Opening => todo[r] = Progs
      /\ pc[r] \in AtProg => \A p \in Progs \ (todo[r] \cup {cur[r]}) : progPins[p] = r
      /\ pc[r] \in {"loop", "watching"} => \A p \in Progs \ todo[r] : progPins[p] = r
      /\ pc[r] = "watching" => todo[r] = {}

\* A pin is made where there is none, and never taken over.
LEMMA PinnedStep == TypeInv /\ Pinned /\ [Next]_vars => Pinned'
<1> SUFFICES ASSUME TypeInv, Pinned, [Next]_vars PROVE Pinned'
  OBVIOUS
<1> USE SameScenario DEF TypeInv, Types, Places, PCs, Ended, AtProg, Early, Opening, Attaching,
           Pinned, Goto, local, shared
<1>1. CASE UNCHANGED vars
  BY <1>1 DEF vars
<1>2. ASSUME NEW r \in Runs, Step(r) PROVE Pinned'
  <2>1. CASE Setup(r)
    <3>1. PICK l \in {"parse", "done"} : Goto(r, l)
      BY <2>1 DEF Setup
    <3> QED
      BY <2>1, <3>1 DEF Setup
  <2>2. CASE Parse(r)
    <3>1. PICK l \in {"done", "filter"} : Goto(r, l)
      BY <2>2 DEF Parse
    <3> QED
      BY <2>2, <3>1 DEF Parse
  <2>3. CASE BuildFilter(r)
    <3>1. PICK l \in {"done", "died", "check"} : Goto(r, l)
      BY <2>3 DEF BuildFilter
    <3> QED
      BY <2>3, <3>1 DEF BuildFilter
  <2>4. CASE CheckContext(r)
    BY <2>4 DEF CheckContext
  <2>5. CASE LoadEntry(r)
    BY <2>5 DEF LoadEntry, Defer
  <2>6. CASE \E m \in Maps : OpenMap(r, m)
    BY <2>6 DEF OpenMap
  <2>7. ASSUME NEW m \in Maps, CreateMap(r, m) PROVE Pinned'
    <3>1. CASE Goto(r, "pinmap") /\ cur' = [cur EXCEPT ![r] = m]
      BY <2>7, <3>1 DEF CreateMap
    <3>2. CASE UNCHANGED <<pc, cur>>
      BY <2>7, <3>2 DEF CreateMap
    <3> QED
      BY <2>7, <3>1, <3>2 DEF CreateMap
  <2>8. CASE PinMap(r)
    <3>1. PICK l \in {"maps", "return"} : Goto(r, l)
      BY <2>8 DEF PinMap
    <3> QED
      BY <2>8, <3>1 DEF PinMap
  <2>9. CASE CollectionFails(r)
    BY <2>9 DEF CollectionFails
  <2>10. CASE NewCollection(r)
    BY <2>10 DEF NewCollection, Defer
  <2>11. CASE \E p \in Progs : NextProg(r, p)
    BY <2>11 DEF NextProg
  <2>12. CASE LoopCancelled(r)
    BY <2>12 DEF LoopCancelled
  <2>13. CASE AttachKprobe(r) \/ AttachTracepoint(r)
    <3>1. Attached(r) /\ pc[r] = "attach"
      BY <2>13 DEF AttachKprobe, AttachTracepoint
    <3>2. CASE scenario.pinProgs
      BY <3>1, <3>2 DEF Attached
    <3>3. CASE ~scenario.pinProgs
      BY <3>3
    <3> QED
      BY <3>2, <3>3
  <2>14. CASE AttachFails(r)
    BY <2>14 DEF AttachFails
  <2>15. CASE NilTracepoint(r)
    BY <2>15 DEF NilTracepoint
  <2>16. CASE StatDir(r)
    <3>1. PICK l \in {"mkdir", "return", "pin"} : Goto(r, l)
      BY <2>16 DEF StatDir
    <3> QED
      BY <2>16, <3>1 DEF StatDir
  <2>17. CASE Mkdir(r)
    <3>1. PICK l \in {"pin", "return"} : Goto(r, l)
      BY <2>17 DEF Mkdir
    <3> QED
      BY <2>17, <3>1 DEF Mkdir
  <2>18. CASE Pin(r)
    <3>1. CASE Goto(r, "loop")
               /\ progPins' = [progPins EXCEPT ![cur[r]] = r] /\ progPins[cur[r]] = NoRun
      BY <2>18, <3>1, RunsAssumption DEF Pin
    <3>2. CASE Goto(r, "return") /\ UNCHANGED progPins
      BY <2>18, <3>2 DEF Pin
    <3> QED
      BY <2>18, <3>1, <3>2 DEF Pin
  <2>19. CASE WatchMaps(r)
    <3>1. PICK l \in {"watching", "abandoned"} : Goto(r, l)
      BY <2>19 DEF WatchMaps
    <3> QED
      BY <2>19, <3>1 DEF WatchMaps
  <2>20. CASE RunDeferred(r)
    BY <2>20 DEF RunDeferred
  <2>21. CASE Return(r)
    <3>1. PICK l \in Ended \cup {"waiting"} : Goto(r, l)
      BY <2>21 DEF Return
    <3> QED
      BY <2>21, <3>1 DEF Return
  <2> QED
    BY <1>2, <2>1, <2>2, <2>3, <2>4, <2>5, <2>6, <2>7, <2>8, <2>9, <2>10, <2>11, <2>12, <2>13,
       <2>14, <2>15, <2>16, <2>17, <2>18, <2>19, <2>20, <2>21 DEF Step
<1>3. ASSUME NEW r \in Runs, WatchEnds(r) \/ QuitTui(r) PROVE Pinned'
  <2>1. CASE WatchEnds(r)
    BY <2>1 DEF WatchEnds
  <2>2. CASE QuitTui(r)
    BY <2>2 DEF QuitTui
  <2> QED
    BY <1>3, <2>1, <2>2
<1>4. ASSUME NEW r \in Runs, Signal(r) PROVE Pinned'
  BY <1>4 DEF Signal
<1>5. ASSUME NEW r \in Runs, Killed(r) PROVE Pinned'
  BY <1>5 DEF Killed
<1> QED
  BY <1>1, <1>2, <1>3, <1>4, <1>5 DEF Next

\* Parse has let only maps through that WatchMaps starts a goroutine for.
Supported ==
  \A r \in Runs : pc[r] # "abandoned" /\ \A m \in watched[r] : Watchable(m)

\* WatchMaps starts a goroutine for every map it is given.
LEMMA SupportedStep == TypeInv /\ Supported /\ [Next]_vars => Supported'
<1> SUFFICES ASSUME TypeInv, Supported, [Next]_vars PROVE Supported'
  OBVIOUS
<1> USE SameScenario DEF TypeInv, Types, Places, PCs, Ended, AtProg, Supported, Goto, local, shared
<1>1. CASE UNCHANGED vars
  BY <1>1 DEF vars
<1>2. ASSUME NEW r \in Runs, Step(r) PROVE Supported'
  <2>1. CASE Setup(r)
    BY <2>1 DEF Setup
  <2>2. CASE Parse(r)
    <3> DEFINE tracked == {m \in Maps : Tracked(m)}
    <3>1. CASE Goto(r, "done") /\ UNCHANGED watched
      BY <2>2, <3>1 DEF Parse
    <3>2. CASE Goto(r, "filter")
               /\ watched' = [watched EXCEPT ![r] = tracked] /\ ~\E m \in tracked : Refused(m)
      <4>1. \A m \in tracked : Watchable(m)
        BY <3>2 DEF Refused, Watchable
      <4> HIDE DEF tracked
      <4> QED
        BY <2>2, <3>2, <4>1 DEF Parse
    <3> QED
      BY <2>2, <3>1, <3>2 DEF Parse
  <2>3. CASE BuildFilter(r)
    <3>1. PICK l \in {"done", "died", "check"} : Goto(r, l)
      BY <2>3 DEF BuildFilter
    <3> QED
      BY <2>3, <3>1 DEF BuildFilter
  <2>4. CASE CheckContext(r)
    BY <2>4 DEF CheckContext
  <2>5. CASE LoadEntry(r)
    BY <2>5 DEF LoadEntry, Defer
  <2>6. CASE \E m \in Maps : OpenMap(r, m)
    BY <2>6 DEF OpenMap
  <2>7. CASE \E m \in Maps : CreateMap(r, m)
    BY <2>7 DEF CreateMap
  <2>8. CASE PinMap(r)
    <3>1. PICK l \in {"maps", "return"} : Goto(r, l)
      BY <2>8 DEF PinMap
    <3> QED
      BY <2>8, <3>1 DEF PinMap
  <2>9. CASE CollectionFails(r)
    BY <2>9 DEF CollectionFails
  <2>10. CASE NewCollection(r)
    BY <2>10 DEF NewCollection, Defer
  <2>11. CASE \E p \in Progs : NextProg(r, p)
    BY <2>11 DEF NextProg
  <2>12. CASE LoopCancelled(r)
    BY <2>12 DEF LoopCancelled
  <2>13. CASE AttachKprobe(r) \/ AttachTracepoint(r)
    <3>1. Attached(r) /\ pc[r] = "attach"
      BY <2>13 DEF AttachKprobe, AttachTracepoint
    <3>2. PICK l \in {"stat", "loop"} : Goto(r, l)
      BY <3>1 DEF Attached
    <3> QED
      BY <3>1, <3>2 DEF Attached
  <2>14. CASE AttachFails(r)
    BY <2>14 DEF AttachFails
  <2>15. CASE NilTracepoint(r)
    BY <2>15 DEF NilTracepoint
  <2>16. CASE StatDir(r)
    <3>1. PICK l \in {"mkdir", "return", "pin"} : Goto(r, l)
      BY <2>16 DEF StatDir
    <3> QED
      BY <2>16, <3>1 DEF StatDir
  <2>17. CASE Mkdir(r)
    BY <2>17 DEF Mkdir
  <2>18. CASE Pin(r)
    BY <2>18 DEF Pin
  <2>19. CASE WatchMaps(r)
    BY <2>19 DEF WatchMaps
  <2>20. CASE RunDeferred(r)
    BY <2>20 DEF RunDeferred
  <2>21. CASE Return(r)
    <3>1. PICK l \in Ended \cup {"waiting"} : Goto(r, l)
      BY <2>21 DEF Return
    <3> QED
      BY <2>21, <3>1 DEF Return
  <2> QED
    BY <1>2, <2>1, <2>2, <2>3, <2>4, <2>5, <2>6, <2>7, <2>8, <2>9, <2>10, <2>11, <2>12, <2>13,
       <2>14, <2>15, <2>16, <2>17, <2>18, <2>19, <2>20, <2>21 DEF Step
<1>3. ASSUME NEW r \in Runs, WatchEnds(r) \/ QuitTui(r) PROVE Supported'
  <2>1. CASE WatchEnds(r)
    BY <2>1 DEF WatchEnds
  <2>2. CASE QuitTui(r)
    BY <2>2 DEF QuitTui
  <2> QED
    BY <1>3, <2>1, <2>2
<1>4. ASSUME NEW r \in Runs, Signal(r) PROVE Supported'
  BY <1>4 DEF Signal
<1>5. ASSUME NEW r \in Runs, Killed(r) PROVE Supported'
  BY <1>5 DEF Killed
<1> QED
  BY <1>1, <1>2, <1>3, <1>4, <1>5 DEF Next

-----------------------------------------------------------------------------
(* The fields of the flags.                                                *)

\* Two sequences, one after the other.
LEMMA Joined ==
  ASSUME NEW S, NEW p \in Seq(S), NEW q \in Seq(S)
  PROVE  /\ p \o q \in Seq(S) /\ Len(p) \in Nat /\ Len(q) \in Nat
         /\ Len(p \o q) = Len(p) + Len(q)
         /\ \A i \in 1..Len(p) : (p \o q)[i] = p[i]
         /\ \A j \in 1..Len(q) : (p \o q)[Len(p) + j] = q[j]
  OBVIOUS

\* v[i] has the fields of the first i flags.
Flat(v, g, n, S) ==
  /\ v \in [1..n -> Seq(S)] /\ v[1] = g[1]
  /\ \A i \in 2..n : v[i] = v[i - 1] \o g[i]

\* FlattenSeq puts the flags one after the other.
LEMMA FlattenIs ==
  ASSUME NEW S, NEW n \in Nat \ {0}, NEW g, g \in Seq(Seq(S)), Len(g) = n
  PROVE  \E v : Flat(v, g, n, S) /\ FlattenSeq(g) = v[n]
<1> DEFINE Q == Seq(S)
           h == [k \in Nat |-> [x \in Q |-> IF k \in 0..(n - 1) THEN x \o g[k + 1] ELSE x]]
<1>1. \A i \in 1..n : g[i] \in Q
  OBVIOUS
<1>2. \A x, y \in Q : x \o y \in Q /\ << >> \o y = y
  OBVIOUS
<1>3. << >> \in Q
  OBVIOUS
<1> HIDE DEF Q
<1>4. h \in [Nat -> [Q -> Q]]
  <2>1. \A k \in Nat, x \in Q : (IF k \in 0..(n - 1) THEN x \o g[k + 1] ELSE x) \in Q
    BY <1>1, <1>2
  <2> QED
    BY <2>1
<1>5. \A k \in 0..(n - 1), x \in Q : h[k][x] = x \o g[k + 1]
  OBVIOUS
<1> HIDE DEF h
<1>6. PICK f : Follows(f, Q, << >>, h)
  BY <1>3, <1>4, Recursion, Zenon
<1>7. f \in [Nat -> Q] /\ f[0] = << >> /\ \A k \in Nat : f[k + 1] = h[k][f[k]]
  BY <1>6 DEF Follows
<1>8. \A k \in 0..(n - 1) : f[k + 1] = f[k] \o g[k + 1]
  <2> TAKE k \in 0..(n - 1)
  <2>1. k \in Nat /\ f[k] \in Q
    BY <1>7
  <2>2. f[k + 1] = h[k][f[k]]
    BY <1>7, <2>1, Zenon
  <2>3. h[k][f[k]] = f[k] \o g[k + 1]
    BY <1>5, <2>1, Zenon
  <2> QED
    BY <2>2, <2>3, Zenon
<1>9. f[1] = g[1] /\ \A i \in 2..n : f[i] = f[i - 1] \o g[i]
  <2>1. f[0 + 1] = f[0] \o g[0 + 1]
    <3>1. 0 \in 0..(n - 1)
      OBVIOUS
    <3> QED
      BY <1>8, <3>1, Zenon
  <2>2. f[1] = << >> \o g[1]
    BY <1>7, <2>1
  <2>3. ASSUME NEW i \in 2..n PROVE f[i] = f[i - 1] \o g[i]
    <3>1. i - 1 \in 0..(n - 1) /\ (i - 1) + 1 = i
      OBVIOUS
    <3> QED
      BY <1>8, <3>1
  <2>4. << >> \o g[1] = g[1]
    <3>1. g[1] \in Q
      BY <1>1
    <3> QED
      BY <1>2, <3>1, Zenon
  <2> QED
    BY <2>2, <2>3, <2>4, Zenon
<1> DEFINE F(u) == [i \in 1..n |-> IF i = 1 THEN g[i] ELSE u[i - 1] \o g[i]]
           w == [i \in 1..n |-> f[i]]
<1>10. w = F(w)
  <2>1. ASSUME NEW i \in 1..n, i # 1 PROVE w[i] = w[i - 1] \o g[i]
    <3>1. i \in 2..n /\ i - 1 \in 1..n
      BY <2>1
    <3> QED
      BY <1>9, <3>1
  <2>2. w[1] = g[1]
    BY <1>9
  <2> DEFINE u == w
  <2>3. u = [i \in 1..n |-> u[i]]
    OBVIOUS
  <2> HIDE DEF u
  <2> QED
    BY <2>1, <2>2, <2>3 DEF u
<1> DEFINE v == CHOOSE u : u = F(u)
<1>11. v = F(v)
  BY <1>10
<1>12. FlattenSeq(g) = v[n]
  BY DEF FlattenSeq
<1> HIDE DEF v
<1>13. v[1] = g[1] /\ \A i \in 2..n : v[i] = v[i - 1] \o g[i]
  <2>1. \A i \in 1..n : v[i] = IF i = 1 THEN g[i] ELSE v[i - 1] \o g[i]
    BY <1>11
  <2>2. 1 \in 1..n /\ \A i \in 2..n : i \in 1..n /\ i # 1
    OBVIOUS
  <2> QED
    BY <2>1, <2>2
<1>14. \A k \in Nat : k \in 1..n => v[k] \in Q
  <2> DEFINE T == {k \in Nat : k \in 1..n => v[k] \in Q}
  <2>1. 0 \in T
    OBVIOUS
  <2>2. ASSUME NEW k \in Nat, k \in T PROVE k + 1 \in T
    <3>1. CASE k = 0
      BY <1>1, <1>13, <3>1
    <3>2. CASE k # 0 /\ k + 1 <= n
      <4>1. k + 1 \in 2..n /\ (k + 1) - 1 = k /\ k \in 1..n
        BY <3>2
      <4>2. v[k + 1] = v[k] \o g[k + 1] /\ v[k] \in Q
        BY <1>13, <2>2, <4>1
      <4>3. g[k + 1] \in Q
        BY <1>1, <4>1
      <4>4. v[k + 1] \in Q
        BY <1>2, <4>2, <4>3, Zenon
      <4> QED
        BY <4>4
    <3> QED
      BY <3>1, <3>2
  <2> HIDE DEF T
  <2>3. \A k \in Nat : k \in T
    BY <2>1, <2>2, Induction
  <2> QED
    BY <2>3 DEF T
<1>15. v \in [1..n -> Q]
  BY <1>11, <1>14
<1> QED
  BY <1>12, <1>13, <1>15 DEF Flat, Q

\* The i-th flag is the i-th filter.
Aligned(f, g) ==
  /\ Len(f) = 3 * Len(g)
  /\ \A i \in 1..Len(g) : /\ Len(g[i]) = 3
                          /\ f[3*i - 2] = g[i][1] /\ f[3*i - 1] = g[i][2] /\ f[3*i] = g[i][3]

\* Flags with a map, a key and an expression, which may have commas, are the filters
\* they look like if every third field is in W and no part of an expression is.
LEMMA FieldsAlign ==
  ASSUME NEW S, NEW n \in Nat, NEW g, g \in Seq(Seq(S)), Len(g) = n, NEW W,
         \A i \in 1..n : Len(g[i]) >= 3 /\ \A j \in 4..Len(g[i]) : g[i][j] \notin W,
         Len(FlattenSeq(g)) % 3 = 0,
         \A i \in 1..(Len(FlattenSeq(g)) \div 3) : FlattenSeq(g)[3*i - 2] \in W
  PROVE  Aligned(FlattenSeq(g), g)
<1>1. CASE n = 0
  <2>1. FlattenSeq(g) = g
    BY <1>1 DEF FlattenSeq
  <2> QED
    BY <1>1, <2>1 DEF Aligned
<1>2. CASE n # 0
  <2>1. PICK v : Flat(v, g, n, S) /\ FlattenSeq(g) = v[n]
    BY <1>2, FlattenIs
  <2>2. /\ \A i \in 1..n : v[i] \in Seq(S) /\ g[i] \in Seq(S)
        /\ v[1] = g[1] /\ \A i \in 2..n : v[i] = v[i - 1] \o g[i]
    <3>1. v \in [1..n -> Seq(S)] /\ v[1] = g[1] /\ \A i \in 2..n : v[i] = v[i - 1] \o g[i]
      BY <2>1, Zenon DEF Flat
    <3>2. g \in [1..n -> Seq(S)]
      OBVIOUS
    <3> QED
      BY <3>1, <3>2, Zenon
  <2>3. \A i \in 1..n : Len(v[i]) \in Nat /\ Len(g[i]) \in Nat
    BY <2>2
  <2>4. ASSUME NEW i \in 2..n
        PROVE  /\ i - 1 \in 1..n /\ i \in 1..n
               /\ Len(v[i]) = Len(v[i - 1]) + Len(g[i])
               /\ \A k \in 1..Len(v[i - 1]) : v[i][k] = v[i - 1][k]
               /\ \A j \in 1..Len(g[i]) : v[i][Len(v[i - 1]) + j] = g[i][j]
    <3>1. i - 1 \in 1..n /\ i \in 1..n
      OBVIOUS
    <3>2. PICK p \in Seq(S), q \in Seq(S) : p = v[i - 1] /\ q = g[i] /\ v[i] = p \o q
      BY <2>2, <3>1
    <3> QED
      BY <3>1, <3>2, Joined
  \* What the flags so far have made stays where it is.
  <2> DEFINE Stays(i) == /\ Len(v[i]) <= Len(v[n])
                         /\ \A k \in 1..Len(v[i]) : v[n][k] = v[i][k]
             U == {d \in Nat : n - d \in 1..n => Stays(n - d)}
  <2>5. \A d \in Nat : d \in U
    <3>1. 0 \in U
      BY <2>3
    <3>2. ASSUME NEW d \in Nat, d \in U PROVE d + 1 \in U
      <4> SUFFICES ASSUME n - (d + 1) \in 1..n PROVE Stays(n - (d + 1))
        OBVIOUS
      <4>1. PICK i \in 2..n : i = n - d /\ i - 1 = n - (d + 1)
        OBVIOUS
      <4>2. Stays(i)
        BY <3>2, <4>1
      <4>3. Stays(i - 1)
        <5>1. PICK x, y, l : x = Len(v[i - 1]) /\ y = Len(v[i]) /\ l = Len(g[i])
          OBVIOUS
        <5>2. x \in Nat /\ y \in Nat /\ l \in Nat /\ y = x + l
          BY <2>3, <2>4, <5>1
        <5>3. y <= Len(v[n]) /\ Len(v[n]) \in Nat /\ \A k \in 1..y : v[n][k] = v[i][k]
          BY <2>3, <4>2, <5>1
        <5>4. \A k \in 1..x : v[i][k] = v[i - 1][k]
          BY <2>4, <5>1
        <5>5. x <= Len(v[n]) /\ \A k \in 1..x : k \in 1..y
          BY <5>2, <5>3
        <5> QED
          BY <5>1, <5>3, <5>4, <5>5
      <4> QED
        BY <4>1, <4>3
    <3> HIDE DEF U
    <3> QED
      BY <3>1, <3>2, Induction
  <2>6. ASSUME NEW i \in 1..n PROVE Stays(i)
    <3>1. PICK d \in Nat : d = n - i
      OBVIOUS
    <3>2. n - d = i /\ n - d \in 1..n
      BY <3>1
    <3>3. Stays(n - d)
      BY <2>5, <3>2
    <3> QED
      BY <3>2, <3>3
  <2> HIDE DEF Stays
  <2>7. PICK L \in Nat : L = Len(v[n])
    BY <2>3
  <2> DEFINE Same(i) == /\ Len(g[i]) = 3
                        /\ v[n][3*i - 2] = g[i][1] /\ v[n][3*i - 1] = g[i][2] /\ v[n][3*i] = g[i][3]
             T == {k \in Nat : k \in 1..n => Len(v[k]) = 3 * k /\ \A i \in 1..k : Same(i)}
  \* A flag that begins at a third field has three, or its fourth would be in W.
  <2>8. ASSUME NEW i \in 1..n, NEW b \in Nat, b = 3 * (i - 1), Len(v[i]) = b + Len(g[i]),
               \A j \in 1..Len(g[i]) : v[i][b + j] = g[i][j]
        PROVE  Len(v[i]) = 3 * i /\ Same(i)
    <3>1. Len(g[i]) \in Nat /\ Len(g[i]) >= 3 /\ Len(v[i]) <= L
          /\ \A k \in 1..Len(v[i]) : v[n][k] = v[i][k]
      BY <2>3, <2>6, <2>7, <2>8 DEF Stays
    <3>2. \A j \in 1..Len(g[i]) : v[n][b + j] = g[i][j]
      <4> TAKE j \in 1..Len(g[i])
      <4>1. b + j \in 1..Len(v[i])
        BY <2>8, <3>1
      <4> QED
        BY <2>8, <3>1, <4>1
    <3>3. Len(g[i]) = 3
      <4>0. PICK l \in Nat : l = Len(g[i]) /\ l >= 3
        BY <3>1
      <4> SUFFICES ASSUME l >= 4 PROVE FALSE
        BY <4>0
      <4>1. v[n][b + 4] = g[i][4] /\ b + 4 <= L
        BY <2>8, <3>1, <3>2, <4>0
      <4>2. L % 3 = 0
        BY <2>1, <2>7
      <4>3. i + 1 \in 1..(L \div 3) /\ 3 * (i + 1) - 2 = b + 4
        <5>1. L = 3 * (L \div 3) /\ L \div 3 \in Nat
          BY <4>2
        <5>2. PICK q \in Nat : q = L \div 3
          BY <5>1
        <5>3. b = 3 * i - 3 /\ b + 4 <= 3 * q
          BY <2>8, <4>1, <5>1, <5>2
        <5>4. i + 1 <= q /\ 3 * (i + 1) - 2 = b + 4
          BY <5>3
        <5> QED
          BY <5>2, <5>4
      <4>4. v[n][b + 4] \in W
        BY <2>1, <2>7, <4>3
      <4>5. g[i][4] \notin W
        BY <3>1, <4>0
      <4> QED
        BY <4>1, <4>4, <4>5
    <3>4. 3 * i - 2 = b + 1 /\ 3 * i - 1 = b + 2 /\ 3 * i = b + 3
      BY <2>8
    <3> QED
      BY <2>8, <3>2, <3>3, <3>4
  <2> HIDE DEF Same
  <2>9. \A k \in Nat : k \in T
    <3>1. 0 \in T
      OBVIOUS
    <3>2. ASSUME NEW k \in Nat, k \in T PROVE k + 1 \in T
      <4> SUFFICES ASSUME k + 1 \in 1..n
                   PROVE  Len(v[k + 1]) = 3 * (k + 1) /\ \A i \in 1..(k + 1) : Same(i)
        OBVIOUS
      <4>1. PICK e \in 1..n : e = k + 1
        OBVIOUS
      <4>2. Len(v[e]) = 3 * e /\ Same(e)
        <5>1. CASE k = 0
          <6>1. e = 1 /\ v[e] = g[e]
            BY <2>2, <4>1, <5>1
          <6>2. 0 \in Nat /\ 0 = 3 * (e - 1) /\ Len(v[e]) = 0 + Len(g[e])
                /\ \A j \in 1..Len(g[e]) : v[e][0 + j] = g[e][j]
            BY <2>3, <6>1
          <6> QED
            BY <2>8, <6>2
        <5>2. CASE k # 0
          <6>1. e \in 2..n /\ k \in 1..n /\ e - 1 = k
            BY <4>1, <5>2
          <6>2. PICK b \in Nat : b = 3 * k
            OBVIOUS
          <6>3. Len(v[e - 1]) = b /\ b = 3 * (e - 1)
            BY <3>2, <6>1, <6>2
          <6>4. Len(v[e]) = b + Len(g[e]) /\ \A j \in 1..Len(g[e]) : v[e][b + j] = g[e][j]
            <7>1. Len(v[e]) = Len(v[e - 1]) + Len(g[e])
                  /\ \A j \in 1..Len(g[e]) : v[e][Len(v[e - 1]) + j] = g[e][j]
              BY <2>4, <6>1, Zenon
            <7> QED
              BY <6>3, <7>1, Zenon
          <6> QED
            BY <2>8, <6>3, <6>4
        <5> QED
          BY <5>1, <5>2
      <4>3. \A i \in 1..k : Same(i)
        <5>1. CASE k \in 1..n
          BY <3>2, <5>1
        <5>2. CASE k = 0
          BY <5>2
        <5> QED
          BY <5>1, <5>2
      <4> QED
        BY <4>1, <4>2, <4>3
    <3> HIDE DEF T
    <3> QED
      BY <3>1, <3>2, Induction
  <2>10. Len(v[n]) = 3 * n /\ \A i \in 1..n : Same(i)
    BY <1>2, <2>9
  <2> QED
    BY <2>1, <2>10 DEF Aligned, Same
<1> QED
  BY <1>1, <1>2

\* What BuildFilter returns for the fields of the flags: every third is a map that
\* is watched, the next one a key of it, and the last filter of a map wins.
Returned(flags, elf, maps, flt) ==
  LET ts == Triples(Fields(flags)) IN
  /\ Len(Fields(flags)) % 3 = 0
  /\ \A i \in DOMAIN ts : ts[i].map \in maps /\ ts[i].label \in elf.maps[ts[i].map].labels
  /\ flt = [m \in {ts[i].map : i \in DOMAIN ts} |-> Winner(ts, m)]

Built ==
  \A r \in Runs : pc[r] = "check" =>
    Returned(scenario.flags, scenario.elf, watched[r], filter[r])

\* The filters are built once, and stay.
LEMMA BuiltStep == TypeInv /\ Built /\ [Next]_vars => Built'
<1> SUFFICES ASSUME TypeInv, Built, [Next]_vars PROVE Built'
  OBVIOUS
<1> USE SameScenario DEF TypeInv, Types, Places, PCs, Ended, AtProg, Built, Goto, local, shared
<1>1. CASE UNCHANGED vars
  BY <1>1 DEF vars
<1>2. ASSUME NEW r \in Runs, Step(r) PROVE Built'
  <2>1. CASE Setup(r)
    BY <2>1 DEF Setup
  <2>2. CASE Parse(r)
    <3> DEFINE tracked == {m \in Maps : Tracked(m)}
    <3>1. CASE Goto(r, "done") /\ UNCHANGED watched
      BY <2>2, <3>1 DEF Parse
    <3>2. CASE Goto(r, "filter")
               /\ watched' = [watched EXCEPT ![r] = tracked] /\ ~\E m \in tracked : Refused(m)
      <4>1. \A m \in tracked : Watchable(m)
        BY <3>2 DEF Refused, Watchable
      <4> HIDE DEF tracked
      <4> QED
        BY <2>2, <3>2, <4>1 DEF Parse
    <3> QED
      BY <2>2, <3>1, <3>2 DEF Parse
  <2>3. CASE BuildFilter(r)
    <3> DEFINE ts == Triples(Fields(scenario.flags))
    <3>1. CASE Goto(r, "done") \/ Goto(r, "died")
      <4>1. UNCHANGED watched /\ \A s \in Runs : s # r => filter'[s] = filter[s]
        BY <2>3 DEF BuildFilter
      <4> QED
        BY <3>1, <4>1
    <3>2. CASE /\ Goto(r, "check") /\ Len(Fields(scenario.flags)) % 3 = 0
               /\ \A i \in DOMAIN ts : ~Unknown(r, ts[i])
               /\ filter' = [filter EXCEPT ![r] =
                               [m \in {ts[i].map : i \in DOMAIN ts} |-> Winner(ts, m)]]
      <4>1. UNCHANGED watched
        BY <2>3 DEF BuildFilter
      <4>2. Returned(scenario.flags, scenario.elf, watched[r], filter'[r])
        BY <3>2 DEF Returned, Unknown, Elf
      <4> QED
        BY <3>2, <4>1, <4>2
    <3> QED
      BY <2>3, <3>1, <3>2 DEF BuildFilter
  <2>4. CASE CheckContext(r)
    BY <2>4 DEF CheckContext
  <2>5. CASE LoadEntry(r)
    BY <2>5 DEF LoadEntry, Defer
  <2>6. CASE \E m \in Maps : OpenMap(r, m)
    BY <2>6 DEF OpenMap
  <2>7. CASE \E m \in Maps : CreateMap(r, m)
    BY <2>7 DEF CreateMap
  <2>8. CASE PinMap(r)
    <3>1. PICK l \in {"maps", "return"} : Goto(r, l)
      BY <2>8 DEF PinMap
    <3> QED
      BY <2>8, <3>1 DEF PinMap
  <2>9. CASE CollectionFails(r)
    BY <2>9 DEF CollectionFails
  <2>10. CASE NewCollection(r)
    BY <2>10 DEF NewCollection, Defer
  <2>11. CASE \E p \in Progs : NextProg(r, p)
    BY <2>11 DEF NextProg
  <2>12. CASE LoopCancelled(r)
    BY <2>12 DEF LoopCancelled
  <2>13. CASE AttachKprobe(r) \/ AttachTracepoint(r)
    <3>1. Attached(r) /\ pc[r] = "attach"
      BY <2>13 DEF AttachKprobe, AttachTracepoint
    <3>2. PICK l \in {"stat", "loop"} : Goto(r, l)
      BY <3>1 DEF Attached
    <3> QED
      BY <3>1, <3>2 DEF Attached
  <2>14. CASE AttachFails(r)
    BY <2>14 DEF AttachFails
  <2>15. CASE NilTracepoint(r)
    BY <2>15 DEF NilTracepoint
  <2>16. CASE StatDir(r)
    <3>1. PICK l \in {"mkdir", "return", "pin"} : Goto(r, l)
      BY <2>16 DEF StatDir
    <3> QED
      BY <2>16, <3>1 DEF StatDir
  <2>17. CASE Mkdir(r)
    BY <2>17 DEF Mkdir
  <2>18. CASE Pin(r)
    BY <2>18 DEF Pin
  <2>19. CASE WatchMaps(r)
    BY <2>19 DEF WatchMaps
  <2>20. CASE RunDeferred(r)
    BY <2>20 DEF RunDeferred
  <2>21. CASE Return(r)
    <3>1. PICK l \in Ended \cup {"waiting"} : Goto(r, l)
      BY <2>21 DEF Return
    <3> QED
      BY <2>21, <3>1 DEF Return
  <2> QED
    BY <1>2, <2>1, <2>2, <2>3, <2>4, <2>5, <2>6, <2>7, <2>8, <2>9, <2>10, <2>11, <2>12, <2>13,
       <2>14, <2>15, <2>16, <2>17, <2>18, <2>19, <2>20, <2>21 DEF Step
<1>3. ASSUME NEW r \in Runs, WatchEnds(r) \/ QuitTui(r) PROVE Built'
  <2>1. CASE WatchEnds(r)
    BY <2>1 DEF WatchEnds
  <2>2. CASE QuitTui(r)
    BY <2>2 DEF QuitTui
  <2> QED
    BY <1>3, <2>1, <2>2
<1>4. ASSUME NEW r \in Runs, Signal(r) PROVE Built'
  BY <1>4 DEF Signal
<1>5. ASSUME NEW r \in Runs, Killed(r) PROVE Built'
  BY <1>5 DEF Killed
<1> QED
  BY <1>1, <1>2, <1>3, <1>4, <1>5 DEF Next


-----------------------------------------------------------------------------
(* The maps that NewCollection has opened or created.                      *)

\* Where coll matters: up to the deferred calls.
Live == Early \cup Opening \cup Attaching

\* One pinned by name is the map that is pinned, but for the one between its
\* creation and its pin; the others are of this run.
Opened ==
  \A r \in Runs :
    /\ coll[r] = [m \in DOMAIN coll[r] |-> coll[r][m]]
    /\ pc[r] \in Early => DOMAIN coll[r] = {}
    /\ pc[r] \in Live =>
         \A m \in DOMAIN coll[r] :
           IF ByName(m) /\ ~(pc[r] = "pinmap" /\ m = cur[r])
             THEN mapPins[m] # NoRun /\ coll[r][m] = mapPins[m]
             ELSE coll[r][m] = r
    /\ pc[r] \in Attaching => DOMAIN coll[r] = Maps

\* A map is pinned where none is, and a pinned one opened as it is.
LEMMA OpenedStep == TypeInv /\ Opened /\ [Next]_vars => Opened'
<1> SUFFICES ASSUME TypeInv, Opened, [Next]_vars PROVE Opened'
  OBVIOUS
<1> USE SameScenario DEF TypeInv, Types, Places, PCs, Ended, AtProg, Early, Opening, Attaching,
           Live, Opened, Goto, local, shared
<1>1. CASE UNCHANGED vars
  BY <1>1 DEF vars
<1>2. ASSUME NEW r \in Runs, Step(r) PROVE Opened'
  <2>1. CASE Setup(r)
    <3>1. PICK l \in {"parse", "done"} : Goto(r, l)
      BY <2>1 DEF Setup
    <3> QED
      BY <2>1, <3>1 DEF Setup
  <2>2. CASE Parse(r)
    <3>1. PICK l \in {"done", "filter"} : Goto(r, l)
      BY <2>2 DEF Parse
    <3> QED
      BY <2>2, <3>1 DEF Parse
  <2>3. CASE BuildFilter(r)
    <3>1. PICK l \in {"done", "died", "check"} : Goto(r, l)
      BY <2>3 DEF BuildFilter
    <3> QED
      BY <2>3, <3>1 DEF BuildFilter
  <2>4. CASE CheckContext(r)
    BY <2>4 DEF CheckContext
  <2>5. CASE LoadEntry(r)
    BY <2>5 DEF LoadEntry, Defer
  <2>6. CASE \E m \in Maps : OpenMap(r, m)
    <3> PICK m \in Maps : OpenMap(r, m)
      BY <2>6
    <3> DEFINE c == [x \in DOMAIN coll[r] \cup {m} |-> IF x = m THEN mapPins[m] ELSE coll[r][x]]
    <3>1. coll' = [coll EXCEPT ![r] = c]
      BY DEF OpenMap
    <3>2. DOMAIN c = DOMAIN coll[r] \cup {m} /\ c = [x \in DOMAIN c |-> c[x]]
      OBVIOUS
    <3>3. c[m] = mapPins[m] /\ \A x \in DOMAIN coll[r] : x # m => c[x] = coll[r][x]
      OBVIOUS
    <3> HIDE DEF c
    <3>4. pc[r] = "maps" /\ pc' = pc /\ mapPins' = mapPins /\ cur' = cur /\ ByName(m)
          /\ mapPins[m] # NoRun
      BY DEF OpenMap
    <3>5. \A x \in DOMAIN c :
          IF ByName(x) THEN mapPins[x] # NoRun /\ c[x] = mapPins[x] ELSE c[x] = r
      <4>1. \A x \in DOMAIN coll[r] :
            IF ByName(x) THEN mapPins[x] # NoRun /\ coll[r][x] = mapPins[x] ELSE coll[r][x] = r
        BY <3>4
      <4> QED
        BY <3>2, <3>3, <3>4, <4>1
    <3> QED
      BY <3>1, <3>2, <3>4, <3>5
  <2>7. CASE \E m \in Maps : CreateMap(r, m)
    <3> PICK m \in Maps : CreateMap(r, m)
      BY <2>7
    <3> DEFINE c == [x \in DOMAIN coll[r] \cup {m} |-> IF x = m THEN r ELSE coll[r][x]]
    <3>1. coll' = [coll EXCEPT ![r] = c]
      BY DEF CreateMap
    <3>2. DOMAIN c = DOMAIN coll[r] \cup {m} /\ c = [x \in DOMAIN c |-> c[x]]
      OBVIOUS
    <3>3. c[m] = r /\ \A x \in DOMAIN coll[r] : x # m => c[x] = coll[r][x]
      OBVIOUS
    <3> HIDE DEF c
    <3>4. pc[r] = "maps" /\ mapPins' = mapPins /\ m \notin DOMAIN coll[r]
      BY DEF CreateMap
    <3>5. \A x \in DOMAIN coll[r] :
          IF ByName(x) THEN mapPins[x] # NoRun /\ coll[r][x] = mapPins[x] ELSE coll[r][x] = r
      BY <3>4
    <3>6. \A x \in DOMAIN c :
          IF ByName(x) /\ x # m THEN mapPins[x] # NoRun /\ c[x] = mapPins[x] ELSE c[x] = r
      BY <3>2, <3>3, <3>5
    <3>7. CASE ByName(m)
      <4>1. Goto(r, "pinmap") /\ cur' = [cur EXCEPT ![r] = m]
        BY <3>7 DEF CreateMap
      <4> QED
        BY <3>1, <3>2, <3>4, <3>6, <4>1
    <3>8. CASE ~ByName(m)
      <4>1. UNCHANGED <<pc, cur>>
        BY <3>8 DEF CreateMap
      <4> QED
        BY <3>1, <3>2, <3>4, <3>6, <3>8, <4>1
    <3> QED
      BY <3>7, <3>8
  <2>8. CASE PinMap(r)
    <3> DEFINE e == << >>
    <3>1. e = [x \in DOMAIN e |-> e[x]]
      OBVIOUS
    <3>2. CASE mapPins[cur[r]] = NoRun /\ mapPins' = [mapPins EXCEPT ![cur[r]] = r] /\ Goto(r, "maps")
               /\ UNCHANGED coll
      <4>1. cur[r] \in Maps /\ ByName(cur[r]) /\ pc[r] = "pinmap" /\ UNCHANGED <<cur, scenario>>
        BY <2>8 DEF PinMap
      <4>2. mapPins'[cur[r]] = r /\ \A m \in Maps : m # cur[r] => mapPins'[m] = mapPins[m]
        BY <3>2, <4>1
      <4>3. ASSUME NEW s \in Runs, s # r, pc[s] \in Live, NEW m \in DOMAIN coll[s],
                   ByName(m), ~(pc[s] = "pinmap" /\ m = cur[s])
            PROVE  mapPins'[m] # NoRun /\ coll[s][m] = mapPins'[m]
        BY <3>2, <4>2, <4>3
      <4>4. ASSUME NEW m \in DOMAIN coll[r], ByName(m)
            PROVE  mapPins'[m] # NoRun /\ coll[r][m] = mapPins'[m]
        BY <3>2, <4>1, <4>2, <4>4, RunsAssumption
      <4> QED
        BY <3>2, <4>1, <4>3, <4>4
    <3>3. CASE Goto(r, "return") /\ coll' = [coll EXCEPT ![r] = e] /\ UNCHANGED mapPins
      <4> HIDE DEF e
      <4> QED
        BY <2>8, <3>1, <3>3 DEF PinMap
    <3> QED
      BY <2>8, <3>2, <3>3 DEF PinMap
  <2>9. CASE CollectionFails(r)
    <3> DEFINE e == << >>
    <3>1. e = [x \in DOMAIN e |-> e[x]]
      OBVIOUS
    <3>2. coll' = [coll EXCEPT ![r] = e]
      BY <2>9 DEF CollectionFails
    <3> HIDE DEF e
    <3> QED
      BY <2>9, <3>1, <3>2 DEF CollectionFails
  <2>10. CASE NewCollection(r)
    BY <2>10 DEF NewCollection, Defer
  <2>11. CASE \E p \in Progs : NextProg(r, p)
    BY <2>11 DEF NextProg
  <2>12. CASE LoopCancelled(r)
    BY <2>12 DEF LoopCancelled
  <2>13. CASE AttachKprobe(r) \/ AttachTracepoint(r)
    <3>1. Attached(r) /\ pc[r] = "attach"
      BY <2>13 DEF AttachKprobe, AttachTracepoint
    <3>2. PICK l \in {"stat", "loop"} : Goto(r, l)
      BY <3>1 DEF Attached
    <3> QED
      BY <3>1, <3>2 DEF Attached
  <2>14. CASE AttachFails(r)
    BY <2>14 DEF AttachFails
  <2>15. CASE NilTracepoint(r)
    BY <2>15 DEF NilTracepoint
  <2>16. CASE StatDir(r)
    <3>1. PICK l \in {"mkdir", "return", "pin"} : Goto(r, l)
      BY <2>16 DEF StatDir
    <3> QED
      BY <2>16, <3>1 DEF StatDir
  <2>17. CASE Mkdir(r)
    BY <2>17 DEF Mkdir
  <2>18. CASE Pin(r)
    BY <2>18 DEF Pin
  <2>19. CASE WatchMaps(r)
    <3>1. PICK l \in {"watching", "abandoned"} : Goto(r, l)
      BY <2>19 DEF WatchMaps
    <3> QED
      BY <2>19, <3>1 DEF WatchMaps
  <2>20. CASE RunDeferred(r)
    <3> DEFINE e == << >>
    <3>1. e = [x \in DOMAIN e |-> e[x]]
      OBVIOUS
    <3>2. coll' = [coll EXCEPT ![r] = e] \/ UNCHANGED coll
      BY <2>20 DEF RunDeferred
    <3> HIDE DEF e
    <3> QED
      BY <2>20, <3>1, <3>2 DEF RunDeferred
  <2>21. CASE Return(r)
    <3>1. PICK l \in Ended \cup {"waiting"} : Goto(r, l)
      BY <2>21 DEF Return
    <3> QED
      BY <2>21, <3>1 DEF Return
  <2> QED
    BY <1>2, <2>1, <2>2, <2>3, <2>4, <2>5, <2>6, <2>7, <2>8, <2>9, <2>10, <2>11, <2>12, <2>13,
       <2>14, <2>15, <2>16, <2>17, <2>18, <2>19, <2>20, <2>21 DEF Step
<1>3. ASSUME NEW r \in Runs, WatchEnds(r) \/ QuitTui(r) PROVE Opened'
  <2>1. CASE WatchEnds(r)
    BY <2>1 DEF WatchEnds
  <2>2. CASE QuitTui(r)
    BY <2>2 DEF QuitTui
  <2> QED
    BY <1>3, <2>1, <2>2
<1>4. ASSUME NEW r \in Runs, Signal(r) PROVE Opened'
  BY <1>4 DEF Signal
<1>5. ASSUME NEW r \in Runs, Killed(r) PROVE Opened'
  <2> DEFINE e == << >>
  <2>1. e = [x \in DOMAIN e |-> e[x]]
    OBVIOUS
  <2>2. coll' = [coll EXCEPT ![r] = e]
    BY <1>5 DEF Killed
  <2> HIDE DEF e
  <2> QED
    BY <1>5, <2>1, <2>2 DEF Killed
<1> QED
  BY <1>1, <1>2, <1>3, <1>4, <1>5 DEF Next

-----------------------------------------------------------------------------
Inv == TypeInv /\ Stack /\ Progress /\ Pinned /\ Supported /\ Built /\ Opened

\* Nothing is attached, opened or deferred when the processes are started.
LEMMA InitInv == Init => Inv
<1> SUFFICES ASSUME Init PROVE Inv
  OBVIOUS
<1> USE DEF Init, Maps, Progs, Elf
<1>1. Types
  BY ScenariosAssumption DEF Types, PCs, Ended, Deferrable
<1>2. Places
  BY DEF Places, AtProg
<1>3. Stack
  BY EmptyStack DEF Stack, Early, Opening, Attaching, AtProg, Ended
<1>4. Progress
  BY DEF Progress, Early, Opening, Attaching, AtProg
<1>5. Pinned
  BY DEF Pinned, Early, Opening, AtProg
<1>6. Supported
  BY DEF Supported
<1>7. Built
  BY DEF Built
<1>8. Opened
  <2> DEFINE e == << >>
  <2>1. e = [x \in DOMAIN e |-> e[x]] /\ DOMAIN e = {}
    OBVIOUS
  <2>2. coll = [r \in Runs |-> e]
    OBVIOUS
  <2> HIDE DEF e
  <2> QED
    BY <2>1, <2>2 DEF Opened, Early, Opening, Attaching, AtProg, Live
<1> QED
  BY <1>1, <1>2, <1>3, <1>4, <1>5, <1>6, <1>7, <1>8 DEF Inv, TypeInv

\* The invariant behind the theorems is inductive.
LEMMA Inductive == Spec => []Inv
<1>1. Inv /\ [Next]_vars => Inv'
  BY TypeStep, StackStep, ProgressStep, PinnedStep, SupportedStep, BuiltStep, OpenedStep DEF Inv
<1> QED
  BY <1>1, InitInv, PTL DEF Spec

\* The range of every variable, whatever the file, the flags and the signals: a
\* filter that BuildFilter returns is of a map that Parse has found.
THEOREM TypeCorrect == Spec => []TypeOK
<1>1. Inv => TypeOK
  BY DEF Inv, TypeInv, Types, TypeOK
<1> QED
  BY <1>1, Inductive, PTL

\* For every ELF file that Parse accepts, WatchMaps starts a goroutine for each of
\* its maps and waits for them.
THEOREM NoMapAbandoned == Spec => []NoneAbandoned
<1>1. Inv => NoneAbandoned
  BY DEF Inv, Supported, NoneAbandoned
<1> QED
  BY <1>1, Inductive, PTL

\* Every flag names a map and a key and has an expression; commas in the expression
\* make further fields of it, and none of those is the name of a map.
MeantAsFilters ==
  \A i \in DOMAIN scenario.flags :
    /\ Len(scenario.flags[i]) >= 3
    /\ \A j \in 4..Len(scenario.flags[i]) : scenario.flags[i][j] \notin Maps

\* FilterMeansFlags for one process and its flags.
MeansFlags(r, flags) ==
  /\ \A i \in DOMAIN flags : Len(flags[i]) = 3
  /\ \A m \in watched[r] : \A key \in [Elf.maps[m].labels -> Values] :
       LET mine == {i \in DOMAIN flags : flags[i][1] = m}
           last == flags[CHOOSE i \in mine : \A j \in mine : j <= i]
       IN  FilterMatch(r, m, key) <=> (mine = {} \/ key[last[2]] \in Matches[last[3]])

\* A set of numbers that is bounded has a greatest element.
LEMMA GreatestNumber ==
  ASSUME NEW n \in Nat, NEW T, T \subseteq 1..n, T # {}
  PROVE  \E x \in T : \A y \in T : y <= x
<1> DEFINE U == {n - i : i \in T}
<1>1. U \subseteq Nat /\ U # {}
  <2>1. \A i \in T : n - i \in Nat
    OBVIOUS
  <2> QED
    BY <2>1
<1>2. PICK u \in U : \A w \in U : u <= w
  <2> HIDE DEF U
  <2> QED
    BY <1>1, LeastNumber
<1>3. PICK x \in T : u = n - x
  BY <1>2
<1>4. ASSUME NEW y \in T PROVE y <= x
  <2>1. n - y \in U /\ x \in Int /\ y \in Int
    OBVIOUS
  <2>2. n - x <= n - y
    BY <1>2, <1>3, <2>1
  <2> QED
    BY <2>1, <2>2
<1> QED
  BY <1>4

\* Filters that were meant as such and were accepted are the ones that apply: of
\* those for a map the last one, which shows an entry if and only if it matches.
\* Whatever the number of flags, a comma in an expression is refused.
THEOREM FiltersApply == Spec => [](MeantAsFilters => FilterMeansFlags)
<1>1. Inv /\ MeantAsFilters => FilterMeansFlags
  <2> SUFFICES ASSUME Inv, MeantAsFilters, NEW r \in Runs, pc[r] = "check"
               PROVE  MeansFlags(r, scenario.flags)
    BY DEF FilterMeansFlags, MeansFlags
  <2>1. PICK g, f, ts : g = scenario.flags /\ f = Fields(g) /\ ts = Triples(f)
    OBVIOUS
  <2>2. g \in Seq(Seq(STRING))
    BY <2>1, ScenariosAssumption DEF Inv, TypeInv, Types
  <2>3. PICK n \in Nat : n = Len(g) /\ DOMAIN g = 1..n
    BY <2>2
  <2>4. watched[r] \subseteq Maps
    BY DEF Inv, TypeInv, Types
  <2>5. /\ Len(f) % 3 = 0
        /\ \A i \in DOMAIN ts :
             ts[i].map \in watched[r] /\ ts[i].label \in Elf.maps[ts[i].map].labels
        /\ filter[r] = [m \in {ts[i].map : i \in DOMAIN ts} |-> Winner(ts, m)]
    BY <2>1 DEF Inv, Built, Returned, Elf
  <2>6. /\ DOMAIN ts = 1..(Len(f) \div 3)
        /\ \A i \in DOMAIN ts :
             ts[i] = [map |-> f[3*i - 2], label |-> f[3*i - 1], regex |-> f[3*i]]
    BY <2>1 DEF Triples, Triple
  <2>7. Aligned(f, g)
    <3>1. \A i \in 1..n : Len(g[i]) >= 3 /\ \A j \in 4..Len(g[i]) : g[i][j] \notin Maps
      BY <2>1, <2>3 DEF MeantAsFilters
    <3>2. \A i \in 1..(Len(f) \div 3) : f[3*i - 2] \in Maps
      BY <2>4, <2>5, <2>6
    <3>3. f = FlattenSeq(g)
      BY <2>1 DEF Fields
    <3>4. PICK S, W : S = STRING /\ W = Maps
      OBVIOUS
    <3> QED
      BY <2>2, <2>3, <2>5, <3>1, <3>2, <3>3, <3>4, FieldsAlign
  <2>8. DOMAIN ts = 1..n
    BY <2>3, <2>6, <2>7 DEF Aligned
  <2>9. \A i \in 1..n : /\ Len(g[i]) = 3 /\ ts[i].map = g[i][1]
                        /\ ts[i].label = g[i][2] /\ ts[i].regex = g[i][3]
    <3>1. \A i \in 1..n : /\ Len(g[i]) = 3 /\ f[3*i - 2] = g[i][1]
                          /\ f[3*i - 1] = g[i][2] /\ f[3*i] = g[i][3]
      BY <2>3, <2>7 DEF Aligned
    <3>2. \A i \in 1..n : /\ ts[i].map = f[3*i - 2]
                          /\ ts[i].label = f[3*i - 1] /\ ts[i].regex = f[3*i]
      BY <2>6, <2>8
    <3> QED
      BY <3>1, <3>2, Zenon
  <2>10. ASSUME NEW m \in watched[r], NEW key \in [Elf.maps[m].labels -> Values]
         PROVE  LET mine == {i \in DOMAIN g : g[i][1] = m}
                    last == g[CHOOSE i \in mine : \A j \in mine : j <= i]
                IN  FilterMatch(r, m, key) <=> (mine = {} \/ key[last[2]] \in Matches[last[3]])
    <3> USE <2>3
    <3> DEFINE mine == {i \in DOMAIN g : g[i][1] = m}
               last == g[CHOOSE i \in mine : \A j \in mine : j <= i]
    <3>1. CASE mine = {}
      <4>1. m \notin DOMAIN filter[r]
        BY <2>5, <2>8, <2>9, <3>1
      <4> QED
        BY <3>1, <4>1 DEF FilterMatch
    <3>2. CASE mine # {}
      <4>1. PICK x \in mine : \A y \in mine : y <= x
        <5>1. mine \subseteq 1..n
          OBVIOUS
        <5> HIDE DEF mine
        <5> QED
          BY <3>2, <5>1, GreatestNumber
      <4>2. x \in 1..n /\ g[x][1] = m
        OBVIOUS
      <4>3. (CHOOSE i \in mine : \A j \in mine : j <= i) = x
        BY <4>1
      <4>4. Winner(ts, m) = ts[x]
        <5>1. \A i \in 1..n : ts[i].map = m <=> i \in mine
          BY <2>9
        <5>2. \A i \in 1..n : (ts[i].map = m /\ \A j \in 1..n : ts[j].map = m => j <= i) <=> i = x
          BY <4>1, <4>2, <5>1
        <5> QED
          BY <2>8, <4>2, <5>2 DEF Winner
      <4>5. m \in DOMAIN filter[r] /\ filter[r][m] = ts[x]
        BY <2>5, <2>8, <2>9, <4>2, <4>4
      <4>6. PICK l, e : l = g[x][2] /\ e = g[x][3]
        OBVIOUS
      <4>7. filter[r][m].label = l /\ filter[r][m].regex = e /\ l \in DOMAIN key
        BY <2>5, <2>8, <2>9, <4>2, <4>5, <4>6
      <4>8. FilterMatch(r, m, key) <=> key[l] \in Matches[e]
        BY <4>5, <4>7 DEF FilterMatch
      <4> QED
        BY <3>2, <4>3, <4>6, <4>8
    <3> QED
      BY <3>1, <3>2
  <2>11. \A i \in DOMAIN g : Len(g[i]) = 3
    BY <2>3, <2>9
  <2>12. MeansFlags(r, g)
    BY <2>10, <2>11, Zenon DEF MeansFlags
  <2> QED
    BY <2>1, <2>12
<1> QED
  BY <1>1, Inductive, PTL

\* However many processes race for the pins of the maps, the one that watches has
\* every program attached and every map open, those pinned by name the pinned ones.
THEOREM EverythingWatched == Spec => []WatchesEverything
<1>1. Inv => WatchesEverything
  <2> SUFFICES ASSUME Inv, NEW r \in Runs, pc[r] = "watching"
               PROVE  /\ links[r] = Progs
                      /\ coll[r] = [m \in Maps |-> IF scenario.pinMaps /\ ~Rodata(m)
                                                     THEN mapPins[m] ELSE r]
    BY DEF WatchesEverything
  <2>1. links[r] = Progs
    BY DEF Inv, Progress, Attaching
  <2>2. coll[r] = [m \in Maps |-> coll[r][m]]
    BY DEF Inv, Opened, Attaching
  <2>3. \A m \in Maps : coll[r][m] = IF scenario.pinMaps /\ ~Rodata(m) THEN mapPins[m] ELSE r
    <3>1. DOMAIN coll[r] = Maps /\ pc[r] \in Live /\ pc[r] # "pinmap"
      BY DEF Inv, Opened, Attaching, Live
    <3>2. \A m \in Maps : IF ByName(m) THEN coll[r][m] = mapPins[m] ELSE coll[r][m] = r
      BY <3>1 DEF Inv, Opened
    <3> QED
      BY <3>2 DEF ByName
  <2> QED
    BY <2>1, <2>2, <2>3
<1> QED
  BY <1>1, Inductive, PTL

\* The deferred calls of Load undo everything before they close the watcher, and
\* there are none left when the process ends.
THEOREM ClosedMeansDetached == Spec => []NothingAttachedAfterClose
<1>1. Inv => NothingAttachedAfterClose
  <2> SUFFICES ASSUME Inv, NEW r \in Runs, closed[r] \/ pc[r] \in Ended
               PROVE  links[r] = {} /\ coll[r] = << >>
    BY DEF NothingAttachedAfterClose
  <2>1. defers[r] = << >> /\ pc[r] \notin Opening
    BY DEF Inv, Stack, Ended, Opening
  <2>2. \A x : ~Holds(defers[r], x)
    BY <2>1, EmptyStack
  <2> QED
    BY <2>1, <2>2 DEF Inv, Stack
<1> QED
  BY <1>1, Inductive, PTL

\* A run that watches with --pin-progs has made every pin itself, whatever pins
\* there were and whoever else was making them.
THEOREM OwnPins == Spec => []PinsAreOwn
<1>1. Inv => PinsAreOwn
  BY DEF Inv, Pinned, PinsAreOwn
<1> QED
  BY <1>1, Inductive, PTL
=============================================================================
