------------------------------ MODULE BeeRun ------------------------------
(***************************************************************************)
(* The goroutines of one `bee run` and everything they share.              *)
(*                                                                         *)
(*   main     run() in pkg/cli/internal/commands/run/run.go, waiting for   *)
(*            the three goroutines of App.Run (pkg/tui/tui.go)             *)
(*   tui      the event loop of the tview application                      *)
(*   watch    App.watch, the only receiver of the channel a.Entries        *)
(*   load     loader.Load and WatchMaps (pkg/loader/loader.go)             *)
(*   pc[m]    the goroutine WatchMaps starts for the watched map m: it     *)
(*            registers a table (makeMapValue), then runs startRingBuf or  *)
(*            startHashMap                                                 *)
(*                                                                         *)
(* They share the context, the channel a.Entries, the map mapOfMaps, the   *)
(* read-write lock mapMutex and the update queue of tview. With --no-tty   *)
(* (Tty = FALSE) there are no tui and watch goroutines and the watcher is  *)
(* the noopWatcher of pkg/loader/watcher.go.                               *)
(*                                                                         *)
(* An entry is abstracted to the name of the map it comes from; a row of   *)
(* mapOfMaps to its Index. Metrics and the contents of rows are not here.  *)
(***************************************************************************)
EXTENDS Integers, Sequences, FiniteSets

CONSTANTS
  Maps,           \* the maps Parse selected for watching
  NoMap,          \* not a map: no table has the focus, no entry is held
  RingBufs,       \* the maps of type BPF_MAP_TYPE_RINGBUF; the others are hashes
  NilInstrument,  \* the ring buffers for which WatchMaps picks no instrument
  Outcomes,       \* Outcomes[m]: what decoding an item of m may result in
  Filtered,       \* the maps that have a --filter
  Tty,            \* FALSE with --no-tty
  RootHasFocus,   \* the version of tview hands keys to a root without focus
  EntriesCap,     \* capacity of a.Entries: 20 in the code
  MaxEntries,     \* bound: entries produced in a behaviour
  MaxKeys         \* bound: navigation keys pressed in a behaviour

ASSUME MapsAssumption == IsFiniteSet(Maps) /\ NoMap \notin Maps
ASSUME RingBufsAssumption == RingBufs \subseteq Maps /\ NilInstrument \subseteq RingBufs
ASSUME OutcomesAssumption == Outcomes \in [Maps -> SUBSET {"ok", "error", "fatal"}]
ASSUME OptionsAssumption == Filtered \subseteq Maps /\ Tty \in BOOLEAN /\ RootHasFocus \in BOOLEAN
ASSUME BoundsAssumption == EntriesCap \in Nat \ {0} /\ MaxEntries \in Nat /\ MaxKeys \in Nat

VARIABLES
  main,           \* "setup", "running" or "returned"
  ctx,            \* the context of App.Run has been cancelled
  fault,          \* why the process died, or "none"
  tui,            \* "starting", "loop", "rlock", "iterate", "stopping", "stopped"
  keys,           \* how many navigation keys have been pressed
  currentIndex,   \* the Index of the table the keys selected last
  focus,          \* the table with the focus, or NoMap
  flex,           \* the tables on the screen, from top to bottom
  updates,        \* queued closures of makeMapValue, by the map they add
  rlocks,         \* read locks held on mapMutex
  pc,             \* where the goroutine of each map is
  slot,           \* the local variable i of makeMapValue
  mapOfMaps,      \* the Index of each registered map, or Absent
  rd,             \* the ring buffer reader: "none", "open" or "closed"
  load,           \* "entry", "attach", "spawn", "wait", "closing", "done"
  egErr,          \* a goroutine of WatchMaps' errgroup returned an error
  entries,        \* the contents of a.Entries
  closed,         \* Watcher.Close has been called
  watch,          \* "recv", "render" or "done"
  cur,            \* the entry watch is rendering, or NoMap
  accepted,       \* history: every entry SendEntry put on the channel
  shown           \* history: every entry watch rendered

runVars   == <<main, ctx, fault>>
tuiVars   == <<tui, keys, currentIndex, focus, flex, rlocks>>
tableVars == <<slot, mapOfMaps>>
loadVars  == <<load, egErr>>
chanVars  == <<entries, closed, accepted>>
watchVars == <<watch, cur, shown>>

vars == <<runVars, tuiVars, updates, pc, tableVars, rd, loadVars, chanVars, watchVars>>

\* What a step leaves alone when it changes only the part it is named after.
notRun  == <<tuiVars, updates, pc, tableVars, rd, loadVars, chanVars, watchVars>>
notTui  == <<updates, pc, tableVars, rd, loadVars, chanVars, watchVars>>
notPc   == <<runVars, tuiVars, updates, tableVars, rd, loadVars, chanVars, watchVars>>
notLoad == <<runVars, tuiVars, updates, pc, tableVars, rd, egErr, chanVars, watchVars>>

-----------------------------------------------------------------------------
Absent == -1

Registered == {m \in Maps : mapOfMaps[m] # Absent}

TuiStates  == {"starting", "loop", "rlock", "iterate", "stopping", "stopped"}
LoadStates == {"entry", "attach", "spawn", "wait", "closing", "done"}
\* Where a goroutine is while makeMapValue has not returned, and after that.
Registering == {"register", "lockwait", "critical", "queue", "await"}
Serving     == {"start", "loop", "iter", "send"}
Faults == {"none", "nilInstrument", "logFatal", "sendOnClosed", "mapRace"}

Init ==
  /\ main = "setup"
  /\ ctx = FALSE
  /\ fault = "none"
  /\ tui = IF Tty THEN "starting" ELSE "stopped"
  /\ keys = 0
  /\ currentIndex = 0
  /\ focus = NoMap
  /\ flex = << >>
  /\ updates = << >>
  /\ rlocks = 0
  /\ pc = [m \in Maps |-> "idle"]
  /\ slot = [m \in Maps |-> 0]
  /\ mapOfMaps = [m \in Maps |-> Absent]
  /\ rd = [m \in Maps |-> "none"]
  /\ load = "entry"
  /\ egErr = FALSE
  /\ entries = << >>
  /\ closed = FALSE
  /\ watch = IF Tty THEN "recv" ELSE "done"
  /\ cur = NoMap
  /\ accepted = << >>
  /\ shown = << >>

\* The process runs its goroutines: it has not died, and run() is past setup.
Live == fault = "none" /\ main = "running"

\* A step that only moves one goroutine from one place to another.
TuiGoes(from, to) ==
  /\ Live
  /\ tui = from
  /\ tui' = to
  /\ UNCHANGED <<runVars, keys, currentIndex, focus, flex, rlocks, notTui>>

LoadGoes(from, to) ==
  /\ Live
  /\ load = from
  /\ load' = to
  /\ UNCHANGED notLoad

MapGoes(m, from, to) ==
  /\ Live
  /\ pc[m] = from
  /\ pc' = [pc EXCEPT ![m] = to]
  /\ UNCHANGED notPc

-----------------------------------------------------------------------------
(* run(): setup, the signal handler, and the return to the shell.          *)

\* Fetching, parsing or BuildFilter fails.
SetupFails ==
  /\ main = "setup"
  /\ main' = "returned"
  /\ UNCHANGED <<ctx, fault, notRun>>

\* The last thing before the goroutines start is a look at the context.
SetupDone ==
  /\ main = "setup"
  /\ main' = IF ctx THEN "returned" ELSE "running"
  /\ UNCHANGED <<ctx, fault, notRun>>

\* SIGINT or SIGTERM. The handler goroutine receives one signal and ends;
\* further signals stay in the channel and have no effect.
Signal ==
  /\ main # "returned" /\ fault = "none"
  /\ ~ctx
  /\ ctx' = TRUE
  /\ UNCHANGED <<main, fault, notRun>>

\* Mutant: watch is started outside the errgroup.
GoroutinesDoneButWatch == tui = "stopped" /\ load = "done"

\* eg.Wait of App.Run; with --no-tty, the return of Load.
GoroutinesDone == tui = "stopped" /\ watch = "done" /\ load = "done"

RunReturns ==
  /\ Live
  /\ GoroutinesDone
  /\ main' = "returned"
  /\ UNCHANGED <<ctx, fault, notRun>>

-----------------------------------------------------------------------------
(* The tview event loop.                                                   *)

TuiStart == TuiGoes("starting", "loop")

\* Run returns an error when the screen cannot be opened.
TuiFails == TuiGoes("starting", "stopped")

\* Mutant: Ctrl-C stops the application and nothing cancels the context.
KeyCtrlCNoCancel == TuiGoes("loop", "stopping")

\* The input capture cancels the context, then tview's default for Ctrl-C
\* stops the application.
KeyCtrlC ==
  /\ Live
  /\ tui = "loop"
  /\ ctx' = TRUE
  /\ tui' = "stopping"
  /\ UNCHANGED <<main, fault, keys, currentIndex, focus, flex, rlocks, notTui>>

\* 'q' cancels the context; nothing stops the application.
KeyQ ==
  /\ Live
  /\ tui = "loop"
  /\ ~ctx
  /\ ctx' = TRUE
  /\ UNCHANGED <<main, fault, notRun>>

TuiStop == TuiGoes("stopping", "stopped")

\* Mutant: every new table takes the focus.
FocusLatest(m) == m

\* The closure of makeMapValue moves the focus for the first table only.
FocusAfter(m) == IF slot[m] = 0 THEN m ELSE focus

\* The event loop runs a queued closure and wakes the goroutine that queued it.
RunUpdate ==
  /\ Live
  /\ tui \in {"loop", "stopping"}
  /\ updates # << >>
  /\ LET m == Head(updates) IN
       /\ flex' = Append(flex, m)
       /\ focus' = FocusAfter(m)
       /\ pc' = [pc EXCEPT ![m] = "start"]
  /\ updates' = Tail(updates)
  /\ UNCHANGED <<runVars, tui, keys, currentIndex, rlocks, tableVars, rd, loadVars, chanVars, watchVars>>

\* Mutant: no wrap-around at the start of the tables.
PrevIndexNoWrap == currentIndex - 1

\* nextTable and prevTable compute the new index before they take the lock.
NextIndex == IF currentIndex + 1 = Cardinality(Registered) THEN 0 ELSE currentIndex + 1
PrevIndex == IF currentIndex = 0 THEN Cardinality(Registered) - 1 ELSE currentIndex - 1

\* A key reaches the flex when something in it has the focus.
KeyReachesFlex == RootHasFocus \/ focus # NoMap

NavKey(newIndex) ==
  /\ Live
  /\ tui = "loop"
  /\ keys < MaxKeys
  /\ KeyReachesFlex
  /\ Cardinality(Registered) > 1
  /\ keys' = keys + 1
  /\ currentIndex' = newIndex
  /\ tui' = "rlock"
  /\ UNCHANGED <<runVars, focus, flex, rlocks, notTui>>

\* RLock waits for a writer that holds mapMutex or waits for it.
NavRLock ==
  /\ Live
  /\ tui = "rlock"
  /\ \A m \in Maps : pc[m] \notin {"lockwait", "critical"}
  /\ rlocks' = rlocks + 1
  /\ tui' = "iterate"
  /\ UNCHANGED <<runVars, keys, currentIndex, focus, flex, notTui>>

\* The loop returns from inside when it finds the table: RUnlock is reached
\* only when no table has the index.
NavSelect ==
  /\ Live
  /\ tui = "iterate"
  /\ LET found == {m \in Registered : mapOfMaps[m] = currentIndex} IN
       /\ focus' \in IF found = {} THEN {focus} ELSE found
       /\ rlocks' = IF found = {} THEN rlocks - 1 ELSE rlocks
  /\ tui' = "loop"
  /\ UNCHANGED <<runVars, keys, currentIndex, flex, notTui>>

-----------------------------------------------------------------------------
(* Load and WatchMaps.                                                     *)

LoadEntry == LoadGoes("entry", IF ctx THEN "closing" ELSE "attach")

\* The kernel refuses the collection, a probe or a pin.
LoadFails == LoadGoes("attach", "closing")

\* Everything is attached: a cancellation after the last look at the context
\* goes unnoticed here. Before it, Load returns as in LoadFails.
LoadAttached == LoadGoes("attach", "spawn")

\* One turn of the loop over watchedMaps, in Go's random order.
Spawn(m) ==
  /\ load = "spawn"
  /\ MapGoes(m, "idle", IF Tty THEN "register" ELSE "start")

SpawnedAll ==
  /\ \A m \in Maps : pc[m] # "idle"
  /\ LoadGoes("spawn", "wait")

\* Mutant: WatchMaps returns with the first goroutine that does.
SomeWatcherDone == \E m \in Maps : pc[m] = "done"

\* eg.Wait of WatchMaps.
WatchersDone == \A m \in Maps : pc[m] = "done"

EgWait == WatchersDone /\ LoadGoes("wait", "closing")

\* The deferred calls of Load; the first one deferred, Watcher.Close, runs last.
LoadClose ==
  /\ Live
  /\ load = "closing"
  /\ load' = "done"
  /\ closed' = TRUE
  /\ UNCHANGED <<runVars, tuiVars, updates, pc, tableVars, rd, egErr, entries, accepted, watchVars>>

-----------------------------------------------------------------------------
(* makeMapValue, in the goroutine of map m.                                *)

RequestLock(m) == MapGoes(m, "register", "lockwait")

\* Mutant: writers do not exclude each other.
LockFreeOfReaders == rlocks = 0

\* Lock waits for every reader and for the other writers.
LockFree == rlocks = 0 /\ \A n \in Maps : pc[n] # "critical"

AcquireLock(m) ==
  /\ Live
  /\ pc[m] = "lockwait"
  /\ LockFree
  /\ slot' = [slot EXCEPT ![m] = Cardinality(Registered)]
  /\ pc' = [pc EXCEPT ![m] = "critical"]
  /\ UNCHANGED <<runVars, tuiVars, updates, mapOfMaps, rd, loadVars, chanVars, watchVars>>

\* The write to mapOfMaps and Unlock.
Register(m) ==
  /\ Live
  /\ pc[m] = "critical"
  /\ mapOfMaps' = [mapOfMaps EXCEPT ![m] = slot[m]]
  /\ pc' = [pc EXCEPT ![m] = "queue"]
  /\ UNCHANGED <<runVars, tuiVars, updates, slot, rd, loadVars, chanVars, watchVars>>

\* Mutant: the update is queued without waiting for it, as in `go QueueUpdateDraw`.
QueueUpdateNoWait(m) ==
  /\ Live
  /\ pc[m] = "queue"
  /\ updates' = Append(updates, m)
  /\ pc' = [pc EXCEPT ![m] = "start"]
  /\ UNCHANGED <<runVars, tuiVars, tableVars, rd, loadVars, chanVars, watchVars>>

\* QueueUpdateDraw returns only after the event loop has run the closure.
QueueUpdate(m) ==
  /\ Live
  /\ pc[m] = "queue"
  /\ updates' = Append(updates, m)
  /\ pc' = [pc EXCEPT ![m] = "await"]
  /\ UNCHANGED <<runVars, tuiVars, tableVars, rd, loadVars, chanVars, watchVars>>

-----------------------------------------------------------------------------
(* startRingBuf and startHashMap, in the goroutine of map m.               *)

\* Mutant: a plain errgroup.Group, whose errors cancel nothing.
CancelledByRunOnly == ctx

\* The context WatchMaps gives its goroutines.
Cancelled == ctx \/ egErr

\* Mutant: the deferred rd.Close is missing.
ReturnErrorNoClose(m) ==
  /\ pc' = [pc EXCEPT ![m] = "done"]
  /\ rd' = rd
  /\ egErr' = TRUE

\* The goroutine returns err: its deferred Close of the reader runs, and the
\* errgroup cancels the context of the others.
ReturnError(m) ==
  /\ pc' = [pc EXCEPT ![m] = "done"]
  /\ rd' = [rd EXCEPT ![m] = IF @ = "open" THEN "closed" ELSE @]
  /\ egErr' = TRUE

\* SendEntry for an item decoded at `from`. The App's puts it on the channel,
\* unless m has a filter, which may not match; the noopWatcher's does nothing.
CallSendEntry(m, from) ==
  \/ Tty /\ MapGoes(m, from, "send")
  \/ (~Tty \/ m \in Filtered) /\ MapGoes(m, from, from)

\* An item of m may still be produced.
WithinBound == Len(accepted) + Cardinality({n \in Maps : pc[n] = "send"}) < MaxEntries

OpenReader(m) ==
  /\ Live
  /\ pc[m] = "start" /\ m \in RingBufs
  /\ rd' = [rd EXCEPT ![m] = "open"]
  /\ pc' = [pc EXCEPT ![m] = "loop"]
  /\ UNCHANGED <<runVars, tuiVars, updates, tableVars, loadVars, chanVars, watchVars>>

OpenFails(m) ==
  /\ Live
  /\ pc[m] = "start" /\ m \in RingBufs
  /\ ReturnError(m)
  /\ UNCHANGED <<runVars, tuiVars, updates, tableVars, load, chanVars, watchVars>>

\* Mutant: the goroutine waits for an error instead of the context.
CloseReaderOnError(m) ==
  /\ Live
  /\ rd[m] = "open" /\ egErr
  /\ rd' = [rd EXCEPT ![m] = "closed"]
  /\ UNCHANGED <<runVars, tuiVars, updates, pc, tableVars, loadVars, chanVars, watchVars>>

\* The goroutine that closes the reader once the context is done.
CloseReader(m) ==
  /\ Live
  /\ rd[m] = "open" /\ Cancelled
  /\ rd' = [rd EXCEPT ![m] = "closed"]
  /\ UNCHANGED <<runVars, tuiVars, updates, pc, tableVars, loadVars, chanVars, watchVars>>

\* A record is read, decoded, counted and handed to SendEntry. (A read error
\* other than ErrClosed is logged and changes nothing.)
RingRead(m) ==
  /\ m \in RingBufs
  /\ rd[m] = "open"
  /\ WithinBound
  /\ m \notin NilInstrument
  /\ "ok" \in Outcomes[m]
  /\ CallSendEntry(m, "loop")

\* The call of Increment on a nil interface.
RingNilInstrument(m) ==
  /\ Live
  /\ pc[m] = "loop" /\ m \in NilInstrument
  /\ rd[m] = "open"
  /\ "ok" \in Outcomes[m]
  /\ fault' = "nilInstrument"
  /\ UNCHANGED <<main, ctx, notRun>>

RingClosed(m) == m \in RingBufs /\ rd[m] = "closed" /\ MapGoes(m, "loop", "done")

\* The decoder refuses a record, or a key or value met while iterating.
DecodeFails(m) ==
  /\ Live
  /\ \/ pc[m] = "loop" /\ rd[m] = "open"
     \/ pc[m] = "iter"
  /\ "error" \in Outcomes[m]
  /\ ReturnError(m)
  /\ UNCHANGED <<runVars, tuiVars, updates, tableVars, load, chanVars, watchVars>>

StartTicker(m) == m \notin RingBufs /\ MapGoes(m, "start", "loop")

\* The select takes the tick, cancelled or not.
HashTick(m) == m \notin RingBufs /\ MapGoes(m, "loop", "iter")

\* mapIter.Next yields a key and a value.
HashEntry(m) ==
  /\ WithinBound
  /\ "ok" \in Outcomes[m]
  /\ CallSendEntry(m, "iter")

\* A value that is not one uint64: log.Fatal ends the process.
HashFatal(m) ==
  /\ Live
  /\ pc[m] = "iter"
  /\ "fatal" \in Outcomes[m]
  /\ fault' = "logFatal"
  /\ UNCHANGED <<main, ctx, notRun>>

\* mapIter.Next is false, at the end of the map or because of an error.
HashIterEnd(m) == MapGoes(m, "iter", "loop")

\* The select takes ctx.Done.
HashDone(m) == m \notin RingBufs /\ Cancelled /\ MapGoes(m, "loop", "done")

\* a.Entries <- entry: waits while the channel is full, panics when it is closed.
Send(m) ==
  /\ Live
  /\ pc[m] = "send"
  /\ IF closed
       THEN /\ fault' = "sendOnClosed"
            /\ UNCHANGED <<entries, accepted, pc>>
       ELSE /\ Len(entries) < EntriesCap
            /\ entries' = Append(entries, m)
            /\ accepted' = Append(accepted, m)
            /\ pc' = [pc EXCEPT ![m] = IF m \in RingBufs THEN "loop" ELSE "iter"]
            /\ UNCHANGED fault
  /\ UNCHANGED <<main, ctx, tuiVars, updates, tableVars, rd, loadVars, closed, watchVars>>

-----------------------------------------------------------------------------
(* watch: the receiver of a.Entries.                                       *)

WatchRecv ==
  /\ Live
  /\ watch = "recv"
  /\ entries # << >>
  /\ cur' = Head(entries)
  /\ entries' = Tail(entries)
  /\ watch' = "render"
  /\ UNCHANGED <<runVars, tuiVars, updates, pc, tableVars, rd, loadVars, closed, accepted, shown>>

\* renderHash or renderRingBuf. An entry whose name is not in mapOfMaps has
\* the zero Type and is dropped.
WatchRender ==
  /\ Live
  /\ watch = "render"
  /\ shown' = IF cur \in Registered THEN Append(shown, cur) ELSE shown
  /\ cur' = NoMap
  /\ watch' = "recv"
  /\ UNCHANGED <<runVars, tuiVars, updates, pc, tableVars, rd, loadVars, chanVars>>

\* Mutant: watch stops at Close, whatever is left in the channel.
NoMoreEntriesAtClose == closed

\* The range over the channel ends when it is closed and empty.
NoMoreEntries == closed /\ entries = << >>

WatchEnd ==
  /\ Live
  /\ watch = "recv"
  /\ NoMoreEntries
  /\ watch' = "done"
  /\ UNCHANGED <<runVars, tuiVars, updates, pc, tableVars, rd, loadVars, chanVars, cur, shown>>

\* watch reads and writes mapOfMaps without mapMutex. Two accesses that
\* overlap, one of them a write, may be noticed by the Go runtime, which then
\* ends the process.
MapRace == watch = "render" /\ (tui = "iterate" \/ \E m \in Maps : pc[m] = "critical")

MapRaceNoticed ==
  /\ Live
  /\ MapRace
  /\ fault' = "mapRace"
  /\ UNCHANGED <<main, ctx, notRun>>

-----------------------------------------------------------------------------
\* The process has ended.
Ended ==
  /\ main = "returned" \/ fault # "none"
  /\ UNCHANGED vars

RunNext == SetupFails \/ SetupDone \/ Signal \/ RunReturns

TuiNext ==
  \/ TuiStart \/ TuiFails \/ KeyCtrlC \/ KeyQ \/ TuiStop \/ RunUpdate
  \/ NavKey(NextIndex) \/ NavKey(PrevIndex) \/ NavRLock \/ NavSelect

LoadNext ==
  \/ LoadEntry \/ LoadFails \/ LoadAttached \/ SpawnedAll \/ EgWait \/ LoadClose
  \/ \E m \in Maps : Spawn(m)

MapNext(m) ==
  \/ RequestLock(m) \/ AcquireLock(m) \/ Register(m) \/ QueueUpdate(m)
  \/ OpenReader(m) \/ OpenFails(m) \/ CloseReader(m) \/ RingRead(m)
  \/ RingNilInstrument(m) \/ RingClosed(m) \/ DecodeFails(m)
  \/ StartTicker(m) \/ HashTick(m) \/ HashEntry(m) \/ HashFatal(m)
  \/ HashIterEnd(m) \/ HashDone(m) \/ Send(m)

WatchNext == WatchRecv \/ WatchRender \/ WatchEnd \/ MapRaceNoticed

Next ==
  \/ RunNext
  \/ TuiNext
  \/ LoadNext
  \/ \E m \in Maps : MapNext(m)
  \/ WatchNext
  \/ Ended

Spec == Init /\ [][Next]_vars

\* What a goroutine does when nothing outside it decides: no key, no kernel
\* event, no failure of the decoder.
MainRuns  == SetupDone \/ SetupFails \/ RunReturns
TuiRuns   == TuiStart \/ TuiFails \/ TuiStop \/ RunUpdate \/ NavRLock \/ NavSelect
WatchRuns == WatchRecv \/ WatchRender \/ WatchEnd
MapRuns(m) ==
  \/ RequestLock(m) \/ AcquireLock(m) \/ Register(m) \/ QueueUpdate(m)
  \/ OpenReader(m) \/ OpenFails(m) \/ RingClosed(m)
  \/ StartTicker(m) \/ HashIterEnd(m) \/ Send(m)

\* The Go scheduler runs every goroutine that can take a step, and a select
\* with two ready cases does not pick the tick for ever.
Fairness ==
  /\ WF_vars(MainRuns) /\ WF_vars(TuiRuns) /\ WF_vars(LoadNext) /\ WF_vars(WatchRuns)
  /\ \A m \in Maps : WF_vars(MapRuns(m))
  /\ \A m \in RingBufs : WF_vars(CloseReader(m))
  /\ \A m \in Maps \ RingBufs : SF_vars(HashDone(m))

FairSpec == Spec /\ Fairness

-----------------------------------------------------------------------------
(* Safety.                                                                 *)

\* The range of every variable.
TypeOK ==
  /\ main \in {"setup", "running", "returned"}
  /\ ctx \in BOOLEAN
  /\ fault \in Faults
  /\ tui \in TuiStates
  /\ keys \in Nat
  /\ currentIndex \in Nat
  /\ focus \in Maps \cup {NoMap}
  /\ flex \in Seq(Maps)
  /\ updates \in Seq(Maps)
  /\ rlocks \in Nat
  /\ pc \in [Maps -> {"idle", "done"} \cup Registering \cup Serving]
  /\ slot \in [Maps -> Nat]
  /\ mapOfMaps \in [Maps -> Nat \cup {Absent}]
  /\ rd \in [Maps -> {"none", "open", "closed"}]
  /\ load \in LoadStates
  /\ egErr \in BOOLEAN
  /\ entries \in Seq(Maps)
  /\ closed \in BOOLEAN
  /\ watch \in {"recv", "render", "done"}
  /\ cur \in Maps \cup {NoMap}
  /\ accepted \in Seq(Maps)
  /\ shown \in Seq(Maps)

\* Close of the channel comes after the last send: whatever path Load returns
\* by, no goroutine of WatchMaps sends on the closed channel, which would panic.
NoSendAfterClose == fault # "sendOnClosed"

\* When Load has told the watcher that no more entries come, no goroutine it
\* started is still working and every ring buffer reader it opened is closed.
NothingLeftBehind ==
  closed => \A m \in Maps : pc[m] \in {"idle", "done"} /\ rd[m] # "open"

\* The Index values in mapOfMaps are 0 .. n-1, each given once, although the
\* maps register concurrently and in any order. nextTable and prevTable count
\* on it to find a table for every index.
IndexesArePositions ==
  /\ \A m \in Registered : mapOfMaps[m] < Cardinality(Registered)
  /\ \A m, n \in Registered : m # n => mapOfMaps[m] # mapOfMaps[n]

OnScreen == {flex[i] : i \in 1..Len(flex)}

\* An entry on its way to the display belongs to a map whose table has already
\* been added to the screen: watch never meets a name it does not know.
EntriesHaveTables ==
  /\ \A i \in 1..Len(entries) : entries[i] \in OnScreen
  /\ cur # NoMap => cur \in OnScreen

\* Wherever the keys move it, currentIndex is the Index of some table, so that
\* the loop in nextTable and prevTable finds it; and between two keys that table
\* is the one with the focus. The second part needs a tview that withholds keys
\* from a root without focus.
FocusTracksIndex ==
  /\ tui \in {"rlock", "iterate"} => \E m \in Registered : mapOfMaps[m] = currentIndex
  /\ ~RootHasFocus /\ tui = "loop" /\ focus # NoMap => mapOfMaps[focus] = currentIndex

\* run() returns to the shell with every accepted entry rendered.
NothingLostAtReturn == main = "returned" => shown = accepted

\* What the MapWatcher interface promises: the accepted entries are rendered
\* once each, in the order in which they were accepted.
Stream == INSTANCE EntryStream WITH
  Names <- Maps, ended <- closed, finished <- Tty /\ watch = "done"

StreamSpec == Stream!Spec

-----------------------------------------------------------------------------
(* Liveness.                                                               *)

\* Every table there will be is on the screen: no goroutine waits for the
\* event loop or is still to be started.
TablesUp ==
  /\ load \in {"wait", "closing", "done"}
  /\ \A m \in Maps : pc[m] \notin Registering

\* Once every table is up, a cancelled context, be it by a key, a signal or the
\* error of one watcher goroutine, ends all of them, closes the channel and ends
\* watch, unless the process dies first.
CancelEndsLoad ==
  ((ctx \/ egErr) /\ TablesUp) ~> ((load = "done" /\ watch = "done") \/ fault # "none")

\* Once every table is up, Ctrl-C brings run() back to the shell, even when
\* navigation keys have leaked read locks and senders wait for room.
CtrlCQuitsOnceUp ==
  (tui = "stopping" /\ TablesUp) ~> (main = "returned" \/ fault # "none")

\* Every accepted entry is rendered, even those accepted while shutting down.
EveryEntryShown ==
  \A i \in 1..MaxEntries :
    (Len(accepted) >= i) ~> (Len(shown) >= i \/ fault # "none")

\* Without a terminal a signal alone brings run() back to the shell.
SignalEndsNoTty == ~Tty => (ctx ~> (main = "returned" \/ fault # "none"))

-----------------------------------------------------------------------------
(* What the documentation and the comments say, and the code does not do.  *)

\* The help text: Ctrl-C quits.
CtrlCQuits == (tui = "stopping") ~> (main = "returned" \/ fault # "none")

\* docs/concepts.md: the TUI handles every map that follows the naming
\* conventions, so each one gets its table.
EveryTableShown ==
  \A m \in Maps :
    (pc[m] = "register") ~> (pc[m] \notin Registering \/ ctx \/ tui = "stopped" \/ fault # "none")
=============================================================================
