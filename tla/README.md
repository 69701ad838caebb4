# A TLA+ model of BumbleBee

BumbleBee builds, distributes and runs eBPF programs. `bee run` loads a
compiled program into the kernel, watches its maps, shows their contents in a
terminal UI and exports them as Prometheus metrics. These modules model `bee
run` from its flags to its goroutines, the image commands and their store, and
the example BPF programs; they state what makes them correct, check it with TLC
and prove all of it but liveness with TLAPS.

1. [The system](#the-system)
2. [The modules and the code](#the-modules-and-the-code)
3. [What TLC checks](#what-tlc-checks)
4. [What TLAPS proves](#what-tlaps-proves)
5. [Where code and documentation disagree](#where-code-and-documentation-disagree)
6. [What is not modelled](#what-is-not-modelled)
7. [Plan](#plan)

## The system

| Component | State | Operations | Correct when |
|---|---|---|---|
| `run` command (`run.go`) | context, signal channel | fetch, parse, build the filter, start the goroutines, wait | a signal or Ctrl-C brings it back to the shell |
| TUI (`tui.go`) | `mapOfMaps`, `mapMutex`, `currentIndex`, the flex and its focus, channel `Entries` (20), tview's update queue | keys, `makeMapValue`, `watch`, `renderHash`, `renderRingBuf`, `nextTable`, `prevTable`, `Close` | each map gets one table with its own index; everything accepted is rendered once, in order |
| Filter (`filter.go`) | a map from map name to field and regular expression | `BuildFilter`, `filterMatch` | an entry is shown iff its field matches the last filter of its map |
| Watcher interface (`watcher.go`) | none | `NewRingBuf`, `NewHashMap`, `SendEntry`, `Close` | nothing is sent after `Close` |
| Map watching (`loader.go`: `WatchMaps`, `startRingBuf`, `startHashMap`) | an errgroup and its context, a reader or ticker per map | one goroutine per map, one more per ring buffer that closes its reader | cancellation ends all; every key that stays in a hash is polled |
| Program loading (`loader.go`: `Parse`, `Load`) | kernel objects, links, pins | parse, load the collection, attach, pin, deferred closes | what was attached is detached on every path |
| Metrics (`stats.go`) | `counterMap`, Prometheus vectors, an HTTP server | `Set`, `Increment` | series agree with the map |
| Decoder (`decoder.go`) | offset, raw bytes | `DecodeBtfBinary` | members are read where BTF says they are |
| OCI client and store (`pkg/spec`) | a directory of blobs and an index | `Push`, `Pull`, `TryFromLocal` | what is pulled is what was pushed |
| Commands `build`, `package`, `pull`, `push`, `tag`, `list`, `describe`, `init`, `login` | files, the local store | one each | a failing command leaves the store usable |
| Example BPF programs (`examples/*.c`) | kernel maps | probes | counts are right |

How they interact: `App.Run` starts three goroutines: the tview event loop,
`watch`, and `Load`. `Load` calls `WatchMaps`, which starts one goroutine per
watched map. Each of these first registers its table, which takes `mapMutex`
and then waits for the event loop to run a closure; only then does it read its
map and send entries through the channel to `watch`. All of them share one
context that a signal, Ctrl-C, `q` or an error of one map's goroutine cancels.
The way back is a chain: the map goroutines end, `WatchMaps` returns, `Load`
closes the channel, `watch` drains it and ends, and, if the event loop has
stopped as well, `run` returns.

Around it: before that, `run` parses the ELF file, builds the filter and, in
`Load`, attaches and pins the programs; whatever path leads out of `Load`, its
deferred calls undo what is not pinned. The program it runs comes from a file or,
through `TryFromLocal`, from the local store or a registry, which the other
commands fill. The BPF programs it loads run in the kernel on all CPUs at once and
share nothing with `bee` but their maps.

What is hard about it: the order of that chain on every error path; a lock
taken by map goroutines and by keys; goroutines that wait for an event loop
that may have stopped; a bounded channel during shutdown; a kernel map that
changes while it is iterated; pins that outlive a process; commands that load
and save one index; copies that are interrupted; probes that run at the same time
and are attached one by one. `PROJECT.json` lists these hazards line by line.

## The modules and the code

### `EntryStream`: what `MapWatcher` promises

Four actions over the history of accepted and shown entries: `Accept` and `End`
are `SendEntry` and `Close`, `Show` and `Finish` what the display does. Entries
are shown once each, in the order of acceptance, none is accepted after the end,
and the consumer finishes with nothing left to show.

### `BeeRun`: the goroutines of one `bee run`

| Variables | Code |
|---|---|
| `main`, `ctx`, `fault` | `run()`; the context of `App.Run`; why the process died: a nil call, `log.Fatal`, a send on a closed channel, a concurrent map access |
| `tui`, `keys`, `currentIndex`, `focus`, `flex`, `rlocks`, `updates` | the event loop, navigation, `mapMutex` as held by readers, tview's queue of closures |
| `pc`, `slot`, `mapOfMaps`, `rd` | the goroutine of each map, the local `i` of `makeMapValue`, the `Index` of each table, the ring buffer reader |
| `load`, `egErr` | `Load` and `WatchMaps`, and whether the errgroup has cancelled its context |
| `entries`, `closed`, `watch`, `cur` | the channel, `Close`, and the receiver |
| `accepted`, `shown` | history: what `SendEntry` put on the channel, what `watch` rendered |

An action is a stretch of a goroutine's code between two points where another
goroutine can interfere: a lock, a channel operation, a wait for the event loop,
a look at the context. `makeMapValue`, for example, is `RequestLock`,
`AcquireLock` (with `i := len(mapOfMaps)`), `Register` (the write and `Unlock`),
`QueueUpdate` (the closure is queued and the goroutine waits) and, in the event
loop, `RunUpdate`. Go's `RWMutex` makes readers wait behind a waiting writer:
that is the guard of `NavRLock`. The deferred calls of a returning goroutine
belong to the step that returns (`ReturnError`, `LoadClose`).

Data is abstracted. An entry is the name of its map. Decoding a record gives
"ok", "error" or, for a hash value that is not one `uint64`, "fatal"; the
constant `Outcomes` says which a map may have. Whether a filter matches is a
free choice for a map that has one. Which key reaches the flex depends on the
version of tview: with `RootHasFocus = FALSE` a flex none of whose items has the
focus does not see the key. The data race on `mapOfMaps` is the
action `MapRaceNoticed`: while `watch` renders and another goroutine is inside
its critical section or iterates, the process may die, or may go on.

### `HashPoll`: one hash map, from the kernel to the metric and the screen

`BeeRun` says when a hash map is polled; `HashPoll` what a poll does, while the
BPF program goes on writing. `Tick`, `IterNextKey`, `IterLookup`,
`InstrumentSet` and `SendEntry` are the steps of `startHashMap`; the library's
`MapIterator.Next` is the two steps `IterNextKey` and `IterLookup`, since the
program may remove the key in between. The iterator follows the kernel, which
keeps the elements of a hash in one list per bucket. `bpf_map_update_elem`
(`Update`) replaces the element, so a key comes to the head of its list with every
update, not only when it is new (`place`); the iterator takes the next key of the
list, then the next bucket (`Before`, `KeysAfter`), and when the key it stands on is
gone it starts again from the first one; after `max_entries + 1` keys it gives up.
Which bucket a key falls into is the constant `Bucket`. The instrument
follows from the section of the map and is chosen in `Init`.
`CounterSet`, `GaugeSet` and `NoopSet` are the instruments, with the conversion
of the map's `uint64` to `int64` and the wrap-around of an `int64` difference;
`Half` stands for 2^63. `RenderHash` is `renderHash`. `ProgIncrement` and
`ProgDecrement` are the updates of `tcpconnect.c` and `activeconn.c`;
`ProgDelete` is any program that removes a key; the constant `ProgramOps` says which of
the three a program does. The hash of a key, by which
`counterMap` and the rows are indexed, is taken to be free of collisions, and
float64 to be exact.

### `Decoder`

`decoder.go`: one decoder, called again and again, as `startRingBuf` and
`startHashMap` do. State: the layout and the bytes of the call, `offset`, the
values so far. `Call` is the entry of `DecodeBtfBinary` with its reset;
`SkipMember` (a `bool` or a `char`, for which no byte is read), `ReadMember`,
`ReadPanics` and `RefuseMember` are one turn of its loop, `Return` its end. A
type is a kind, a size and the name of its typedef; an integer uses all its bits.
The names of members are left out: `result` has their values in order. A byte
is a number below `Base`. After a panic there is no further call.

### `RunSetup`: from the command line to the watched maps, and back

`run()`, `Parse`, `BuildFilter`, `filterMatch`, `Load`, `createDir` and the
head of `WatchMaps`, for several processes that run the same program, one after
the other or at the same time. `pc` says where a process is in that code. What
processes share is `pinDir`, `progPins` and `mapPins`; `links`, `coll` and
`defers` are its own. `defers` is the stack of deferred calls: `LoadEntry`,
`NewCollection` and `Attached` push, `RunDeferred` pops one at a time once `Load`
is on its way out, after an error, a cancelled context or a panic. `Killed` ends a
process anywhere; the kernel then closes what it had open, and pins stay. The loop
over the programs is `NextProg` (the look at the context), the attach step, and,
with `--pin-progs`, `StatDir`, `Mkdir` and `Pin`, so that another process can come
between any two of them. Go evaluates the receiver of a deferred call when the
`defer` statement runs, so the nil `tp` of a tracepoint program in a section such as
`tp/...` panics there, in the middle of the loop (`NilTracepoint`). Files and
directories may also fail for reasons of the system's, at every step that makes one.
With `--no-tty` the run ends with `Load`; with the TUI it may have to wait for the
event loop (`Return`, "waiting"), which only the user stops (`QuitTui`).

The `scenario` is what is run: the maps (keywords of the section, type, whether key
or value is a struct, labels) and programs (the kind that decides how they are
attached) of the ELF file, the flags, the pin options. A regular expression is
the set of values it matches; a field without one does not compile.

### `OciStore`: images, their store and the commands

A store is a set of blobs and an index from names to images; there are the local
store, a registry, and the temporary store of each `package`. `build`, `pull`,
`push`, `tag`, `package`, and `TryFromLocal` (used by `run` and `describe`) are
processes that take one step at a time, any of which may be killed. `Copy` is
`oras.Copy`: blobs and name are written in any order, since the code does not
choose it, except that a registry takes the name last. A name gets into the local
index by loading the index and saving it (`CopyLoadIndex`, `CopySaveIndex`;
`TagLoad`, `TagSave`), and other commands may save in between. The index is one file
that `SaveIndex` writes with `os.WriteFile`: it is emptied first (`EmptyIndex`) and
written in a second step. In between, and for good when the command is killed or
fails there, it is `torn`: `index` then still says what it held before, but no command
can read it. `NewOCI`, which every command but `build` calls at once (`Begin`) and
`build` after compiling (`BuildOpen`), loads the index and fails on a torn one; so
do `Resolve` and the push of the name. Only the first look of `TryFromLocal`
(`LookLocal`, and `PullFirst`, which resolves the name again) takes such an error for
"not here" and asks the registry. `Blobs`, `Wanted` and
`AllowedMediaTypes` say what an image consists of and what a copy takes along;
`Readable` is what `Pull` needs to find. `build` has its output file: `os.Create`
empties it before anything else, also when only the build script is printed.
A blob is taken to be written whole or not at all: it is named by its contents, and
a partial one is not found under its name. The build of the docker
image in `package`, and `list`, change nothing here.

### `ExampleProgs`: the BPF programs of `examples/`

One of the eight programs is loaded. Threads call kernel functions; where a probe is
attached, it runs in the calling thread, one helper call per step, while
others run in other threads. `Attach` adds one probe at a time, so that calls
are made that only one of their probes sees. A return probe of the kind kretprobe is
armed when the call begins (`Call`), if it is attached by then and the kernel has a
free instance; otherwise the return goes by unseen, even if the probe is attached
meanwhile. A tracepoint runs if it is attached at that time (`SeesReturn`). An entry
may be refused (`EntryRefused`): by a full map, and in `tcpconnect`, whose map is not
preallocated, for lack of memory. The addresses of a socket (`addr`) are what the
kernel function has left there when it returns, and the probe reads them then
(`hashKey`): after `tcp_close` they may be any. `inflight` is the map of calls in
progress (`sockets` or `start`), `counts` is `events_hash` or `sockets_ext`, `ring`
the ring buffer with records that are reserved (busy) or submitted; all have a size,
and what happens when they are full is the kernel's. Sections of the module are
named after the examples; steps that several of them share are defined once.
Of a record only the entry it was made from is kept. What the counts should be
(`expected`, `opened`) is history kept from the calls themselves (`Account`), not from
what the probes find in their maps.

### Proof modules

`BeeRunProofs`, `HashPollProofs`, `DecoderProofs`, `RunSetupProofs`, `OciStoreProofs`
and `ExampleProgsProofs` extend the module they are about; `NumberLemmas` is shared.

### MC modules

`MCBeeRun`, `MCHashPoll`, `MCDecoder`, `MCRunSetup`, `MCOciStore` and `MCExampleProgs`
hold what the configurations need to instantiate the specifications. Operators
introduced by the comment "Mutant" are plausible wrong versions of the definition that
follows them; `PROJECT.json` names, for each property, a mutant that violates it.

## What TLC checks

| Run | Instance | Properties | States |
|---|---|---|---|
| `tty` | a ring buffer and a filtered hash, failing decoders, 2 entries, channel of 1, 2 navigation keys, fair | `TypeOK`, `NoSendAfterClose`, `NothingLeftBehind`, `EntriesHaveTables`, `IndexesArePositions`, `FocusTracksIndex`, `NothingLostAtReturn`, `StreamSpec`, `CancelEndsLoad`, `CtrlCQuitsOnceUp`, `EveryEntryShown` | 111 thousand |
| `notty` | 3 maps, `--no-tty`, fair, deadlock checked | `SignalEndsNoTty` | 891 |
| `hash` | a hash of 2 entries over 3 keys, one of them filtered out, in 2 buckets, each instrument, 4 writes, channel of 2, fair | `TypeOK`, `CounterAddsUp`, `PollIsComplete`, `DisplayNeverGoesBack`, `DisplayCatchesUp`, `MetricCatchesUp` | 435 thousand |
| `decode` | 14 layouts with every content over bits for bytes, both byte orders, any sequence of calls | `TypeOK`, `DenseIsDecoded`, `OffsetIsLayout`, `PanicsUnterminatedOnly` | 6 thousand |
| `setup` | one process with every pair of 21 flags, with maps of every kind, with programs of every kind; two processes that pin, signals and kills anywhere, with and without the TUI, fair, deadlock checked | `TypeOK`, `NoneAbandoned`, `FilterMeansFlags`, `WatchesEverything`, `NothingAttachedAfterClose`, `PinsAreOwn`, `SignalEndsLoad` | 203 thousand |
| `store` | 3 commands, 2 at a time, 2 names, 4 images, kills, failing copies and saves, symmetric in the processes | `TypeOK`, `HalvesExplained`, `LocalDamageRepaired`, `BuildSavesItsOutput`, `NamesKept`, `TornStays` | 3.4 million |
| `progs` | each of the 8 programs, 3 threads of a process, 3 sockets or files, 2 address pairs, 2 calls in progress, 1 count, a ring buffer of 1, 3 calls, symmetric in sockets and in the threads that are not the leader | `TypeOK`, `EntryOfThisCall`, `NoStaleEntries`, `CountsExactAlone` | 1.7 million |

What each property says:

* `NoSendAfterClose`, `NothingLeftBehind`: on every path out of `Load` the
  channel is closed after the last send, and no goroutine or open reader is left.
* `EntriesHaveTables`: `watch` never meets an entry of a map it does not know,
  which it would drop silently.
* `NothingLostAtReturn`, `EveryEntryShown`, `StreamSpec`: no accepted entry is
  lost, doubled or reordered, also when the shutdown finds the channel full.
* `IndexesArePositions`: concurrent registration gives the indexes 0..n-1.
* `FocusTracksIndex`: the keys always find a table for `currentIndex`, and the
  focused table is the one it names. The latter
  holds only with a tview that withholds keys until something has the focus:
  otherwise a key pressed before the first closure runs moves `currentIndex` and
  the closure then moves the focus back.
* `CancelEndsLoad`, `CtrlCQuitsOnceUp`, `SignalEndsNoTty`: shutdown terminates,
  in the first two once every table is up. Without that condition it does not,
  see below.
* `CounterAddsUp`: the Prometheus counter agrees with `counterMap` modulo 2^64.
* `PollIsComplete`: a poll that was not aborted has visited every key that was
  in the map from its tick to its end, with one exception: a key that is updated
  while the iterator stands on another key of its bucket comes in front of the
  iterator and may be passed over until the next tick. The exception is real: a
  counting program that updates a key at such a moment has it missing from that poll.
* `DisplayNeverGoesBack`, `DisplayCatchesUp`,
  `MetricCatchesUp`: rows are not doubled, do not go back while the program
  has only counted up, and table and series end up at the contents of the map.
* `DenseIsDecoded`: a type without padding, `bool` or `char` is decoded to what
  its bytes mean, whatever was decoded before. The reference reads at the BTF
  offset and states the meaning of a number by its digits, not by summing them.
* `OffsetIsLayout`, `PanicsUnterminatedOnly`: the counted offset is the BTF
  offset in a dense layout and never beyond it in a well-formed one, so the
  decoder stays in its buffer; it panics for a string without a NUL. Two bit
  fields in one byte (not well-formed here) do take it out of the buffer.
* `FilterMeansFlags`: what is shown is what the description of `--filter` says,
  from the flags as typed to the verdict on an entry: the last filter of a map
  decides, and a flag that does not have three fields, as when there is a comma in
  the expression, is refused and never read as other filters. It relies on parts of
  expressions not being names of maps (`MeantAsFilters`, below).
* `WatchesEverything`, `NothingAttachedAfterClose`: `Load` watches with every
  program attached or not at all, on maps that are shared by name when they are
  pinned, except read-only data, and has taken everything out of the kernel when it
  tells the watcher, on each of its paths.
* `PinsAreOwn`: no run watches with programs pinned by
  another. Since pins are never removed, this also says that a second run with the
  same `--pin-progs` never gets that far.
* `NoneAbandoned`: `WatchMaps` would leave goroutines behind at a map type it
  does not know; `Parse` lets none through.
* `SignalEndsLoad`: without the TUI a signal ends the run, wherever it is. With the
  TUI it brings `Load` back with everything released, or finds it watching; how the
  goroutines end then is `BeeRun`'s part, where they may hang (runs `ctrlc` and
  `leak`), and the run itself goes on until the user leaves the TUI, since nothing
  stops the event loop.
* `HalvesExplained`, `LocalDamageRepaired`: half an image of bee in the local store
  comes from an interrupted copy, and `TryFromLocal` repairs it from the registry: as
  long as it can read the index, an image that is missing or half there makes it fail
  only if another command changed the name while it ran. Images that bee did not build
  are left out of both: a copy takes only the media types of bee along, so a pull of
  one ends well with half of it, and `TryFromLocal` then finds no program.
* `NamesKept`: a command changes no name but its own, unless another one has
  saved the index since it loaded it. That exception is real: the other's name is
  then lost. A torn index counts with what it held before.
* `TornStays`: once a save was cut short and no command is left that had loaded the
  index before, no command writes it again. So every later command fails, `run` and
  `describe` included, and the file has to be repaired by hand; but no command
  takes it for an empty one and replaces it by an index without the other names.
* `BuildSavesItsOutput`: `build` packages what it compiled, unless two builds use
  one output file.
* `EntryOfThisCall`, `NoStaleEntries`: a return probe works on what its own call
  stored, whatever is left in the map, unless the map refused the entry of this call
  and holds an older one; entries that stay behind have a reason: the return probe did
  not run, or, in `opensnoop`, the ring buffer was full.
  `tcpconnlat` does not delete an entry after a report, and still attributes an IPv4
  connection to the thread that made it.
* `CountsExactAlone`: a count is the number of connect calls to its addresses, less
  the close calls of their sockets, as long as every call was traced (its entry
  stored, its return seen, the count not refused, a close only of a socket that was
  connected and has its addresses still) and updates did not overlap.

**Bounds.** `MaxEntries`, `MaxKeys` and `MaxWrites` cap what the environment does. Two
maps are enough for any two goroutines of the same kind to meet, since a ring buffer
and a hash share all of `makeMapValue`, and two keys to move the index past the last
table; three maps are needed for a lock to be leaked while one is still to register
(`leak`: a key needs two tables). A channel of capacity one is full after one entry,
so two entries give a sender that waits for room while the shutdown goes on. In
`HashPoll`, `Half` is 2, so that values cross 2^63; four writes over three keys, two
of them in one bucket, in a map of two let a key be removed under the iterator, or
moved in front of it, while another stays, and make the iterator give up. In
`Decoder`, `Base` is 2: bytes are bits, which keeps all contents of eight bytes
enumerable and still tells orders, signs and NULs apart. In `RunSetup` two processes
suffice because they meet only in a pin or a directory, which one makes and one finds;
two flags, because a filter is replaced by one other or shifted by the one before it.
In `OciStore` three commands allow one to be interrupted, one to find its remains, and
one to interfere. In `ExampleProgs` a socket that connects, fails, connects again and
is answered takes three calls; a map of two entries is full for the third thread, a
map of one count for the second pair of addresses, the ring buffer for the second
record.

**Deadlock** is checked in `notty` and `setup`. In the other runs the system may
really stop: with the screen stopped before a table is added it hangs, and after the
panic of a counter or of the decoder nothing moves; commands and calls are bounded.

**Fairness.** Weak fairness for each goroutine whose next step only needs the
scheduler: Go's scheduler is preemptive and starves none. Reading a record,
a failing decoder, keys and signals are not fair: nothing guarantees them. Strong
fairness for `HashDone`: when the context is done, a `select` with two ready
cases picks at random, so it does not pick the tick for ever. `AcquireLock` gets
weak fairness only, as a part of its goroutine. In `HashPoll` the ticker fires
for ever. In `RunSetup` a process that is not waiting goes on. Without the TUI the
watchers end after a signal, which `BeeRun` shows (`SignalEndsNoTty`); with it they are
not fair, since there they may wait for the event loop or for `mapMutex` for ever, and
neither is the key that ends the TUI.

## What TLAPS proves

Every invariant of the passing runs, the three action properties and the refinement of
`EntryStream` are theorems, for any number of maps, keys, threads, processes,
commands, members and bytes, and any sizes:

| Module | Theorem | Property |
|---|---|---|
| `BeeRunProofs` | `TypeCorrect` | `TypeOK` |
| | `SendsPrecedeClose` | `NoSendAfterClose` |
| | `CloseLeavesNothing` | `NothingLeftBehind` |
| | `IndexesAssigned` | `IndexesArePositions` |
| | `TablesPrecedeEntries` | `EntriesHaveTables` |
| | `KeysFindTables` | `FocusTracksIndex` |
| | `ReturnLosesNothing` | `NothingLostAtReturn` |
| | `StreamImplemented` | `StreamSpec`, the refinement of `EntryStream` |
| `HashPollProofs` | `TypeCorrect` | `TypeOK` |
| | `CounterSumsDifferences` | `CounterAddsUp` |
| | `NoKeyMissed` | `PollIsComplete` |
| | `RowsOnlyGrow` | `DisplayNeverGoesBack`, an action property |
| `DecoderProofs` | `TypeCorrect` | `TypeOK` |
| | `PanicsUnterminated` | `PanicsUnterminatedOnly` |
| | `OffsetsAgree` | `OffsetIsLayout` |
| | `ValuesInPlace` | `InPlace` and `Complete`: each value is made of its member's bytes |
| | `DenseDecoded` | `DenseIsDecoded` |
| `RunSetupProofs` | `TypeCorrect` | `TypeOK` |
| | `NoMapAbandoned` | `NoneAbandoned` |
| | `FiltersApply` | `FilterMeansFlags`, for flags that satisfy `MeantAsFilters` |
| | `EverythingWatched` | `WatchesEverything` |
| | `ClosedMeansDetached` | `NothingAttachedAfterClose` |
| | `OwnPins` | `PinsAreOwn` |
| `OciStoreProofs` | `TypeCorrect` | `TypeOK` |
| | `HalvesHaveCauses` | `HalvesExplained` |
| | `DamageRepaired` | `LocalDamageRepaired` |
| | `BuildKeepsItsOutput` | `BuildSavesItsOutput` |
| | `NamesAreKept` | `NamesKept`, an action property |
| | `TornIsForGood` | `TornStays`, an action property |
| `ExampleProgsProofs` | `TypeCorrect` | `TypeOK` |
| | `ReportsItsOwnCall` | `EntryOfThisCall` |
| | `EntriesEnd` | `NoStaleEntries` |
| | `CountsExact` | `CountsExactAlone` |

The assumptions are those named `...Assumption` in the component's module, and TLC
evaluates them in its runs: bounds are numbers, sets are finite where the code
counts them, and names that stand for "none" are no members. Those that say more:
`ScenariosAssumption` tells programs apart from the two other things a deferred call
closes and says that flags are sequences of fields; `ProcsAssumption` and
`RegistriesAssumption` keep the temporary stores of `package` apart from the local
store and the registry, and give the registry images that exist.

Each module has one inductive invariant and a lemma per part of it that every
action preserves the part.

**`BeeRunProofs`.** `TypeOK` needs one more fact to be inductive: the event loop
holds a read lock while it iterates (`TypeInv`), or `NavSelect` could take `rlocks`
below zero. The others follow from `IndInv`:

* `Phases`: before `spawn` no map goroutine runs, from `closing` on none does,
  and the channel is closed only at `done`. This gives `NoSendAfterClose`.
* `Readers`: a reader is open only while its goroutine is in its loop; with
  `Phases` this gives `NothingLeftBehind`.
* `Queue`: each queued closure belongs to one goroutine, and that goroutine
  waits for it. It lets `RunUpdate` wake the right one.
* `Tables`: a map is registered exactly when its goroutine is past its critical
  section, there is at most one goroutine in it, and its `slot` is still the
  number of tables. This makes the new index fresh.
* `Screen`: a goroutine that reads its map has its table on the screen, so what
  it sends has one.
* `Navigation`: every number below that of the tables is the index of one, and
  `currentIndex` is below it while a key is handled. Where keys are withheld from a
  root without focus, the table with index 0 has been given the focus before the
  first key, so no later closure takes the focus from the table a key moved it to.
* `Backlog`: what was accepted is what was shown, followed by the entry in the
  hands of `watch`, followed by the channel. It is the refinement's invariant:
  it makes the rendered entry the next one of the stream, and empties the backlog
  when `watch` ends.

**`HashPollProofs`.** `Visited`: of the keys that have stayed in the map, and were not
put in front of the iterator's key, those up to the iterator have been polled. The
order of the lists changes with every update; a key that moves to the head of another
list, or of one the iterator has not come to, is still ahead of it or was polled. When
the key under it is removed, the iterator starts again, and what has been polled stays
polled; when it finds no next key, there is no stable key beyond it. `CounterAddsUp`
is inductive with the types; it is arithmetic modulo 2^64 on both sides of the `int64`
boundary. `Growing`: as long as no value was lowered, what is shown of a key is at
most what waits in the channel, in order, that at most what is about to be sent, and
that at most what is in the map.

**`DecoderProofs`.** `Behind`: at every member the counted offset is at most the BTF
offset. Reading a member adds its size or, for `bool` and `char`, nothing, and the next
member begins at the end of this one or later; so the slice ends within the size of
the type, which is how many bytes the kernel hands over. In a dense layout the two
are equal (`OffsetIsLayout`), and so every value so far is what the handlers make of
the bytes at its BTF offset (`InPlace`). What is left is arithmetic: by induction over
the number of bytes, the number that `binary.Read` makes has these bytes as its
digits (`Digits`), the signed one is congruent to it, and `PutUint32` undoes it in
either byte order (`PutIsInverse`).

**`RunSetupProofs`.** `Stack`: everything a run has in the kernel has a deferred call
that is still to be made, the links above the collection, `Watcher.Close` at the
bottom; so when that one runs nothing is left. `Progress` and `Pinned`: the programs the
loop has left behind are attached, and pinned by this run. `Opened`: a map opened by
name is the pinned one, but for the step between its creation and its pin, where
another process may come first. `Supported`: `Parse` lets through only maps that
`WatchMaps` handles. `Built`: what `BuildFilter` has returned. For `FiltersApply`, by
induction over the flags (`FieldsAlign`): a flag that begins at a third field has
exactly three, or its fourth field would be looked up as a map. Hence the premise
`MeantAsFilters`: each flag has a map, a key and an expression, and no part of an
expression with commas is the name of a map. It cannot be dropped: the code counts
the fields of all flags together.

**`OciStoreProofs`.** `Roles` says which command can be where. `Halves`: not only what
the index names, also what a command has loaded of it and will save again, is whole, or
is being copied, or was interrupted. `Fetched`: `TryFromLocal` has the blobs it
wants from the copy to the read unless another command changes its name. `Fresh`: a loaded
index is the one in the store until another command saves it. `Output`: the output file
is the compiled program until another build opens it. `TornStays` needs only the types:
each way to an index that is to be saved begins with a load, and a torn one cannot be.

**`ExampleProgsProofs`.** `Pairs`: the entry of a thread inside a call is that of the
call, if the map has taken it; there is none, if it was refused and none was there
before; outside there is none, or a recorded reason. `Alone` is the lock of a socket:
two threads are not inside calls on the same one. `Latency`: the entry of a socket that
connects over IPv4 names the thread that connects it. `ExactAlone`: while every call is
traced and updates come one at a time, a count is the expected one modulo the width, or
will be when the one thread that has it in a register has written it, and an address
without a count is expected to have none.

**`NumberLemmas`** holds what several of them need: least elements, quotients and
remainders, and induction and recursion. The library's induction theorems have an
operator as a parameter, which the provers cannot instantiate; `Induction` is about a
set of numbers and `Recursion` about functions instead, and both are proved from the
well-foundedness of the natural numbers. For these proofs `Decoder` writes its sum
over bytes and its power as recursive functions.

What stays with TLC is liveness, which is outside the prover: `CancelEndsLoad`,
`CtrlCQuitsOnceUp`, `EveryEntryShown`, `SignalEndsNoTty`, `DisplayCatchesUp`,
`MetricCatchesUp` and `SignalEndsLoad`.

## Where code and documentation disagree

Each of these is a run whose property states a sentence of the repository, and
TLC shows a behaviour of the code that violates it.

| Run | Sentence | What happens |
|---|---|---|
| `ctrlc` | help text, `tui.go:32`: Ctrl-C quits | the event loop stops while a map goroutine waits for it in `QueueUpdateDraw`; `bee run` hangs |
| `leak` | `docs/concepts.md:100`: the TUI handles all maps that follow the conventions | `nextTable` returns without `RUnlock`; a map that registers later waits for `mapMutex` for ever |
| `decrease` | `docs/concepts.md:61`, `:63`: entries may be removed; `.counter` is valid for hashes | an entry that a poll has read is removed and made again, and at the next poll its lower value makes the Prometheus counter panic |
| `padding` | `decoder.go:22`: raw data is translated to the format of the type | members are read one after the other, BTF offsets are not looked at: after padding the values are wrong, without an error. The template of `bee init` and the documentation declare their structs packed, several examples do not |
| `count` | `docs/concepts.md:155`: the value of `events_hash` is the total count of connections | the probe reads, increments and writes in three steps; two CPUs write the same number, and the later, lower one may also take the exported counter back (`decrease`) |

Further observations, without a run of their own:

* `docs/concepts.md:185` promises gauges for ring buffers; their instrument is nil,
  and the first record ends the process (`RingNilInstrument`, exercised in `notty`).
* `watch` and `makeMapValue` access `mapOfMaps` without a common lock; the Go runtime
  may end the process (`MapRaceNoticed`, exercised in `tty`).
* The error check at `loader.go:378` is reached only when there is no error: an
  iteration of a hash map that gives up passes for a complete one (`aborted` in
  `HashPoll`).
* `examples/tcpconnlat` deletes an entry of `start` only when the clock goes
  backwards: after 4096 sockets new connections are not traced, although its README
  says it traces all of them. It does not see IPv6 connects, but reports one when the
  socket's address still has an entry.
* `examples/opensnoop` returns without deleting its entry when the ring buffer is
  full. `examples/activeconn` counts the close of a socket it has not seen connect,
  as 1 when the addresses are new and below zero otherwise. `examples/capable`
  swaps pid and tgid, `examples/oomkill` reports the thread that triggered the
  kill as `tpid`, and `examples/kprobetcp` leaves `type` uninitialised.
* `bee build --local --build-script-out` empties an existing output file, and a
  missing image name is reported only after compiling.
* `BuildFilter` says that "each filter should have 3 fields" but counts the fields of
  all flags together: a flag with two and one with four, the second of which is the
  name of a map, are taken for two other filters.
* A command that is killed while it saves the local index leaves a file that no command
  of `bee` can read or repair (`torn` in `OciStore`); commands that save it at the same
  time lose each other's names.
* `App.Run` waits for the event loop without a context: after a signal, or an error of
  `Load`, `bee run` stays on the screen until Ctrl-C (`QuitTui` in `RunSetup`).
* An update of a hash map while it is iterated may keep its key out of that poll
  (`PassesIterator` in `HashPoll`).
* `package` ignores an error of `MkdirTemp`; its store is then `/store`.

## What is not modelled

The text of the screen and of logs; the HTTP server of the metrics; floating
point; regular expressions beyond what they match; descriptions and authors of
images; the docker build; the flag parser beyond the splitting at commas. `bee init`
is a dialogue that writes one file and `bee login` one call of a library: each has
one actor and no state to interleave. `builder/` is a container image, a script
and a generated header of kernel types. The goroutines `watch` starts for redrawing
(`go QueueUpdateDraw(func() {})`) change nothing the model has; tview's queue, which
holds 100 closures, is unbounded in the model. A probe on an entry that is
attached but skipped by the kernel, because another BPF program runs on the same CPU,
is not modelled. The kernel, cilium/ebpf, oras, tview, Prometheus and the Go
runtime are modelled from how the code uses them.

## Plan

The invariants, the action properties and the refinement are proved. What could
follow:

1. `RunSetup`: what `BuildFilter` makes of flags outside `MeantAsFilters`.
2. `DecoderProofs`: which members of a padded layout are still decoded to what their
   bytes mean (those before the first padding).
3. `OciStoreProofs`: the name and image of a registry, as `NamesKept` for the local
   store.
