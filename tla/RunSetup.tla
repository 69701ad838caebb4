------------------------------ MODULE RunSetup ------------------------------
(***************************************************************************)
(* bee run from the command line to the moment its maps are watched, and   *)
(* back: run(), Parse, BuildFilter and Load with its deferred calls.       *)
(*                                                                         *)
(* Several processes may run the same program, one after the other or at   *)
(* the same time. What they share is the file system: the directory        *)
(* programs are pinned to and the pins of maps. Pins outlive a process;    *)
(* links and file descriptors do not, however it ends.                     *)
(*                                                                         *)
(* The scenario says what is run: the maps and programs of the ELF file,   *)
(* the --filter flags, the pin options, and --no-tty. BeeRun has the       *)
(* goroutines that Load starts and the event loop of the TUI; here they    *)
(* are the states "watching" and "waiting".                                *)
(***************************************************************************)
EXTENDS Integers, Sequences, FiniteSets
LOCAL INSTANCE SequencesExt

CONSTANTS
  Runs,         \* processes
  NoRun,
  Scenarios,    \* what they may be started with, see Scenario
  Matches,      \* Matches[x]: the values that the regular expression x matches
  Values        \* values of the labels of an entry

ASSUME RunsAssumption == NoRun \notin Runs

\* Programs are told apart from the other things a deferred call closes, and the
\* flags are sequences of fields.
ASSUME ScenariosAssumption ==
  \A s \in Scenarios :
    /\ "watcher" \notin DOMAIN s.elf.progs /\ "coll" \notin DOMAIN s.elf.progs
    /\ s.pinDirs \subseteq {"absent", "dir", "file"}
    /\ s.flags \in Seq(Seq(STRING))

\* A field of a flag that is not in DOMAIN Matches does not compile.
Compiles(x) == x \in DOMAIN Matches

Keywords == {"counter", "gauge", "print"}

VARIABLES
  scenario,     \* elf, flags, pinMaps, pinProgs, pinDirs, notty, and which processes there are
  pc,           \* where each process is
  cancelled,    \* its context is done
  watched,      \* ParsedELF.WatchedMaps
  filter,       \* the map BuildFilter returns
  todo,         \* programs the loop of Load has not come to
  cur,          \* the program it is at
  links,        \* programs that are attached
  coll,         \* coll.Maps: the process that created each map
  defers,       \* the deferred calls of Load, the last one first
  panicking,    \* the process will die when the deferred calls are done
  closed,       \* Watcher.Close has been called
  pinDir,       \* the directory of --pin-progs: "absent", "dir" or "file"
  progPins,     \* progPins[p]: whose program is pinned as p
  mapPins       \* mapPins[m]: who created the map pinned as m

local  == <<watched, filter, todo, cur, links, coll, defers, panicking, closed>>
shared == <<pinDir, progPins, mapPins>>
vars   == <<scenario, pc, cancelled, local, shared>>

Elf   == scenario.elf
Maps  == DOMAIN Elf.maps
Progs == DOMAIN Elf.progs

Init ==
  /\ scenario \in Scenarios
  /\ pc = [r \in Runs |-> IF r \in scenario.runs THEN "setup" ELSE "done"]
  /\ cancelled = [r \in Runs |-> FALSE]
  /\ watched = [r \in Runs |-> {}]
  /\ filter = [r \in Runs |-> << >>]
  /\ todo = [r \in Runs |-> DOMAIN scenario.elf.progs]
  /\ cur = [r \in Runs |-> "none"]
  /\ links = [r \in Runs |-> {}]
  /\ coll = [r \in Runs |-> << >>]
  /\ defers = [r \in Runs |-> << >>]
  /\ panicking = [r \in Runs |-> FALSE]
  /\ closed = [r \in Runs |-> FALSE]
  /\ pinDir \in scenario.pinDirs
  /\ progPins = [p \in DOMAIN scenario.elf.progs |-> NoRun]
  /\ mapPins = [m \in DOMAIN scenario.elf.maps |-> NoRun]

Goto(r, l) == pc' = [pc EXCEPT ![r] = l]

Ended == {"done", "died"}

\* The signal handler of buildContext, or Ctrl-C in the TUI: the context is done.
Signal(r) ==
  /\ pc[r] \notin Ended
  /\ ~cancelled[r]
  /\ cancelled' = [cancelled EXCEPT ![r] = TRUE]
  /\ UNCHANGED <<scenario, pc, local, shared>>

\* The process is killed. The kernel closes what it had open.
Killed(r) ==
  /\ pc[r] \notin Ended
  /\ Goto(r, "died")
  /\ links' = [links EXCEPT ![r] = {}]
  /\ coll' = [coll EXCEPT ![r] = << >>]
  /\ defers' = [defers EXCEPT ![r] = << >>]
  /\ UNCHANGED <<scenario, cancelled, watched, filter, todo, cur, panicking, closed, shared>>

-----------------------------------------------------------------------------
(* run()                                                                   *)

\* getProgram and RemoveMemlock, each of which may fail. There is nothing to undo.
Setup(r) ==
  /\ pc[r] = "setup"
  /\ Goto(r, "parse") \/ Goto(r, "done")
  /\ UNCHANGED <<scenario, cancelled, local, shared>>

Tracked(m) == Elf.maps[m].section \cap Keywords # {}

\* Mutant: an event array is taken for a ring buffer.
RefusedNotPerf(m) ==
  \/ Elf.maps[m].type \notin {"ringbuf", "perf", "hash"}
  \/ ~Elf.maps[m].struct

\* The value of a ring buffer or event array and the key of a hash must be a
\* struct, and only ring buffers and hashes are supported.
Refused(m) ==
  \/ Elf.maps[m].type \notin {"ringbuf", "hash"}
  \/ ~Elf.maps[m].struct

Parse(r) ==
  LET tracked == {m \in Maps : Tracked(m)} IN
  /\ pc[r] = "parse"
  /\ IF \E m \in tracked : Refused(m)
       THEN Goto(r, "done") /\ UNCHANGED watched
       ELSE Goto(r, "filter") /\ watched' = [watched EXCEPT ![r] = tracked]
  /\ UNCHANGED <<scenario, cancelled, filter, todo, cur, links, coll, defers, panicking, closed,
                 shared>>

\* pflag's StringSlice: the fields of all the flags, one after the other.
Fields(flags) == FlattenSeq(flags)

\* thisFilter: the i-th three fields.
Triple(f, i) == [map |-> f[3*i - 2], label |-> f[3*i - 1], regex |-> f[3*i]]
Triples(f) == [i \in 1..(Len(f) \div 3) |-> Triple(f, i)]

\* Mutant: the name of the map is not looked up.
UnknownLabelOnly(r, t) ==
  t.map \in watched[r] /\ t.label \notin Elf.maps[t.map].labels

\* The map is not watched, or has no such label.
Unknown(r, t) ==
  t.map \notin watched[r] \/ t.label \notin Elf.maps[t.map].labels

\* Mutant: the first filter of a map is kept.
WinnerFirst(ts, m) == ts[CHOOSE i \in DOMAIN ts :
  ts[i].map = m /\ \A j \in DOMAIN ts : ts[j].map = m => i <= j]

\* filterMap is written in the order of the flags.
Winner(ts, m) == ts[CHOOSE i \in DOMAIN ts :
  ts[i].map = m /\ \A j \in DOMAIN ts : ts[j].map = m => j <= i]

\* BuildFilter: an error, a panic of MustCompile, or the map of filters. The
\* first triple that is wrong decides which.
BuildFilter(r) ==
  LET f  == Fields(scenario.flags)
      ts == Triples(f)
      wrong == {i \in DOMAIN ts : Unknown(r, ts[i]) \/ ~Compiles(ts[i].regex)}
      first == CHOOSE i \in wrong : \A j \in wrong : i <= j
      used == {ts[i].map : i \in DOMAIN ts}
  IN
  /\ pc[r] = "filter"
  /\ \/ /\ Len(f) % 3 # 0
        /\ Goto(r, "done")
        /\ UNCHANGED filter
     \/ /\ Len(f) % 3 = 0
        /\ wrong # {}
        /\ Goto(r, IF Unknown(r, ts[first]) THEN "done" ELSE "died")
        /\ UNCHANGED filter
     \/ /\ Len(f) % 3 = 0
        /\ wrong = {}
        /\ Goto(r, "check")
        /\ filter' = [filter EXCEPT ![r] = [m \in used |-> Winner(ts, m)]]
  /\ UNCHANGED <<scenario, cancelled, watched, todo, cur, links, coll, defers, panicking, closed,
                 shared>>

\* filterMatch: is an entry of m with this key shown?
FilterMatch(r, m, key) ==
  \/ m \notin DOMAIN filter[r]
  \/ \E k \in DOMAIN key : k = filter[r][m].label /\ key[k] \in Matches[filter[r][m].regex]

\* The look at the context before the TUI or Load is started.
CheckContext(r) ==
  /\ pc[r] = "check"
  /\ Goto(r, IF cancelled[r] THEN "done" ELSE "load")
  /\ UNCHANGED <<scenario, cancelled, local, shared>>

-----------------------------------------------------------------------------
(* Load                                                                    *)

\* Mutant: the deferred calls run in the order they were made.
DeferLast(r, d) == defers' = [defers EXCEPT ![r] = Append(@, d)]

\* defer: the call is made before those that were deferred earlier.
Defer(r, d) == defers' = [defers EXCEPT ![r] = <<d>> \o @]

\* defer Watcher.Close, and the look at the context before anything is loaded.
LoadEntry(r) ==
  /\ pc[r] = "load"
  /\ Defer(r, "watcher")
  /\ Goto(r, IF cancelled[r] THEN "return" ELSE "maps")
  /\ UNCHANGED <<scenario, cancelled, watched, filter, todo, cur, links, coll, panicking, closed,
                 shared>>

Rodata(m) == Elf.maps[m].section = {"rodata"}

\* m.Pinning = ebpf.PinByName
ByName(m) == scenario.pinMaps /\ ~Rodata(m)

\* NewCollection creates the maps one by one; one that is pinned by name and
\* already there is opened instead.
OpenMap(r, m) ==
  /\ pc[r] = "maps"
  /\ m \in Maps \ DOMAIN coll[r]
  /\ ByName(m) /\ mapPins[m] # NoRun
  /\ coll' = [coll EXCEPT ![r] = [x \in DOMAIN @ \cup {m} |-> IF x = m THEN mapPins[m] ELSE @[x]]]
  /\ UNCHANGED <<scenario, pc, cancelled, watched, filter, todo, cur, links, defers, panicking,
                 closed, shared>>

CreateMap(r, m) ==
  /\ pc[r] = "maps"
  /\ m \in Maps \ DOMAIN coll[r]
  /\ ByName(m) => mapPins[m] = NoRun
  /\ coll' = [coll EXCEPT ![r] = [x \in DOMAIN @ \cup {m} |-> IF x = m THEN r ELSE @[x]]]
  /\ IF ByName(m)
       THEN Goto(r, "pinmap") /\ cur' = [cur EXCEPT ![r] = m]
       ELSE UNCHANGED <<pc, cur>>
  /\ UNCHANGED <<scenario, cancelled, watched, filter, todo, links, defers, panicking, closed,
                 shared>>

\* A map that has just been created is pinned. That fails when another process has
\* been faster, or when the directory cannot hold a pin: then NewCollection fails,
\* and closes what it has made.
PinMap(r) ==
  /\ pc[r] = "pinmap"
  /\ \/ /\ mapPins[cur[r]] = NoRun
        /\ mapPins' = [mapPins EXCEPT ![cur[r]] = r]
        /\ Goto(r, "maps")
        /\ UNCHANGED coll
     \/ /\ Goto(r, "return")
        /\ coll' = [coll EXCEPT ![r] = << >>]
        /\ UNCHANGED mapPins
  /\ UNCHANGED <<scenario, cancelled, watched, filter, todo, cur, links, defers, panicking, closed,
                 pinDir, progPins>>

\* The verifier or a limit of the kernel refuses the collection: the pins of its
\* maps stay.
CollectionFails(r) ==
  /\ pc[r] = "maps"
  /\ Goto(r, "return")
  /\ coll' = [coll EXCEPT ![r] = << >>]
  /\ UNCHANGED <<scenario, cancelled, watched, filter, todo, cur, links, defers, panicking, closed,
                 shared>>

NewCollection(r) ==
  /\ pc[r] = "maps"
  /\ DOMAIN coll[r] = Maps
  /\ Defer(r, "coll")
  /\ Goto(r, "loop")
  /\ UNCHANGED <<scenario, cancelled, watched, filter, todo, cur, links, coll, panicking, closed,
                 shared>>

\* The next program, in the order of a Go map, unless the context is done.
NextProg(r, p) ==
  /\ pc[r] = "loop"
  /\ p \in todo[r]
  /\ ~cancelled[r]
  /\ todo' = [todo EXCEPT ![r] = @ \ {p}]
  /\ cur' = [cur EXCEPT ![r] = p]
  /\ Goto(r, "attach")
  /\ UNCHANGED <<scenario, cancelled, watched, filter, links, coll, defers, panicking, closed,
                 shared>>

LoopCancelled(r) ==
  /\ pc[r] = "loop"
  /\ todo[r] # {}
  /\ cancelled[r]
  /\ Goto(r, "return")
  /\ UNCHANGED <<scenario, cancelled, local, shared>>

Kind(r) == Elf.progs[cur[r]]

\* link.Kprobe, link.Kretprobe and link.Tracepoint, with the deferred Close.
Attached(r) ==
  /\ links' = [links EXCEPT ![r] = @ \cup {cur[r]}]
  /\ Defer(r, cur[r])
  /\ Goto(r, IF scenario.pinProgs THEN "stat" ELSE "loop")
  /\ UNCHANGED <<scenario, cancelled, watched, filter, todo, cur, coll, panicking, closed, shared>>

AttachKprobe(r) == pc[r] = "attach" /\ Kind(r) \in {"kprobe", "kretprobe"} /\ Attached(r)

AttachTracepoint(r) == pc[r] = "attach" /\ Kind(r) = "tracepoint" /\ Attached(r)

\* The kernel refuses the link, the section does not name two tokens, or the
\* program is of another type.
AttachFails(r) ==
  /\ pc[r] = "attach"
  /\ Kind(r) # "tp"
  /\ Goto(r, "return")
  /\ UNCHANGED <<scenario, cancelled, local, shared>>

\* Mutant: a link that is nil is passed over.
NilTracepointSkipped(r) ==
  /\ pc[r] = "attach"
  /\ Kind(r) = "tp"
  /\ Goto(r, "loop")
  /\ UNCHANGED <<scenario, cancelled, local, shared>>

\* A tracepoint whose section has another prefix: tp is nil, and so is the
\* receiver of the deferred call.
NilTracepoint(r) ==
  /\ pc[r] = "attach"
  /\ Kind(r) = "tp"
  /\ panicking' = [panicking EXCEPT ![r] = TRUE]
  /\ Goto(r, "return")
  /\ UNCHANGED <<scenario, cancelled, watched, filter, todo, cur, links, coll, defers, closed,
                 shared>>

\* Mutant: it waits until the directory is there.
StatDirWaits(r) ==
  /\ pc[r] = "stat"
  /\ Goto(r, CASE pinDir = "absent" -> "mkdir" [] pinDir = "file" -> "stat" [] OTHER -> "pin")
  /\ UNCHANGED <<scenario, cancelled, local, shared>>

\* createDir: os.Stat, which may also fail.
StatDir(r) ==
  /\ pc[r] = "stat"
  /\ \/ Goto(r, CASE pinDir = "absent" -> "mkdir" [] pinDir = "file" -> "return" [] OTHER -> "pin")
     \/ Goto(r, "return")
  /\ UNCHANGED <<scenario, cancelled, local, shared>>

\* createDir: os.Mkdir fails when the directory has come to exist since, or when
\* there is no parent or no permission.
Mkdir(r) ==
  /\ pc[r] = "mkdir"
  /\ \/ pinDir = "absent" /\ pinDir' = "dir" /\ Goto(r, "pin")
     \/ Goto(r, "return") /\ UNCHANGED pinDir
  /\ UNCHANGED <<scenario, cancelled, local, progPins, mapPins>>

\* Mutant: a pin that is there already is good enough.
PinReuses(r) ==
  /\ pc[r] = "pin"
  /\ progPins' = [progPins EXCEPT ![cur[r]] = IF @ = NoRun THEN r ELSE @]
  /\ Goto(r, "loop")
  /\ UNCHANGED <<scenario, cancelled, local, pinDir, mapPins>>

\* Program.Pin fails when the file exists, or when the directory cannot hold a pin.
Pin(r) ==
  /\ pc[r] = "pin"
  /\ \/ /\ progPins[cur[r]] = NoRun
        /\ progPins' = [progPins EXCEPT ![cur[r]] = r]
        /\ Goto(r, "loop")
     \/ Goto(r, "return") /\ UNCHANGED progPins
  /\ UNCHANGED <<scenario, cancelled, local, pinDir, mapPins>>

-----------------------------------------------------------------------------
\* The map types WatchMaps starts a goroutine for.
Watchable(m) == Elf.maps[m].type \in {"ringbuf", "array", "hash"}

\* WatchMaps: its goroutines are started. At a map of another type it returns
\* without waiting for those it has started.
WatchMaps(r) ==
  /\ pc[r] = "loop"
  /\ todo[r] = {}
  /\ Goto(r, IF \A m \in watched[r] : Watchable(m) THEN "watching" ELSE "abandoned")
  /\ UNCHANGED <<scenario, cancelled, local, shared>>

\* The goroutines end when the context is done, or one of them with an error. With
\* the TUI one of them may wait for its event loop or a lock instead, see BeeRun.
WatchEnds(r) ==
  /\ pc[r] = "watching"
  /\ Goto(r, "return")
  /\ UNCHANGED <<scenario, cancelled, local, shared>>

\* One of the deferred calls: a link, the collection, or the watcher is closed.
RunDeferred(r) ==
  LET d == Head(defers[r]) IN
  /\ pc[r] = "return"
  /\ defers[r] # << >>
  /\ defers' = [defers EXCEPT ![r] = Tail(@)]
  /\ links' = [links EXCEPT ![r] = @ \ {d}]
  /\ coll' = IF d = "coll" THEN [coll EXCEPT ![r] = << >>] ELSE coll
  /\ closed' = [closed EXCEPT ![r] = @ \/ d = "watcher"]
  /\ UNCHANGED <<scenario, pc, cancelled, watched, filter, todo, cur, panicking, shared>>

\* Load returns. Without the TUI run() does as well. With it, App.Run waits for the
\* event loop, which does not know of the context, unless that has stopped by now.
Return(r) ==
  /\ pc[r] = "return"
  /\ defers[r] = << >>
  /\ \E l \in IF panicking[r] THEN {"died"} ELSE IF scenario.notty THEN {"done"}
                                             ELSE {"done", "waiting"} : Goto(r, l)
  /\ UNCHANGED <<scenario, cancelled, local, shared>>

\* The user stops the event loop with Ctrl-C.
QuitTui(r) ==
  /\ pc[r] = "waiting"
  /\ Goto(r, "done")
  /\ UNCHANGED <<scenario, cancelled, local, shared>>

-----------------------------------------------------------------------------
Step(r) ==
  \/ Setup(r) \/ Parse(r) \/ BuildFilter(r) \/ CheckContext(r) \/ LoadEntry(r)
  \/ \E m \in Maps : OpenMap(r, m) \/ CreateMap(r, m)
  \/ PinMap(r) \/ CollectionFails(r) \/ NewCollection(r)
  \/ \E p \in Progs : NextProg(r, p)
  \/ LoopCancelled(r) \/ AttachKprobe(r) \/ AttachTracepoint(r) \/ AttachFails(r) \/ NilTracepoint(r)
  \/ StatDir(r) \/ Mkdir(r) \/ Pin(r)
  \/ WatchMaps(r) \/ RunDeferred(r) \/ Return(r)

Next ==
  \/ \E r \in Runs : Step(r) \/ WatchEnds(r) \/ QuitTui(r) \/ Signal(r) \/ Killed(r)
  \/ (\A r \in Runs : pc[r] \in Ended) /\ UNCHANGED vars

Spec == Init /\ [][Next]_vars

\* A process that can go on does. Without the TUI the goroutines end after a signal,
\* which BeeRun shows (SignalEndsNoTty); with it they may not, and nothing makes
\* the user press Ctrl-C.
Fairness ==
  \A r \in Runs :
    WF_vars(Step(r)) /\ WF_vars(scenario.notty /\ cancelled[r] /\ WatchEnds(r))

FairSpec == Spec /\ Fairness

-----------------------------------------------------------------------------
(* Properties.                                                             *)

PCs == {"setup", "parse", "filter", "check", "load", "maps", "pinmap", "loop", "attach", "stat",
        "mkdir", "pin", "watching", "abandoned", "return", "waiting"} \cup Ended

\* The range of every variable; filters are of maps that are watched.
TypeOK ==
  /\ pc \in [Runs -> PCs]
  /\ cancelled \in [Runs -> BOOLEAN]
  /\ watched \in [Runs -> SUBSET Maps]
  /\ \A r \in Runs : DOMAIN filter[r] \subseteq watched[r]
  /\ todo \in [Runs -> SUBSET Progs] /\ links \in [Runs -> SUBSET Progs]
  /\ \A r \in Runs : DOMAIN coll[r] \subseteq Maps
  /\ panicking \in [Runs -> BOOLEAN] /\ closed \in [Runs -> BOOLEAN]
  /\ pinDir \in {"absent", "dir", "file"}
  /\ progPins \in [Progs -> Runs \cup {NoRun}]
  /\ mapPins \in [Maps -> Runs \cup {NoRun}]

\* Parse refuses every map at which WatchMaps would return an error without
\* waiting for the goroutines it has started.
NoneAbandoned == \A r \in Runs : pc[r] # "abandoned"

\* The description of --filter: "Format is map_name,key_name,regex. You can define
\* a filter per map, if more than one defined, the last defined filter will take
\* precedence". An entry is shown iff its map has no filter, or the last one
\* given for it matches; and flags that do not have three fields, as when there
\* is a comma in the expression, are refused and never taken for other filters.
\* (Only the sum of the fields is counted: this needs that no part of an expression
\* is the name of a map, see MeantAsFilters in RunSetupProofs.)
FilterMeansFlags ==
  \A r \in Runs : pc[r] = "check" =>
    /\ \A i \in DOMAIN scenario.flags : Len(scenario.flags[i]) = 3
    /\ \A m \in watched[r] : \A key \in [Elf.maps[m].labels -> Values] :
         LET mine == {i \in DOMAIN scenario.flags : scenario.flags[i][1] = m}
             last == scenario.flags[CHOOSE i \in mine : \A j \in mine : j <= i]
         IN  FilterMatch(r, m, key) <=> (mine = {} \/ key[last[2]] \in Matches[last[3]])

\* Load watches with every program of the file attached, whatever their order, and
\* with every map: runs that pin maps by name work on the maps that are pinned, and
\* so on the same ones; what is read-only belongs to each run alone.
WatchesEverything ==
  \A r \in Runs : pc[r] = "watching" =>
    /\ links[r] = Progs
    /\ coll[r] = [m \in Maps |-> IF scenario.pinMaps /\ ~Rodata(m) THEN mapPins[m] ELSE r]

\* When the watcher hears that there are no more entries, nothing of this run is
\* in the kernel any more, and so it is when the process has ended: on every
\* path, after errors, signals and panics.
NothingAttachedAfterClose ==
  \A r \in Runs : closed[r] \/ pc[r] \in Ended => links[r] = {} /\ coll[r] = << >>

\* What is pinned while a run watches are its own programs: pins left behind by
\* an earlier run, or made by another at the same time, keep it from watching.
PinsAreOwn ==
  \A r \in Runs : pc[r] = "watching" /\ scenario.pinProgs => \A p \in Progs : progPins[p] = r

\* Without the TUI a signal ends every run, wherever it is. With it a signal has
\* Load return, with everything released, or finds it watching: a signal that comes
\* between two programs, during the pinning or after the last look at the context
\* gets neither lost nor stuck on the way there. How the goroutines then end is
\* BeeRun's part, and App.Run goes on until the user leaves the TUI.
SignalEndsLoad ==
  \A r \in Runs :
    /\ scenario.notty /\ cancelled[r] ~> pc[r] \in Ended
    /\ cancelled[r] ~> \/ pc[r] \in Ended \cup {"waiting"} /\ links[r] = {} /\ coll[r] = << >>
                      \/ pc[r] = "watching"
=============================================================================
