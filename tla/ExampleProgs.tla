---------------------------- MODULE ExampleProgs ----------------------------
(***************************************************************************)
(* The BPF programs of examples/ on a machine with several CPUs.           *)
(*                                                                         *)
(* One of them, prog, is loaded. Threads call kernel functions; a probe    *)
(* that is attached to the entry or the return of a function runs in the   *)
(* thread that called it, one helper call at a time, while probes run in   *)
(* other threads. Nothing serialises them. Load attaches the probes one    *)
(* after the other while the machine runs.                                 *)
(*                                                                         *)
(* A program keeps what it knows of the calls in progress in a hash map    *)
(* (sockets or start), counts in another (events_hash or sockets_ext) and  *)
(* submits records to a ring buffer that bee reads. All three have a       *)
(* limited size. Records are not told apart: what is in them is left out,  *)
(* but for the entry a probe looked up.                                    *)
(***************************************************************************)
EXTENDS Integers, Sequences, FiniteSets

CONSTANTS
  Programs,       \* the examples to load
  Threads,        \* threads, by their tid
  Process,        \* Process[t]: the thread's tgid, the tid of its leader
  Objects,        \* the sockets and files calls are about
  Addresses,      \* the pairs of a source and a destination address
  NoThread, NoObject,
  Word,           \* 2^64
  MaxEntries,     \* max_entries of sockets and start
  MaxCounts,      \* max_entries of events_hash and sockets_ext
  RingSize,       \* how many records the ring buffer holds
  MaxCalls        \* bound: calls of traced functions in a behaviour

ASSUME ThreadsAssumption == Process \in [Threads -> Threads] /\ NoThread \notin Threads
ASSUME ObjectsAssumption == NoObject \notin Objects /\ Addresses # {}
ASSUME SizesAssumption ==
  /\ Word \in Nat /\ Word > 1
  /\ {MaxEntries, MaxCounts, RingSize, MaxCalls} \subseteq Nat

VARIABLES
  prog,           \* the program that is loaded
  attached,       \* its probes that are attached
  pc,             \* where each thread is
  call,           \* the call it is in, see NoCall
  addr,           \* the addresses in each socket, in the kernel's memory
  inflight,       \* the map of the calls in progress: sockets or start
  counts,         \* events_hash or sockets_ext
  ring,           \* the records of the ring buffer, in the order of reservation
  found,          \* what a probe got from inflight
  hashKey,        \* hash_key or key, the addresses it has read from the socket
  val,            \* val, the new count it has computed
  synsent,        \* tcpconnlat: the family of a socket in TCP_SYN_SENT, or "none"
  calls,          \* how many calls there have been
  orphans,        \* history: keys whose entry has outlived its call, with a reason
  expected,       \* history: connects to an address, less closes of their sockets
  opened,         \* history: the addresses of the sockets connected and not closed
  traced,         \* history: every call of a counting program was seen, see Account
  alone,          \* history: no two updates of a count overlapped
  starter         \* history: the thread that last connected a socket over IPv4

progVars == <<attached, prog>>
mapVars  == <<inflight, counts, ring>>
locals   == <<found, hashKey, val>>
tallies  == <<expected, opened, traced>>
history  == <<orphans, tallies, alone, starter>>
vars == <<progVars, pc, call, addr, mapVars, locals, synsent, calls, history>>

-----------------------------------------------------------------------------
(* The kernel's side.                                                      *)

Enter(fn) == <<"enter", fn>>
Exit(fn)  == <<"exit", fn>>

TcpconnectProbes == {Enter("tcp_v4_connect"), Exit("tcp_v4_connect")}
ActiveconnProbes ==
  {Enter("tcp_v4_connect"), Exit("tcp_v4_connect"), Enter("tcp_close"), Exit("tcp_close")}
OpensnoopProbes == {Enter("open"), Enter("openat"), Exit("open"), Exit("openat")}
TcpconnlatProbes == {Enter("tcp_v4_connect"), Enter("tcp_rcv_state_process")}

Probes ==
  CASE prog = "tcpconnect" -> TcpconnectProbes
    [] prog = "activeconn" -> ActiveconnProbes
    [] prog = "opensnoop"  -> OpensnoopProbes
    [] prog = "tcpconnlat" -> TcpconnlatProbes
    [] prog = "capable"    -> {Enter("cap_capable")}
    [] prog = "exitsnoop"  -> {Enter("sched_process_exit")}
    [] prog = "oomkill"    -> {Enter("oom_kill_process")}
    [] prog = "kprobetcp"  -> {Enter("tcp_v4_connect")}

Connects == {"tcp_v4_connect", "tcp_v6_connect"}

\* What threads call. No probe sees the IPv6 connect.
Functions ==
  {p[2] : p \in Probes} \cup (IF prog = "tcpconnlat" THEN {"tcp_v6_connect"} ELSE {})

\* The programs that count. The others do not read the addresses of a socket.
Counting == {"tcpconnect", "activeconn"}

\* A call: the function, the object it is about, whether the kernel has armed the
\* return probe for it, and what became of the entry that the probe on its entry
\* stores: "stored"; "refused" by the map; "kept" when the map has refused it and
\* holds an older one; "unseen" before, and when no probe saw the call begin.
NoCall == [fn |-> "none", obj |-> NoObject, armed |-> FALSE, entry |-> "unseen"]

Init ==
  /\ prog \in Programs
  /\ attached = {}
  /\ pc = [t \in Threads |-> "user"]
  /\ call = [t \in Threads |-> NoCall]
  /\ addr \in {f \in [Objects -> Addresses] :
                prog \notin Counting => f = [o \in Objects |-> CHOOSE a \in Addresses : TRUE]}
  /\ inflight = << >>
  /\ counts = << >>
  /\ ring = << >>
  /\ found = [t \in Threads |-> NoObject]
  /\ hashKey = [t \in Threads |-> CHOOSE a \in Addresses : TRUE]
  /\ val = [t \in Threads |-> 0]
  /\ synsent = [o \in Objects |-> "none"]
  /\ calls = 0
  /\ orphans = {}
  /\ expected = [a \in Addresses |-> 0]
  /\ opened = << >>
  /\ traced = TRUE
  /\ alone = TRUE
  /\ starter = [o \in Objects |-> NoThread]

Goto(t, l) == pc' = [pc EXCEPT ![t] = l]

\* link.Kprobe, link.Kretprobe or link.Tracepoint, in the order of a Go map.
Attach(p) ==
  /\ p \in Probes \ attached
  /\ attached' = attached \cup {p}
  /\ UNCHANGED <<prog, pc, call, addr, mapVars, locals, synsent, calls, history>>

\* A thread calls fn. The lock of a socket admits one call at a time, and a
\* socket that is connecting is not connected again. A kretprobe is armed for the
\* call here, if it is attached by now and the kernel has a free instance of it.
Call(t, fn, o) ==
  /\ pc[t] = "user"
  /\ calls < MaxCalls
  /\ prog # "opensnoop" => \A u \in Threads : call[u].obj # o
  /\ fn \in Connects => synsent[o] = "none"
  /\ \E kretprobe \in {FALSE, Exit(fn) \in attached /\ prog # "opensnoop"} :
       call' = [call EXCEPT ![t] =
                 [fn |-> fn, obj |-> o, armed |-> kretprobe, entry |-> "unseen"]]
  /\ Goto(t, IF Enter(fn) \in attached THEN "enter" ELSE "inside")
  /\ calls' = calls + 1
  /\ starter' = IF fn = "tcp_v4_connect" THEN [starter EXCEPT ![o] = t] ELSE starter
  /\ UNCHANGED <<progVars, addr, mapVars, locals, synsent, orphans, tallies, alone>>

\* What the function itself does to the state of a socket.
StateAfter(fn, o) ==
  CASE fn = "tcp_v4_connect" /\ prog = "tcpconnlat" -> {"v4", "none"}
    [] fn = "tcp_v6_connect" -> {"v6", "none"}
    [] fn = "tcp_rcv_state_process" -> {synsent[o], "none"}
    [] OTHER -> {synsent[o]}

\* A connect sets the addresses of its socket, and a close may give its memory away.
AddrAfter(o) == IF prog \in Counting THEN Addresses ELSE {addr[o]}

\* A tracepoint runs if it is attached at the return, a kretprobe if it was armed.
SeesReturn(t) ==
  IF prog = "opensnoop" THEN Exit(call[t].fn) \in attached ELSE call[t].armed

\* bpf_map_update_elem with flags 0: it replaces an entry, and it fails when
\* there is none and the map is full.
Room(m, k, max) == k \in DOMAIN m \/ Cardinality(DOMAIN m) < max
Put(m, k, v) == [x \in DOMAIN m \cup {k} |-> IF x = k THEN v ELSE m[x]]
MapUpdate(m, k, v, max) == IF Room(m, k, max) THEN Put(m, k, v) ELSE m

\* bpf_map_delete_elem
MapDelete(m, k) == [x \in DOMAIN m \ {k} |-> m[x]]

\* History: the call of t is over and has left the addresses a in its socket.
\* What is expected of the counts follows from the call, not from what a probe
\* makes of it. A call is seen when it has its entry and its return probe; a
\* close moreover when the socket was connected before and still holds the
\* addresses it was connected with.
Account(t, a, seen) ==
  LET o == call[t].obj IN
  IF prog \notin Counting THEN UNCHANGED tallies
  ELSE IF call[t].fn = "tcp_close"
  THEN /\ expected' = IF o \in DOMAIN opened THEN [expected EXCEPT ![opened[o]] = @ - 1]
                                             ELSE expected
       /\ opened' = MapDelete(opened, o)
       /\ traced' = (traced /\ seen /\ o \in DOMAIN opened /\ opened[o] = a)
  ELSE /\ expected' = [expected EXCEPT ![a] = @ + 1]
       /\ opened' = Put(opened, o, a)
       /\ traced' = (traced /\ seen)

\* The function returns. Without its return probe, what its entry stored stays
\* where it is.
ReturnFn(t) ==
  LET c == call[t] IN
  /\ pc[t] = "inside"
  /\ \E s \in StateAfter(c.fn, c.obj) : synsent' = [synsent EXCEPT ![c.obj] = s]
  /\ \E a \in AddrAfter(c.obj) :
       /\ addr' = [addr EXCEPT ![c.obj] = a]
       /\ IF SeesReturn(t)
            THEN Goto(t, "exit") /\ UNCHANGED <<call, orphans, tallies>>
            ELSE /\ Goto(t, "user")
                 /\ call' = [call EXCEPT ![t] = NoCall]
                 /\ orphans' = orphans \cup (DOMAIN inflight \cap {t})
                 /\ Account(t, a, FALSE)
  /\ UNCHANGED <<progVars, mapVars, locals, calls, alone, starter>>

\* The end of a probe on a return: the thread goes on.
EndExit(t) == Goto(t, "user") /\ call' = [call EXCEPT ![t] = NoCall]

\* bpf_ringbuf_reserve: a record that is busy until it is submitted, or NULL.
RingHasRoom == Len(ring) < RingSize
RingReserve(t) == ring' = Append(ring, [owner |-> t, busy |-> TRUE])

\* bpf_ringbuf_submit
RingSubmit(t) ==
  ring' = [i \in DOMAIN ring |->
             IF ring[i].owner = t THEN [ring[i] EXCEPT !.busy = FALSE] ELSE ring[i]]

\* bee reads the first record unless it is busy.
ReadRecord ==
  /\ ring # << >>
  /\ ~Head(ring).busy
  /\ ring' = Tail(ring)
  /\ UNCHANGED <<progVars, pc, call, addr, inflight, counts, locals, synsent, calls, history>>

-----------------------------------------------------------------------------
(* Steps that several programs have.                                       *)

\* Mutant: the entry is kept under the tgid, which the threads share.
KeyOfProcess(t) == Process[t]

\* The key of the map of calls: __u32 tid = pid_tgid, the lower half.
KeyOf(t) == t

\* The entry probe stores what the call is about.
EntryStored(t) ==
  /\ Room(inflight, KeyOf(t), MaxEntries)
  /\ inflight' = Put(inflight, KeyOf(t), call[t].obj)
  /\ orphans' = orphans \ {KeyOf(t)}
  /\ call' = [call EXCEPT ![t].entry = "stored"]

\* The map is full, or (BPF_F_NO_PREALLOC, tcpconnect) there is no memory for the
\* new element, be it in place of an older one. The probe does not look.
EntryRefused(t) ==
  /\ ~Room(inflight, KeyOf(t), MaxEntries) \/ prog = "tcpconnect"
  /\ call' = [call EXCEPT ![t].entry = IF KeyOf(t) \in DOMAIN inflight THEN "kept" ELSE "refused"]
  /\ UNCHANGED <<inflight, orphans>>

\* The probe on an entry: its one update, and the function begins.
StoreEntry(t) ==
  /\ pc[t] = "enter"
  /\ EntryStored(t) \/ EntryRefused(t)
  /\ Goto(t, "inside")
  /\ UNCHANGED <<progVars, addr, counts, ring, locals, synsent, calls, tallies, alone, starter>>

\* The return probe finds no entry and is done.
NoEntry(t) ==
  /\ pc[t] = "exit"
  /\ KeyOf(t) \notin DOMAIN inflight
  /\ EndExit(t)
  /\ Account(t, addr[call[t].obj], FALSE)
  /\ UNCHANGED <<progVars, addr, mapVars, locals, synsent, calls, orphans, alone, starter>>

\* Threads that have read a count for a and not written it back.
Updating(a) == {t \in Threads : pc[t] = "update" /\ hashKey[t] = a}

\* Mutant: a signed count.
NewCountSigned(a, op) == IF a \in DOMAIN counts THEN counts[a] + op ELSE 1

\* The count to write: a pair of addresses that is new begins with 1, whatever op is.
NewCount(a, op) == IF a \in DOMAIN counts THEN (counts[a] + op) % Word ELSE 1

\* The return probe finds a socket, reads its addresses, which the function has
\* left there, and their count, and computes the new one.
CountFor(t, op) ==
  LET o == inflight[KeyOf(t)]
      a == addr[o]
  IN
  /\ pc[t] = "exit"
  /\ KeyOf(t) \in DOMAIN inflight
  /\ found' = [found EXCEPT ![t] = o]
  /\ hashKey' = [hashKey EXCEPT ![t] = a]
  /\ val' = [val EXCEPT ![t] = NewCount(a, op)]
  /\ Account(t, addr[call[t].obj], call[t].entry = "stored")
  /\ alone' = (alone /\ Updating(a) = {})
  /\ Goto(t, "update")
  /\ UNCHANGED <<progVars, call, addr, mapVars, synsent, calls, orphans, starter>>

\* bpf_map_update_elem on the counts. A full map refuses it, which nobody looks at.
WriteCount(t) ==
  /\ pc[t] = "update"
  /\ counts' = MapUpdate(counts, hashKey[t], val[t], MaxCounts)
  /\ traced' = (traced /\ Room(counts, hashKey[t], MaxCounts))
  /\ Goto(t, "delete")
  /\ UNCHANGED <<progVars, call, addr, inflight, ring, locals, synsent, calls,
                 orphans, expected, opened, alone, starter>>

\* The entry of the call is deleted, and the thread goes to l or is done.
DeleteEntry(t) ==
  /\ pc[t] = "delete"
  /\ inflight' = MapDelete(inflight, KeyOf(t))
  /\ orphans' = orphans \ {KeyOf(t)}
  /\ UNCHANGED <<progVars, addr, counts, ring, locals, synsent, calls, tallies, alone, starter>>

\* A probe at l reserves a record, or finds no room and leaves its entry.
Reserve(t, l) ==
  /\ pc[t] = l
  /\ RingHasRoom
  /\ RingReserve(t)
  /\ Goto(t, "submit")
  /\ UNCHANGED <<progVars, call, addr, inflight, counts, locals, synsent, calls, history>>

Submit(t) ==
  /\ pc[t] = "submit"
  /\ RingSubmit(t)
  /\ UNCHANGED <<progVars, addr, inflight, counts, locals, synsent, calls, history>>

\* No room: a probe on an entry returns, and the function goes on.
EnterFull(t, l) ==
  /\ pc[t] = l
  /\ ~RingHasRoom
  /\ Goto(t, "inside")
  /\ UNCHANGED <<progVars, call, addr, mapVars, locals, synsent, calls, history>>

\* The whole of a program that fills a record and submits it on an entry.
EnterSubmit(t) == Submit(t) /\ Goto(t, "inside") /\ UNCHANGED call

-----------------------------------------------------------------------------
(* examples/tcpconnect                                                     *)

TcpconnectEnter(t) == prog = "tcpconnect" /\ StoreEntry(t)

TcpconnectNoEntry(t) == prog = "tcpconnect" /\ NoEntry(t)

TcpconnectCount(t) == prog = "tcpconnect" /\ CountFor(t, 1)

TcpconnectUpdate(t) == prog = "tcpconnect" /\ WriteCount(t)

\* Mutant: the entry is left to the end of the probe.
TcpconnectDeleteLast(t) ==
  /\ prog = "tcpconnect"
  /\ pc[t] = "delete"
  /\ Goto(t, "reserve")
  /\ UNCHANGED <<progVars, call, addr, mapVars, locals, synsent, calls, history>>

TcpconnectDelete(t) ==
  /\ prog = "tcpconnect"
  /\ DeleteEntry(t)
  /\ Goto(t, "reserve")
  /\ UNCHANGED call

TcpconnectReserve(t) == prog = "tcpconnect" /\ Reserve(t, "reserve")

TcpconnectFull(t) ==
  /\ prog = "tcpconnect"
  /\ pc[t] = "reserve"
  /\ ~RingHasRoom
  /\ EndExit(t)
  /\ UNCHANGED <<progVars, addr, mapVars, locals, synsent, calls, history>>

TcpconnectSubmit(t) == prog = "tcpconnect" /\ Submit(t) /\ EndExit(t)

-----------------------------------------------------------------------------
(* examples/activeconn                                                     *)

ActiveconnEnter(t) == prog = "activeconn" /\ StoreEntry(t)

ActiveconnNoEntry(t) == prog = "activeconn" /\ NoEntry(t)

\* Mutant: a connection that is closed is counted like one that is opened.
OpAlwaysPlus(fn) == 1

\* record(ctx, ret, 1) and record(ctx, ret, -1)
Op(fn) == IF fn = "tcp_close" THEN -1 ELSE 1

ActiveconnCount(t) == prog = "activeconn" /\ CountFor(t, Op(call[t].fn))

ActiveconnUpdate(t) == prog = "activeconn" /\ WriteCount(t)

ActiveconnDelete(t) == prog = "activeconn" /\ DeleteEntry(t) /\ EndExit(t)

-----------------------------------------------------------------------------
(* examples/opensnoop                                                      *)

OpensnoopEnterOpen(t) == prog = "opensnoop" /\ call[t].fn = "open" /\ StoreEntry(t)

OpensnoopEnterOpenat(t) == prog = "opensnoop" /\ call[t].fn = "openat" /\ StoreEntry(t)

OpensnoopNoEntry(t) == prog = "opensnoop" /\ NoEntry(t)

\* The event is built from the entry and from the return value of this call.
OpensnoopLookup(t) ==
  /\ prog = "opensnoop"
  /\ pc[t] = "exit"
  /\ KeyOf(t) \in DOMAIN inflight
  /\ found' = [found EXCEPT ![t] = inflight[KeyOf(t)]]
  /\ Goto(t, "reserve")
  /\ UNCHANGED <<progVars, call, addr, mapVars, hashKey, val, synsent, calls, history>>

OpensnoopReserve(t) == prog = "opensnoop" /\ Reserve(t, "reserve")

\* The early return leaves the entry behind.
OpensnoopFull(t) ==
  /\ prog = "opensnoop"
  /\ pc[t] = "reserve"
  /\ ~RingHasRoom
  /\ EndExit(t)
  /\ orphans' = orphans \cup {t}
  /\ UNCHANGED <<progVars, addr, mapVars, locals, synsent, calls, tallies, alone, starter>>

OpensnoopSubmit(t) == prog = "opensnoop" /\ Submit(t) /\ Goto(t, "delete") /\ UNCHANGED call

OpensnoopDelete(t) == prog = "opensnoop" /\ DeleteEntry(t) /\ EndExit(t)

-----------------------------------------------------------------------------
(* examples/tcpconnlat: start is keyed by the socket, and its entry says   *)
(* which thread connected it.                                              *)

\* bpf_map_update_elem(&start, &sk, &piddata, 0)
Start(t) == MapUpdate(inflight, call[t].obj, t, MaxEntries)

TraceConnect(t) ==
  /\ prog = "tcpconnlat"
  /\ pc[t] = "enter"
  /\ call[t].fn = "tcp_v4_connect"
  /\ inflight' = Start(t)
  /\ Goto(t, "inside")
  /\ UNCHANGED <<progVars, call, addr, counts, ring, locals, synsent, calls, history>>

Receiving(t) ==
  /\ prog = "tcpconnlat"
  /\ pc[t] = "enter"
  /\ call[t].fn = "tcp_rcv_state_process"

\* The socket is not in TCP_SYN_SENT, or has no entry.
TcpconnlatSkip(t) ==
  /\ Receiving(t)
  /\ synsent[call[t].obj] = "none" \/ call[t].obj \notin DOMAIN inflight
  /\ Goto(t, "inside")
  /\ UNCHANGED <<progVars, call, addr, mapVars, locals, synsent, calls, history>>

\* The clock of this CPU may be behind the one that took ts: delta is negative,
\* and the entry is deleted.
TcpconnlatBackwards(t) ==
  /\ Receiving(t)
  /\ synsent[call[t].obj] # "none" /\ call[t].obj \in DOMAIN inflight
  /\ inflight' = MapDelete(inflight, call[t].obj)
  /\ Goto(t, "inside")
  /\ UNCHANGED <<progVars, call, addr, counts, ring, locals, synsent, calls, history>>

\* The event is built from the entry, which stays.
TcpconnlatLookup(t) ==
  /\ Receiving(t)
  /\ synsent[call[t].obj] # "none" /\ call[t].obj \in DOMAIN inflight
  /\ found' = [found EXCEPT ![t] = inflight[call[t].obj]]
  /\ Goto(t, "reserve")
  /\ UNCHANGED <<progVars, call, addr, mapVars, hashKey, val, synsent, calls, history>>

TcpconnlatReserve(t) == prog = "tcpconnlat" /\ Reserve(t, "reserve")

TcpconnlatFull(t) == prog = "tcpconnlat" /\ EnterFull(t, "reserve")

TcpconnlatSubmit(t) == prog = "tcpconnlat" /\ EnterSubmit(t)

-----------------------------------------------------------------------------
(* examples/capable, exitsnoop (trace_failed_only is FALSE), oomkill and   *)
(* kprobetcp: a record for every call.                                     *)

CapableReserve(t) ==
  prog = "capable" /\ (Reserve(t, "enter") \/ EnterFull(t, "enter"))
CapableSubmit(t) == prog = "capable" /\ EnterSubmit(t)

ExitsnoopReserve(t) ==
  prog = "exitsnoop" /\ (Reserve(t, "enter") \/ EnterFull(t, "enter"))

ExitsnoopSubmit(t) == prog = "exitsnoop" /\ EnterSubmit(t)

OomkillReserve(t) ==
  prog = "oomkill" /\ (Reserve(t, "enter") \/ EnterFull(t, "enter"))
OomkillSubmit(t) == prog = "oomkill" /\ EnterSubmit(t)

KprobetcpReserve(t) ==
  prog = "kprobetcp" /\ (Reserve(t, "enter") \/ EnterFull(t, "enter"))
KprobetcpSubmit(t) == prog = "kprobetcp" /\ EnterSubmit(t)

-----------------------------------------------------------------------------
Tcpconnect(t) ==
  \/ TcpconnectEnter(t) \/ TcpconnectNoEntry(t) \/ TcpconnectCount(t) \/ TcpconnectUpdate(t)
  \/ TcpconnectDelete(t) \/ TcpconnectReserve(t) \/ TcpconnectFull(t) \/ TcpconnectSubmit(t)

Activeconn(t) ==
  \/ ActiveconnEnter(t) \/ ActiveconnNoEntry(t) \/ ActiveconnCount(t)
  \/ ActiveconnUpdate(t) \/ ActiveconnDelete(t)

Opensnoop(t) ==
  \/ OpensnoopEnterOpen(t) \/ OpensnoopEnterOpenat(t) \/ OpensnoopNoEntry(t)
  \/ OpensnoopLookup(t) \/ OpensnoopReserve(t) \/ OpensnoopFull(t)
  \/ OpensnoopSubmit(t) \/ OpensnoopDelete(t)

Tcpconnlat(t) ==
  \/ TraceConnect(t) \/ TcpconnlatSkip(t) \/ TcpconnlatBackwards(t) \/ TcpconnlatLookup(t)
  \/ TcpconnlatReserve(t) \/ TcpconnlatFull(t) \/ TcpconnlatSubmit(t)

RingOnly(t) ==
  \/ CapableReserve(t) \/ CapableSubmit(t) \/ ExitsnoopReserve(t) \/ ExitsnoopSubmit(t)
  \/ OomkillReserve(t) \/ OomkillSubmit(t) \/ KprobetcpReserve(t) \/ KprobetcpSubmit(t)

\* A step of the probe that runs in t.
Probe(t) == Tcpconnect(t) \/ Activeconn(t) \/ Opensnoop(t) \/ Tcpconnlat(t) \/ RingOnly(t)

Next ==
  \/ \E p \in Probes : Attach(p)
  \/ \E t \in Threads, fn \in Functions, o \in Objects : Call(t, fn, o)
  \/ \E t \in Threads : ReturnFn(t) \/ Probe(t)
  \/ ReadRecord

Spec == Init /\ [][Next]_vars

-----------------------------------------------------------------------------
(* Properties.                                                             *)

PCs == {"user", "enter", "inside", "exit", "update", "delete", "reserve", "submit"}

\* The range of every variable. The maps and the ring buffer keep to their sizes.
TypeOK ==
  /\ prog \in Programs /\ attached \subseteq Probes
  /\ pc \in [Threads -> PCs]
  /\ \A t \in Threads : call[t] = NoCall <=> pc[t] = "user"
  /\ Cardinality(DOMAIN inflight) <= MaxEntries
  /\ Cardinality(DOMAIN counts) <= MaxCounts
  /\ \A a \in DOMAIN counts : counts[a] \in 0..(Word - 1)
  /\ Len(ring) <= RingSize
  /\ \A t \in Threads : val[t] \in 0..(Word - 1)
  /\ calls \in 0..MaxCalls

Looked == {"update", "delete", "reserve", "submit"}

\* What a probe has taken from the map is about the call it reports. In
\* tcpconnect, activeconn and opensnoop it is what this very call was entered
\* with, for every call whose entry the map has taken, and for one it has refused
\* while it held none of the thread: entries left behind, a map that is full and
\* other threads of the process do not change that. In tcpconnlat, an IPv4
\* connection is reported with the thread that connected it, however often the
\* socket was used before.
EntryOfThisCall ==
  \A t \in Threads : pc[t] \in Looked =>
    /\ prog \in {"tcpconnect", "activeconn", "opensnoop"}
         /\ call[t].entry \in {"stored", "refused"} => found[t] = call[t].obj
    /\ LET o == call[t].obj IN
       prog = "tcpconnlat" /\ synsent[o] = "v4" => found[t] = starter[o]

\* An entry that outlives its call has a reason: the return probe did not run
\* (attached too late, or missed by the kernel), or (opensnoop only) the ring
\* buffer was full. A probe that runs to its end takes the entry away.
NoStaleEntries ==
  prog \in {"tcpconnect", "activeconn", "opensnoop"} =>
    \A t \in DOMAIN inflight : pc[t] # "user" \/ t \in orphans

\* Between two probes a count is exactly the number of connects to its addresses,
\* less the closes of their sockets, as long as every call was traced: its entry
\* stored, its return seen, the update of the count not refused by a full map,
\* sockets closed only after they were connected and with their addresses still
\* in them; and no two updates of a count overlapped.
CountsExactAlone ==
  traced /\ alone =>
    \A a \in Addresses : Updating(a) = {} =>
      (IF a \in DOMAIN counts THEN counts[a] ELSE 0) = expected[a] % Word

\* docs/concepts.md: the value of events_hash "represents the total count of
\* connections for this given source/destination pair".
CountsAreTotals ==
  prog = "tcpconnect" /\ traced =>
    \A a \in DOMAIN counts : Updating(a) = {} => counts[a] = expected[a]
=============================================================================
