----------------------------- MODULE MCRunSetup -----------------------------
(***************************************************************************)
(* Instances of RunSetup for TLC.                                          *)
(***************************************************************************)
EXTENDS RunSetup

CONSTANTS r1, r2

Map(section, type, struct, labels) ==
  [section |-> section, type |-> type, struct |-> struct, labels |-> labels]

Ring == Map({"print"}, "ringbuf", TRUE, {"comm", "pid"})
Hash == Map({"counter"}, "hash", TRUE, {"comm"})
Data == Map({"rodata"}, "array", FALSE, {})

\* Expressions that match one value, both, and one that needs a comma; the parts
\* of the last do not compile.
RegexMatches == [a |-> {"a"}, any |-> {"a", "b"}]

\* Filters the command line gives as one flag each.
Flags == {<<m, l, x>> : m \in {"ring", "hash", "data"}, l \in {"comm", "pid"}, x \in {"a", "any", "x{1"}}
         \cup {<<"ring", "comm", "a", "any">>, <<"hash", "comm", "x{1", "2}">>, <<"ring", "comm">>}

Filtering ==
  [elf : {[maps |-> [ring |-> Ring, hash |-> Hash, data |-> Data], progs |-> << >>]},
   flags : {<< >>} \cup [1..1 -> Flags] \cup [1..2 -> Flags],
   pinMaps : {FALSE}, pinProgs : {FALSE}, pinDirs : {{"absent"}}, notty : {TRUE}, runs : {{r1}}]

\* Maps that Parse passes over, accepts, or refuses.
Parsing ==
  [elf : [maps : [{"m", "n"} -> [section : {{"gauge", "print"}, {}}, struct : BOOLEAN, labels : {{"l"}},
                                type : {"ringbuf", "perf", "hash", "array"}]],
          progs : {[p |-> "kprobe"]}],
   flags : {<< >>}, pinMaps : {FALSE}, pinProgs : {FALSE}, pinDirs : {{"absent"}}, notty : {TRUE}, runs : {{r1}}]

\* Programs of every kind.
Attaching ==
  [elf : [maps : {[ring |-> Ring]},
          progs : [{"p", "q"} -> {"kprobe", "kretprobe", "tracepoint", "tracepoint/x", "tp", "xdp"}]],
   flags : {<< >>}, pinMaps : {FALSE}, pinProgs : {TRUE}, pinDirs : {{"absent"}}, notty : BOOLEAN, runs : {{r1}}]

\* Two processes that pin.
Pinning ==
  [elf : {[maps |-> [hash |-> Hash, data |-> Data], progs |-> [p |-> "kprobe", q |-> "tracepoint"]]},
   flags : {<< >>}, pinMaps : BOOLEAN, pinProgs : BOOLEAN,
   pinDirs : {{"absent", "file"}}, notty : {TRUE}, runs : {{r1, r2}}]

AllScenarios == Filtering \cup Parsing \cup Attaching \cup Pinning
=============================================================================
