--------------------------- MODULE MCExampleProgs ---------------------------
(***************************************************************************)
(* Instances of ExampleProgs for TLC.                                      *)
(***************************************************************************)
EXTENDS ExampleProgs, TLC

CONSTANTS t1, t2, t3, o1, o2, o3

\* t1 leads the process all threads belong to.
OneProcess == [t \in Threads |-> t1]

\* Sockets are interchangeable, and so are the threads that lead no process.
Interchangeable == Permutations(Objects) \cup Permutations(Threads \ {t1})
=============================================================================
