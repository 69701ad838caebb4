---------------------------- MODULE EntryStream ----------------------------
(***************************************************************************)
(* What the loader and the display promise each other through the          *)
(* MapWatcher interface (pkg/loader/watcher.go): a stream of entries that  *)
(* is shown in the order it was accepted, each entry exactly once, that    *)
(* accepts nothing after Close, and whose consumer finishes only when      *)
(* everything accepted before Close has been shown.                        *)
(*                                                                         *)
(* An entry is represented by the name of the map it comes from.           *)
(***************************************************************************)
EXTENDS Naturals, Sequences

CONSTANT Names          \* the names of the watched maps

VARIABLES
  accepted,             \* every entry SendEntry has taken, in order
  shown,                \* every entry the display has rendered, in order
  ended,                \* the watcher has been told there are no more entries
  finished              \* the consumer has returned

vars == <<accepted, shown, ended, finished>>

Init ==
  /\ accepted = << >>
  /\ shown = << >>
  /\ ended = FALSE
  /\ finished = FALSE

\* SendEntry: only before Close.
Accept(n) ==
  /\ ~ended
  /\ accepted' = Append(accepted, n)
  /\ UNCHANGED <<shown, ended, finished>>

\* The display renders the oldest entry it has not shown yet.
Show ==
  /\ ~finished
  /\ Len(shown) < Len(accepted)
  /\ shown' = Append(shown, accepted[Len(shown) + 1])
  /\ UNCHANGED <<accepted, ended, finished>>

\* Close: the loader has no more entries to send. It happens once.
End ==
  /\ ~ended
  /\ ended' = TRUE
  /\ UNCHANGED <<accepted, shown, finished>>

\* The consumer returns, with nothing left to show.
Finish ==
  /\ ended
  /\ ~finished
  /\ shown = accepted
  /\ finished' = TRUE
  /\ UNCHANGED <<accepted, shown, ended>>

Next ==
  \/ \E n \in Names : Accept(n)
  \/ Show
  \/ End
  \/ Finish

Spec == Init /\ [][Next]_vars
=============================================================================
