----------------------------- MODULE MCHashPoll -----------------------------
(***************************************************************************)
(* Instances of HashPoll for TLC.                                          *)
(***************************************************************************)
EXTENDS HashPoll

\* Two keys share a bucket.
TwoBuckets == <<1, 1, 2>>

OneBucket == <<1>>
=============================================================================
