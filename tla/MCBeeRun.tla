------------------------------ MODULE MCBeeRun ------------------------------
(***************************************************************************)
(* Instances of BeeRun for TLC.                                            *)
(***************************************************************************)
EXTENDS BeeRun

CONSTANTS ring, ring2, hash

\* Every record and every key and value is decoded.
AllDecode == [m \in Maps |-> {"ok"}]

\* Decoding may also fail, and a hash may hold a value that is not a uint64.
MayFail == [m \in Maps |-> IF m \in RingBufs THEN {"ok", "error"} ELSE {"ok", "error", "fatal"}]
=============================================================================
