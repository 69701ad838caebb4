----------------------------- MODULE MCOciStore -----------------------------
(***************************************************************************)
(* Instances of OciStore for TLC.                                          *)
(***************************************************************************)
EXTENDS OciStore, TLC

CONSTANTS c1, c2, i1, i2, f1, x, y

\* The registry has an image of bee under one name, and a foreign one under the other.
OneOfEach == {x :> i1 @@ y :> f1}

Alike == Permutations({c1, c2})
=============================================================================
