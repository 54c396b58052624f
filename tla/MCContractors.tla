---------------------------- MODULE MCContractors ----------------------------
(***************************************************************************)
(* Instances of Contractors for TLC.                                       *)
(***************************************************************************)
EXTENDS Contractors

CONSTANTS c1, c2, c3

TwoKeys    == {c1, c2}
ThreeKeys  == {c1, c2, c3}
TwoOrder   == (c1 :> 1) @@ (c2 :> 2)
ThreeOrder == (c1 :> 2) @@ (c2 :> 1) @@ (c3 :> 3)
=============================================================================
