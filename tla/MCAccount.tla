------------------------------ MODULE MCAccount ------------------------------
(***************************************************************************)
(* Instances of Account for TLC.                                           *)
(***************************************************************************)
EXTENDS Account

CONSTANTS cust, p, q

OneKey      == {cust}
OneOrder    == (cust :> 1)
TwoProfiles == {p, q}
=============================================================================
