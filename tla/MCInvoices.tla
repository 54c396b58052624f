----------------------------- MODULE MCInvoices -----------------------------
(***************************************************************************)
(* Instances of Invoices for TLC.                                          *)
(***************************************************************************)
EXTENDS Invoices

CONSTANTS i1, i2

OneKey    == {i1}
TwoKeys   == {i1, i2}
OneOrder  == i1 :> 1
TwoOrder  == (i1 :> 1) @@ (i2 :> 2)
AllValues == {"project", "paid", "unpaid", "date", "blank"}
=============================================================================
