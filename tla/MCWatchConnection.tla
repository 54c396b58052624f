------------------------- MODULE MCWatchConnection -------------------------
(* Four calls at most at once, two of them of one query.                   *)
EXTENDS WatchConnection, TLC

CONSTANTS c1, c2, c3, c4, tasks, invoices, account

MCQueryOf == (c1 :> tasks) @@ (c2 :> tasks) @@ (c3 :> invoices)
                @@ (c4 :> account)
=============================================================================
