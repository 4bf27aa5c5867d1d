----------------------------- MODULE MCAuditTrail -----------------------------
(* A small trail for TLC.                                                    *)
EXTENDS AuditTrail, TLC

CONSTANTS d1, d2, d3, t1, t2, e1

\* One entry with two tallies, of two decisions and of one.
TwoTallies == (d1 :> t1) @@ (d2 :> t1) @@ (d3 :> t2)
OneEntry   == (t1 :> e1) @@ (t2 :> e1)
=============================================================================
