---------------------------- MODULE MCDecisionCache ----------------------------
(* Small caches for TLC.                                                     *)
EXTENDS DecisionCache, TLC

CONSTANTS r1, r2, r3, r4, ka, kb, kc, ua, ub, d1, lock1, lock2

\* Three keys: two of one subject, one of another.
ThreeKeys  == (r1 :> ka) @@ (r2 :> ka) @@ (r3 :> kb) @@ (r4 :> kc)
ThreeSubs  == (ka :> ua) @@ (kb :> ua) @@ (kc :> ub)
ThreeLocks == (ka :> lock1) @@ (kb :> lock1) @@ (kc :> lock2)
=============================================================================
