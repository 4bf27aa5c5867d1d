----------------------------- MODULE MCKillSwitch -----------------------------
(* Small fleets for TLC.                                                     *)
EXTENDS KillSwitch, TLC

CONSTANTS i1, i2, u1, u2, b1, b2, s1, s2, k1, k2, l1

\* Two browsers with one session each.
TwoBrowsers      == (s1 :> b1) @@ (s2 :> b2)
\* One browser that signs in twice.
OneBrowser       == (s1 :> b1) @@ (s2 :> b1)
SameUser         == (s1 :> u1) @@ (s2 :> u1)

OneSessionUser    == s1 :> u1
OneSessionBrowser == s1 :> b1

\* Where the question is about Redis and the identity provider only, explore
\* the instances whose subscription never succeeds: every request is a miss.
NeverSubscribed == \A i \in Instance : sub[i] = "down"

\* There, what a cache holds decides nothing: states that differ only in the
\* caches are explored once.
RedisView == <<proxyVars, index, miss, calling, callVars, granted, orphaned>>

InstanceSymmetry == Permutations({i1, i2})
=============================================================================
