-------------------------------- MODULE MCStores --------------------------------
(***************************************************************************)
(* The parts whose state is in a store outside the process: applications   *)
(* and entitlements and the audit rows in Postgres, the session index in   *)
(* Redis, the second factors in Keycloak.  They share no variable and no   *)
(* action, so a behaviour moves one of them and leaves the others where    *)
(* they began: every state of each is visited, and no product of them.     *)
(***************************************************************************)
EXTENDS Access, AuditTable, SessionIndex, SecondFactor, TLC

CONSTANTS u1, g1, g2, p1, p2, k1, k2, m1, m2, c1, c2

VARIABLE part

vars == <<part, accessVars, tableVars, indexVars, resetVars>>

\* Two applications of one name; a user of one group out of two.
TwoSlugs  == {1, 2}
OneName   == [s \in TwoSlugs |-> 1]
OneMember == u1 :> {g1}

\* An administrator, an auditor, and an application's page that borrows the
\* administrator's session.
Requests == {[sub |-> "root", groups |-> {"admins"}, portal |-> TRUE],
             [sub |-> "user", groups |-> {"auditors"}, portal |-> TRUE],
             [sub |-> "root", groups |-> {"admins"}, portal |-> FALSE]}

\* Two of a kind may be exchanged, in all the parts at once.
Swap == [x \in {p1, p2, k1, k2, m1, m2, c1, c2} |->
           CASE x = p1 -> p2 [] x = p2 -> p1 [] x = k1 -> k2 [] x = k2 -> k1
             [] x = m1 -> m2 [] x = m2 -> m1 [] x = c1 -> c2 [] x = c2 -> c1]
StoreSymmetry == {Swap, [x \in DOMAIN Swap |-> x]}

Init ==
  /\ part \in {"access", "audit", "index", "reset"}
  /\ AccessInit /\ TableInit /\ IndexInit /\ ResetInit
  /\ part # "reset" => memberOf = [u \in User |-> {}]

Next ==
  /\ UNCHANGED part
  /\ \/ part = "access" /\ AccessNext /\ UNCHANGED <<tableVars, indexVars, resetVars>>
     \/ part = "audit" /\ TableNext /\ UNCHANGED <<accessVars, indexVars, resetVars>>
     \/ part = "index" /\ IndexNext /\ UNCHANGED <<accessVars, tableVars, resetVars>>
     \/ part = "reset" /\ ResetNext /\ UNCHANGED <<accessVars, tableVars, indexVars>>

Spec == Init /\ [][Next]_vars
-----------------------------------------------------------------------------
\* The values the four parts may take.
TypeOK == AccessTypeOK /\ TableTypeOK /\ IndexTypeOK /\ ResetTypeOK
=============================================================================
