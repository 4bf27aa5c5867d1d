------------------------------ MODULE Revocation ------------------------------
(***************************************************************************)
(* What cutting a session off means to somebody who does not know how it   *)
(* is done.  A session reaches the instances that hold an answer for it or *)
(* are obtaining one.  While it is alive it may reach more of them; once   *)
(* it is dead it never does again, and it never comes back to life.        *)
(***************************************************************************)
CONSTANTS Session, Instance

VARIABLES born, live, reach

Init == born = {} /\ live = {} /\ reach = [s \in Session |-> {}]

Open(s) ==
  /\ s \notin born
  /\ born' = born \cup {s}
  /\ live' = live \cup {s}
  /\ UNCHANGED reach

Close(S) ==
  /\ live' = live \ S
  /\ UNCHANGED <<born, reach>>

Reach(s, i) ==
  /\ s \in live
  /\ reach' = [reach EXCEPT ![s] = @ \cup {i}]
  /\ UNCHANGED <<born, live>>

Lose ==
  /\ reach' \in [Session -> SUBSET Instance]
  /\ \A s \in Session : reach'[s] \subseteq reach[s]
  /\ UNCHANGED <<born, live>>

Next ==
  \/ \E s \in Session : Open(s)
  \/ \E S \in SUBSET Session : Close(S)
  \/ \E s \in Session, i \in Instance : Reach(s, i)
  \/ Lose

Spec == Init /\ [][Next]_<<born, live, reach>>
=============================================================================
