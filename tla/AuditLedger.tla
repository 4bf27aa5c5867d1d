------------------------------ MODULE AuditLedger ------------------------------
(***************************************************************************)
(* What the audit trail promises to somebody who knows nothing of caches,  *)
(* channels and tasks.  An answered decision is pending until it is written *)
(* or counted as dropped, with the others of its row and for good.  The    *)
(* process comes to its own end with nothing pending; one that is killed   *)
(* loses what is, and nothing else is ever lost.  Whoever writes may not   *)
(* hear that he did: what is counted as dropped, and one row of what is    *)
(* lost, may be written all the same.                                      *)
(***************************************************************************)
CONSTANT Decision

VARIABLES up, answered, written, dropped, lost

Pending == answered \ (written \cup dropped \cup lost)

Init == up = TRUE /\ answered = {} /\ written = {} /\ dropped = {} /\ lost = {}

\* It may have been refused a place at once.
Answer(d) ==
  /\ up = TRUE /\ d \notin answered
  /\ answered' = answered \cup {d}
  /\ dropped' \in {dropped, dropped \cup {d}}
  /\ UNCHANGED <<up, written, lost>>

Write(row) ==
  /\ row # {} /\ row \subseteq Pending
  /\ written' = written \cup row
  /\ UNCHANGED <<up, answered, dropped, lost>>

Drop(row) ==
  /\ row # {} /\ row \subseteq Pending
  /\ dropped' = dropped \cup row
  /\ written' \in {written, written \cup row}
  /\ UNCHANGED <<up, answered, lost>>

Stop ==
  /\ up = TRUE /\ Pending = {}
  /\ up' = FALSE
  /\ UNCHANGED <<answered, written, dropped, lost>>

Crash ==
  /\ up = TRUE
  /\ up' = FALSE
  /\ lost' = lost \cup Pending
  /\ \E row \in SUBSET Pending : written' = written \cup row
  /\ UNCHANGED <<answered, dropped>>

Start ==
  /\ up = FALSE
  /\ up' = TRUE
  /\ UNCHANGED <<answered, written, dropped, lost>>

Next ==
  \/ \E d \in Decision : Answer(d)
  \/ \E row \in SUBSET Decision : Write(row) \/ Drop(row)
  \/ Stop \/ Crash \/ Start

Spec == Init /\ [][Next]_<<up, answered, written, dropped, lost>>
=============================================================================
