------------------------------- MODULE AuditTable -------------------------------
(***************************************************************************)
(* The table of audit rows: one partition per month and a default one for  *)
(* rows of a month that has none; the retention pass every instance runs   *)
(* at its start and daily; and an administrator who pages through the rows *)
(* while rows arrive at the head and retention deletes at the tail.        *)
(*                                                                         *)
(* A row's rank in (ts, id) is its number, in the order of insertion: ts   *)
(* is the database's own clock.  A statement is one step, and any of them  *)
(* may fail or be the last: a lock not granted, a store that is down, the  *)
(* timeout of the first pass, the end of the process.                      *)
(***************************************************************************)
EXTENDS Integers, Sequences, FiniteSets

CONSTANTS
  Pass,      \* the instances, each of which runs its own passes
  Months,    \* AUDIT_RETENTION_MONTHS
  Limit,     \* rows in a page
  MaxMonth,  \* bound: the last month of the clock
  MaxRow     \* bound: rows ever inserted

ASSUME TableAssumption ==
  /\ Months \in Nat \ {0}   \* fatal() otherwise
  /\ Limit \in Nat \ {0}    \* clamp(1, 1000)
  /\ MaxMonth \in Nat /\ MaxRow \in Nat

VARIABLES
  month,     \* the clock; month 0 is the first one of the calendar
  monthOf,   \* the month of every row ever inserted
  table,     \* rows that are there
  stray,     \* rows of those in the default partition
  parts,     \* months with a partition
  pass,      \* what each instance's retention pass is doing
  cleaned,   \* history: the latest cutoff of a pass that succeeded
  pager      \* the administrator: the page cursor, and history of the pages

tableVars == <<month, monthOf, table, stray, parts, pass, cleaned, pager>>

Month   == 0..MaxMonth
Row     == 1..MaxRow
Rows    == 1..Len(monthOf)
Start   == MaxRow + 1     \* no cursor
NoPass  == [pc |-> "idle", this |-> 0, ahead |-> 0, names |-> {}]
NoPager == [open |-> FALSE, cursor |-> Start, due |-> {}, shown |-> {}, twice |-> FALSE]

TableTypeOK ==
  /\ month \in Month
  /\ monthOf \in Seq(Month) /\ Len(monthOf) <= MaxRow
  /\ table \subseteq Rows
  /\ stray \subseteq table
  /\ parts \subseteq 0..(MaxMonth + 1)
  /\ pass \in [Pass -> [pc : {"idle", "create", "list", "drop"},
                        this : Month, ahead : 0..1, names : SUBSET Month]]
  /\ cleaned \in Month
  /\ pager \in [open : BOOLEAN, cursor : Row \cup {Start},
                due : SUBSET Rows, shown : SUBSET Rows, twice : BOOLEAN]
  \* What a partition is: a month's rows are in its own or in the default one.
  /\ \A n \in stray : monthOf[n] \notin parts
  /\ \A n \in table \ stray : monthOf[n] \in parts

TableInit ==
  /\ month = 0
  /\ monthOf = <<>>
  /\ table = {} /\ stray = {} /\ parts = {}
  /\ pass = [p \in Pass |-> NoPass]
  /\ cleaned = 0
  /\ pager = NoPager

-----------------------------------------------------------------------------
\* write_audit's insert, and now(): the row goes to the partition of its month
\* or, for want of one, to the default partition.
InsertRow ==
  /\ Len(monthOf) < MaxRow
  /\ monthOf' = Append(monthOf, month)
  /\ table' = table \cup {Len(monthOf) + 1}
  /\ stray' = IF month \in parts THEN stray ELSE stray \cup {Len(monthOf) + 1}
  /\ UNCHANGED <<month, parts, pass, cleaned, pager>>

NextMonth ==
  /\ month < MaxMonth
  /\ month' = month + 1
  /\ UNCHANGED <<monthOf, table, stray, parts, pass, cleaned, pager>>

-----------------------------------------------------------------------------
(* maintain_audit.                                                         *)

BeginPass(p) ==
  /\ pass[p].pc = "idle"
  /\ pass' = [pass EXCEPT ![p] = [pc |-> "create", this |-> month, ahead |-> 0, names |-> {}]]
  /\ UNCHANGED <<month, monthOf, table, stray, parts, cleaned, pager>>

\* This month's partition, then the next one's.  A month whose rows are in the
\* default partition already has none, and an error only skips the month.
CreatePart(p) ==
  LET m == pass[p].this + pass[p].ahead IN
  /\ pass[p].pc = "create"
  /\ \/ UNCHANGED parts
     \/ parts' = parts \cup {m} /\ \A n \in stray : monthOf[n] # m
  /\ pass' = IF pass[p].ahead = 0 THEN [pass EXCEPT ![p].ahead = 1]
                                  ELSE [pass EXCEPT ![p].pc = "list"]
  /\ UNCHANGED <<month, monthOf, table, stray, cleaned, pager>>

\* (Deviation: the month of the cutoff goes too.)
ExpiredThrough(p) == 0..(pass[p].this - Months)

\* The months that end before the cutoff.
Expired(p) == 0..(pass[p].this - Months - 1)

\* A cutoff off the calendar deletes nothing.
ListParts(p) ==
  /\ pass[p].pc = "list"
  /\ pass' = IF pass[p].this < Months THEN [pass EXCEPT ![p] = NoPass]
             ELSE [pass EXCEPT ![p].pc = "drop", ![p].names = parts \cap Expired(p)]
  /\ UNCHANGED <<month, monthOf, table, stray, parts, cleaned, pager>>

\* Dropping a partition that another instance has dropped is an error, and
\* ends the pass (EndPass).
DropPart(p) == \E m \in pass[p].names :
  /\ pass[p].pc = "drop"
  /\ m \in parts
  /\ parts' = parts \ {m}
  /\ table' = {n \in table : n \in stray \/ monthOf[n] # m}
  /\ pass' = [pass EXCEPT ![p].names = @ \ {m}]
  /\ UNCHANGED <<month, monthOf, stray, cleaned, pager>>

\* (Deviation: partitions only.)
DeleteNone(p) ==
  /\ pass[p].pc = "drop" /\ pass[p].names = {}
  /\ cleaned' = IF cleaned < pass[p].this - Months THEN pass[p].this - Months ELSE cleaned
  /\ pass' = [pass EXCEPT ![p] = NoPass]
  /\ UNCHANGED <<month, monthOf, parts, table, stray, pager>>

\* The default partition is never dropped: its old rows are deleted.
DeleteStray(p) ==
  LET gone == {n \in stray : monthOf[n] \in Expired(p)} IN
  /\ pass[p].pc = "drop" /\ pass[p].names = {}
  /\ table' = table \ gone
  /\ stray' = stray \ gone
  /\ cleaned' = IF cleaned < pass[p].this - Months THEN pass[p].this - Months ELSE cleaned
  /\ pass' = [pass EXCEPT ![p] = NoPass]
  /\ UNCHANGED <<month, monthOf, parts, pager>>

\* The pass ends where it is.  The next one starts from the beginning.
EndPass(p) ==
  /\ pass[p].pc # "idle"
  /\ pass' = [pass EXCEPT ![p] = NoPass]
  /\ UNCHANGED <<month, monthOf, table, stray, parts, cleaned, pager>>

-----------------------------------------------------------------------------
(* list_audit.                                                             *)

\* (Deviation: OFFSET in the place of the cursor.)
PageByOffset ==
  LET rest == {n \in table : Cardinality({x \in table : x >= n}) > Cardinality(pager.shown)} IN
  {n \in rest : Cardinality({x \in rest : x >= n}) <= Limit}

\* The newest rows below the cursor.
Page ==
  LET rest == {n \in table : n < pager.cursor} IN
  {n \in rest : Cardinality({x \in rest : x >= n}) <= Limit}

OpenAudit ==
  /\ ~pager.open
  /\ pager' = [open |-> TRUE, cursor |-> Start, due |-> table, shown |-> {}, twice |-> FALSE]
  /\ UNCHANGED <<month, monthOf, table, stray, parts, pass, cleaned>>

\* The next page starts below the last row of this one.
ShowPage ==
  /\ pager.open
  /\ \E last \in Page :
        /\ \A n \in Page : last <= n
        /\ pager' = [pager EXCEPT !.cursor = last,
                                  !.shown = @ \cup Page,
                                  !.twice = @ \/ Page \cap pager.shown # {}]
  /\ UNCHANGED <<month, monthOf, table, stray, parts, pass, cleaned>>

CloseAudit ==
  /\ pager.open /\ Page = {}
  /\ pager' = NoPager
  /\ UNCHANGED <<month, monthOf, table, stray, parts, pass, cleaned>>

TableNext ==
  \/ InsertRow \/ NextMonth \/ OpenAudit \/ ShowPage \/ CloseAudit
  \/ \E p \in Pass : \/ BeginPass(p) \/ CreatePart(p) \/ ListParts(p)
                     \/ DropPart(p) \/ DeleteStray(p) \/ EndPass(p)

TableSpec == TableInit /\ [][TableNext]_tableVars
-----------------------------------------------------------------------------
\* ADR-0022: no row leaves before Months whole months have passed since its
\* own, however late a pass runs, whatever it last read, and whichever
\* partition the row is in.
KeptLongEnough == \A n \in Rows \ table : monthOf[n] + Months < month

\* And a pass that succeeded has left nothing from before its cutoff, in a
\* partition or in the default one, though another instance's pass ran with it.
PassCleans == \A n \in table : monthOf[n] >= cleaned

\* list_audit, "a list that is quietly not the list that was asked for": paging
\* shows each row that was there when it began, and is still there, once.
PagesExact ==
  /\ ~pager.twice
  /\ \A n \in pager.due \cap table : n >= pager.cursor => n \in pager.shown
=============================================================================
