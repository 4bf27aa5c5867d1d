----------------------------- MODULE PostgresProofs -----------------------------
(***************************************************************************)
(* Proofs about the two parts whose state is in Postgres: Access, the      *)
(* applications and their rules, and AuditTable, the rows of the audit.    *)
(***************************************************************************)
EXTENDS Access, AuditTable, FiniteSetTheorems, SequenceTheorems, TLAPS

-----------------------------------------------------------------------------
(***************************************************************************)
(* Access, for every number of applications, users, groups and rules: the  *)
(* tables keep their types and their foreign key, and what decide and      *)
(* explain answer of two reads was true at one moment.                     *)
(***************************************************************************)
USE AccessAssumption

\* What the reader in flight is going to answer, if nothing changes any more.
Pending == Verdict(reader.enabled, Effects(Applicable(entitlement, reader.id, reader.sub)))

\* Before any change the application is as it was read.
AsRead ==
  reader # NoReader /\ window.changes = 0 =>
    application[reader.slug] = [id |-> reader.id, enabled |-> reader.enabled]

\* The answer on its way was true when the rules last changed, or at the start.
PendingWasTrue ==
  reader # NoReader /\ window.changes <= 1 /\ ~window.deleted => Pending \in window.seen

OneAnswer == reader # NoReader => answer = NoAnswer

AccessInv == AccessTypeOK /\ AsRead /\ PendingWasTrue /\ OneAnswer /\ AnswerFromTheTable

\* The rows the query selects are those of the reference.
LEMMA ApplicableIsConcerns ==
  ASSUME NEW rows \in SUBSET Entitlement, NEW id, NEW sub
  PROVE  Applicable(rows, id, sub) = {e \in rows : Concerns(e, id, sub)}
  <1> SUFFICES ASSUME NEW e \in rows
               PROVE  (/\ e.app \in {id, Null}
                       /\ \/ e.subject = <<"user", sub>>
                          \/ \E g \in Groups[sub] : e.subject = <<"ad_group", g>>)
                      <=> Concerns(e, id, sub)
    BY DEF Applicable
  <1>1. e.subject \in Subject
    BY DEF Entitlement
  <1>2. e.subject = <<e.subject[1], e.subject[2]>>
    BY <1>1 DEF Subject
  <1> QED
    BY <1>2 DEF Concerns

LEMMA VerdictType == \A enabled, rules : Verdict(enabled, rules) \in Outcome
  BY DEF Verdict, Outcome

LEMMA TableSaysIsVerdict ==
  ASSUME NEW apps, NEW rows \in SUBSET Entitlement, NEW sub, NEW s
  PROVE  TableSays(apps, rows, sub, s)
           = Verdict(apps[s].enabled, Effects(Applicable(rows, apps[s].id, sub)))
  <1>1. Applicable(rows, apps[s].id, sub) = {x \in rows : Concerns(x, apps[s].id, sub)}
    BY ApplicableIsConcerns
  <1> QED
    BY <1>1 DEF TableSays, Effects

LEMMA TableSaysType == \A apps, rows, sub, s : TableSays(apps, rows, sub, s) \in Outcome
  BY VerdictType DEF TableSays

LEMMA InitAccess == AccessInit => AccessInv
  BY DEF AccessInit, AccessInv, AccessTypeOK, AsRead, PendingWasTrue, OneAnswer, AnswerFromTheTable,
         NoReader, NoAnswer, Closed

-----------------------------------------------------------------------------
\* What Noted makes of the window while a reader is at work, and when none is.
LEMMA NotedType ==
  ASSUME AccessTypeOK, NEW apps, NEW rows, NEW gone, Noted(apps, rows, gone)
  PROVE  window' \in [seen : SUBSET Outcome, changes : 0..2, deleted : BOOLEAN]
  BY TableSaysType DEF AccessTypeOK, Noted

LEMMA NotedWindow ==
  ASSUME AccessTypeOK, NEW apps, NEW rows, NEW gone, Noted(apps, rows, gone), reader # NoReader
  PROVE  /\ window'.seen = window.seen \cup {TableSays(apps, rows, reader.sub, reader.slug)}
         /\ window'.changes \in 1..2
         /\ window'.changes = 1 <=> window.changes = 0
         /\ window'.deleted <=> window.deleted \/ reader.id \in gone
  <1>1. window' = [seen    |-> window.seen \cup {TableSays(apps, rows, reader.sub, reader.slug)},
                   changes |-> IF window.changes = 0 THEN 1 ELSE 2,
                   deleted |-> window.deleted \/ reader.id \in gone]
    BY DEF Noted
  <1>2. window'.deleted <=> window.deleted \/ reader.id \in gone
    BY <1>1, Zenon
  <1>3. window'.changes = IF window.changes = 0 THEN 1 ELSE 2
    BY <1>1, Zenon
  <1>4. window'.seen = window.seen \cup {TableSays(apps, rows, reader.sub, reader.slug)}
    BY <1>1, Zenon
  <1> QED
    BY <1>2, <1>3, <1>4

\* A change of the applications alone, or of rules that are not the reader's:
\* the answer on its way is what it was.
LEMMA RulesStay ==
  ASSUME AccessInv, UNCHANGED <<reader, answer>>, NEW apps, NEW rows, NEW gone, Noted(apps, rows, gone),
         reader # NoReader /\ reader.id \notin gone =>
           Applicable(entitlement', reader.id, reader.sub) = Applicable(entitlement, reader.id, reader.sub)
  PROVE  AsRead' /\ PendingWasTrue' /\ OneAnswer' /\ AnswerFromTheTable'
  <1>1. CASE reader = NoReader
    BY <1>1 DEF Noted, AccessInv, AsRead, PendingWasTrue, OneAnswer, AnswerFromTheTable
  <1>2. CASE reader # NoReader
    <2>1. window'.seen = window.seen \cup {TableSays(apps, rows, reader.sub, reader.slug)}
          /\ window'.changes \in 1..2 /\ (window'.changes = 1 <=> window.changes = 0)
          /\ (window'.deleted <=> window.deleted \/ reader.id \in gone)
      BY <1>2, NotedWindow DEF AccessInv
    <2>2. PendingWasTrue'
      <3> SUFFICES ASSUME window'.changes <= 1, ~window'.deleted PROVE Pending' \in window'.seen
        BY DEF PendingWasTrue
      <3>1. window.changes = 0 /\ ~window.deleted /\ reader.id \notin gone
        BY <2>1
      <3>2. Pending \in window.seen
        BY <1>2, <3>1 DEF AccessInv, PendingWasTrue
      <3>3. Pending' = Pending
        BY <1>2, <3>1 DEF Pending
      <3> QED
        BY <2>1, <3>2, <3>3
    <2>3. AsRead'
      BY <2>1 DEF AsRead
    <2>4. OneAnswer' /\ AnswerFromTheTable'
      BY <1>2 DEF AccessInv, OneAnswer, AnswerFromTheTable
    <2> QED
      BY <2>2, <2>3, <2>4
  <1> QED
    BY <1>1, <1>2

-----------------------------------------------------------------------------
(* The management API.                                                     *)

LEMMA CreateApplicationInv ==
  ASSUME AccessInv, NEW s \in Slug, NEW enabled \in BOOLEAN, CreateApplication(s, enabled) PROVE AccessInv'
  <1> USE DEF CreateApplication
  <1>1. window' \in [seen : SUBSET Outcome, changes : 0..2, deleted : BOOLEAN]
    BY NotedType DEF AccessInv
  <1>2. AccessTypeOK'
    <2>1. application' \in [Slug -> Application \cup {NoApp}] /\ lastId' \in 0..MaxId
      BY DEF AccessInv, AccessTypeOK, Application
    <2>2. ASSUME NEW e \in entitlement, e.app # Null PROVE \E t \in Slug : application'[t].id = e.app
      <3>1. PICK t \in Slug : application[t].id = e.app
        BY <2>2 DEF AccessInv, AccessTypeOK
      <3>2. t # s
        BY <2>2, <3>1 DEF NoApp, Null
      <3> QED
        BY <3>1, <3>2 DEF AccessInv, AccessTypeOK
    <2> QED
      BY <1>1, <2>1, <2>2 DEF AccessInv, AccessTypeOK
  <1> QED
    BY <1>2, RulesStay DEF AccessInv

LEMMA UpdateApplicationInv == ASSUME AccessInv, NEW s \in Slug, UpdateApplication(s) PROVE AccessInv'
  <1> USE DEF UpdateApplication
  <1>1. window' \in [seen : SUBSET Outcome, changes : 0..2, deleted : BOOLEAN]
    BY NotedType DEF AccessInv
  <1>2. application[s] \in Application
    BY DEF AccessInv, AccessTypeOK
  <1>3. application'[s] = [id |-> application[s].id, enabled |-> ~application[s].enabled]
    BY <1>2 DEF AccessInv, AccessTypeOK, Application
  <1>4. AccessTypeOK'
    <2>1. application' \in [Slug -> Application \cup {NoApp}]
      <3> DEFINE new == [application[s] EXCEPT !.enabled = ~@]
      <3>1. new \in Application
        BY <1>2 DEF Application
      <3>2. application' = [application EXCEPT ![s] = new]
        OBVIOUS
      <3>3. application \in [Slug -> Application \cup {NoApp}]
        BY DEF AccessInv, AccessTypeOK
      <3> HIDE DEF new, UpdateApplication
      <3> QED
        BY <3>1, <3>2, <3>3
    <2>2. ASSUME NEW t \in Slug PROVE application'[t].id = application[t].id
      <3>1. CASE t = s
        BY <1>3, <3>1
      <3>2. CASE t # s
        <4>1. application' = [application EXCEPT ![s] = [application[s] EXCEPT !.enabled = ~@]]
          OBVIOUS
        <4>2. application \in [Slug -> Application \cup {NoApp}]
          BY DEF AccessInv, AccessTypeOK
        <4>3. application'[t] = application[t]
          BY <3>2, <4>1, <4>2
        <4> QED
          BY <4>3
      <3> QED
        BY <3>1, <3>2
    <2> QED
      BY <1>1, <2>1, <2>2 DEF AccessInv, AccessTypeOK
  <1> QED
    BY <1>4, RulesStay DEF AccessInv

LEMMA DeleteApplicationInv == ASSUME AccessInv, NEW s \in Slug, DeleteApplication(s) PROVE AccessInv'
  <1> USE DEF DeleteApplication
  <1>1. window' \in [seen : SUBSET Outcome, changes : 0..2, deleted : BOOLEAN]
    BY NotedType DEF AccessInv
  <1>2. application[s].id \in 1..MaxId
    BY DEF AccessInv, AccessTypeOK, Application
  <1>3. AccessTypeOK'
    <2>1. application' \in [Slug -> Application \cup {NoApp}]
      BY DEF AccessInv, AccessTypeOK
    <2>2. ASSUME NEW e \in entitlement', e.app # Null PROVE \E t \in Slug : application'[t].id = e.app
      <3>1. PICK t \in Slug : application[t].id = e.app
        BY <2>2 DEF AccessInv, AccessTypeOK
      <3> QED
        BY <3>1 DEF AccessInv, AccessTypeOK
    <2> QED
      BY <1>1, <2>1, <2>2 DEF AccessInv, AccessTypeOK
  <1>4. ASSUME reader.id \notin {application[s].id}
        PROVE  Applicable(entitlement', reader.id, reader.sub) = Applicable(entitlement, reader.id, reader.sub)
    BY <1>2, <1>4 DEF Applicable, Null
  <1> QED
    BY <1>3, <1>4, RulesStay DEF AccessInv

\* A change of the rules: what was read of the application still holds, if this
\* is the first change, and the answer on its way is what the tables say now.
LEMMA RulesChange ==
  ASSUME AccessInv, AccessTypeOK', UNCHANGED <<application, reader, answer>>,
         Noted(application, entitlement', {})
  PROVE  AccessInv'
  <1>1. CASE reader = NoReader
    BY <1>1 DEF Noted, AccessInv, AsRead, PendingWasTrue, OneAnswer, AnswerFromTheTable
  <1>2. CASE reader # NoReader
    <2>1. /\ window'.seen = window.seen \cup {TableSays(application, entitlement', reader.sub, reader.slug)}
          /\ window'.changes \in 1..2 /\ (window'.changes = 1 <=> window.changes = 0)
      BY <1>2, NotedWindow DEF AccessInv
    <2>2. PendingWasTrue'
      <3> SUFFICES ASSUME window'.changes <= 1 PROVE Pending' \in window'.seen
        BY DEF PendingWasTrue
      <3>1. application[reader.slug] = [id |-> reader.id, enabled |-> reader.enabled]
        BY <1>2, <2>1 DEF AccessInv, AsRead
      <3>2. TableSays(application, entitlement', reader.sub, reader.slug)
              = Verdict(reader.enabled, Effects(Applicable(entitlement', reader.id, reader.sub)))
        BY <3>1, TableSaysIsVerdict DEF AccessTypeOK
      <3>3. Pending' = Verdict(reader.enabled, Effects(Applicable(entitlement', reader.id, reader.sub)))
        BY DEF Pending
      <3> QED
        BY <2>1, <3>2, <3>3
    <2>3. AsRead' /\ OneAnswer' /\ AnswerFromTheTable'
      BY <1>2, <2>1 DEF AccessInv, AsRead, OneAnswer, AnswerFromTheTable
    <2> QED
      BY <2>2, <2>3 DEF AccessInv
  <1> QED
    BY <1>1, <1>2

LEMMA EntitlementInv ==
  ASSUME AccessInv, NEW e \in Entitlement, CreateEntitlement(e) \/ DeleteEntitlement(e) PROVE AccessInv'
  <1>1. UNCHANGED <<application, lastId, reader, answer>> /\ Noted(application, entitlement', {})
    BY DEF CreateEntitlement, DeleteEntitlement
  <1>2. window' \in [seen : SUBSET Outcome, changes : 0..2, deleted : BOOLEAN]
    BY <1>1, NotedType DEF AccessInv
  <1>3. AccessTypeOK'
    BY <1>1, <1>2 DEF AccessInv, AccessTypeOK, CreateEntitlement, DeleteEntitlement
  <1> QED
    BY <1>1, <1>3, RulesChange

-----------------------------------------------------------------------------
(* The readers.                                                            *)

\* A window that opens has seen what the tables say, and no change.
Opened(says) == [seen |-> {says}, changes |-> 0, deleted |-> FALSE]

LEMMA OpenedType ==
  ASSUME NEW says \in Outcome
  PROVE  Opened(says) \in [seen : SUBSET Outcome, changes : 0..2, deleted : BOOLEAN]
  BY DEF Opened

LEMMA ReadAppInv ==
  ASSUME AccessInv, NEW by \in Reads, NEW sub \in Sub, NEW s \in Slug, ReadApp(by, sub, s) PROVE AccessInv'
  <1> DEFINE says == TableSays(application, entitlement, sub, s)
  <1>1. application[s] \in Application /\ UNCHANGED accessTables /\ answer' = NoAnswer
    BY DEF ReadApp, AccessInv, AccessTypeOK
  <1>2. reader' = [by |-> by, sub |-> sub, slug |-> s,
                   id |-> application[s].id, enabled |-> application[s].enabled]
    BY DEF ReadApp
  <1>3. window' = Opened(says)
    BY DEF ReadApp, Closed, Opened
  <1>4. AccessTypeOK'
    <2>1. window' \in [seen : SUBSET Outcome, changes : 0..2, deleted : BOOLEAN]
      <3> HIDE DEF says
      <3>1. says \in Outcome
        BY TableSaysType DEF says
      <3> QED
        BY <1>3, <3>1, OpenedType
    <2>2. reader' \in [by : Reads, sub : Sub, slug : Slug, id : 1..MaxId, enabled : BOOLEAN]
      BY <1>1, <1>2 DEF Application
    <2> QED
      BY <1>1, <2>1, <2>2 DEF AccessInv, AccessTypeOK, accessTables
  <1>5. AsRead'
    BY <1>1, <1>2 DEF AsRead, Application, accessTables
  <1>6. PendingWasTrue'
    <2>1. Pending' = says
      BY <1>1, <1>2, TableSaysIsVerdict DEF Pending, accessTables, AccessInv, AccessTypeOK
    <2> QED
      BY <1>3, <2>1 DEF PendingWasTrue, Opened
  <1> QED
    BY <1>1, <1>4, <1>5, <1>6 DEF AccessInv, OneAnswer, AnswerFromTheTable

LEMMA NoSuchAppInv ==
  ASSUME AccessInv, NEW sub \in Sub, NEW s \in Slug, NoSuchApp(sub, s) PROVE AccessInv'
  <1>1. UNCHANGED <<accessTables, reader>> /\ reader = NoReader
    BY DEF NoSuchApp
  <1>2. answer' = Verdict(FALSE, {}) /\ application[s] = NoApp
    BY DEF NoSuchApp
  <1>3. TableSays(application, entitlement, sub, s) = answer'
    BY <1>2 DEF TableSays, Verdict, NoApp
  <1>4. answer' \in Outcome
    BY <1>2 DEF Verdict, Outcome
  <1>5. window' = Opened(answer')
    BY <1>3 DEF NoSuchApp, Closed, Opened
  <1>6. AccessTypeOK'
    BY <1>1, <1>4, <1>5, OpenedType DEF AccessInv, AccessTypeOK, accessTables
  <1> QED
    BY <1>1, <1>5, <1>6 DEF AccessInv, AsRead, PendingWasTrue, OneAnswer, AnswerFromTheTable, Opened

LEMMA ReadRulesInv == ASSUME AccessInv, ReadRules PROVE AccessInv'
  <1>1. answer' = Pending /\ reader' = NoReader /\ UNCHANGED <<accessTables, window>>
    BY DEF ReadRules, Pending
  <1>2. AccessTypeOK'
    BY <1>1, VerdictType DEF AccessInv, AccessTypeOK, Pending, accessTables
  <1>3. AnswerFromTheTable'
    BY <1>1 DEF AccessInv, PendingWasTrue, AnswerFromTheTable, ReadRules
  <1> QED
    BY <1>1, <1>2, <1>3 DEF AccessInv, AsRead, PendingWasTrue, OneAnswer

LEMMA ReadFailsInv == ASSUME AccessInv, ReadFails PROVE AccessInv'
  <1> USE DEF ReadFails
  <1>1. AccessTypeOK'
    BY DEF AccessInv, AccessTypeOK, accessTables, Closed
  <1> QED
    BY <1>1 DEF AccessInv, AsRead, PendingWasTrue, OneAnswer, AnswerFromTheTable

LEMMA AccessStep == AccessInv /\ [AccessNext]_accessVars => AccessInv'
  <1> SUFFICES ASSUME AccessInv, [AccessNext]_accessVars PROVE AccessInv'
    OBVIOUS
  <1>1. CASE UNCHANGED accessVars
    BY <1>1 DEF accessVars, accessTables, AccessInv, AccessTypeOK, AsRead, PendingWasTrue, Pending,
                OneAnswer, AnswerFromTheTable
  <1>2. CASE AccessNext
    BY <1>2, CreateApplicationInv, UpdateApplicationInv, DeleteApplicationInv, EntitlementInv,
       ReadAppInv, NoSuchAppInv, ReadRulesInv, ReadFailsInv DEF AccessNext
  <1> QED
    BY <1>1, <1>2

\* The inductive invariant: before any change the reader knows the application as
\* it is, and the answer on its way is one the tables gave since the first read.
THEOREM AccessInvariance == AccessSpec => []AccessInv
  BY InitAccess, AccessStep, PTL DEF AccessSpec

\* No rule names an application that is not there, for any tables.
THEOREM AccessTypeCorrect == AccessSpec => []AccessTypeOK
  BY AccessInvariance, PTL DEF AccessInv

\* AnswerFromTheTable, for any tables: rules_for's two statements answer as one
\* would have, so long as at most one change falls between them and it does not
\* delete the application.
THEOREM AnswersFromTheTable == AccessSpec => []AnswerFromTheTable
  BY AccessInvariance, PTL DEF AccessInv

-----------------------------------------------------------------------------
(***************************************************************************)
(* AuditTable, for every number of instances, months, rows and rows in a   *)
(* page: retention deletes no row too early and leaves none behind, and    *)
(* the pages show every row once.                                          *)
(***************************************************************************)
HIDE AccessAssumption
USE TableAssumption

\* No row is of a month to come, and no pass knows a month that is.
MonthsPast ==
  /\ \A n \in Rows : monthOf[n] <= month
  /\ \A p \in Pass : pass[p].this <= month
  /\ cleaned <= month

\* What a pass is going to drop has expired; what has expired and is in a
\* partition, it is going to drop -- other instances' passes included, which
\* can only make partitions that stay empty, or drop some of these.
ListIsExact == \A p \in Pass : pass[p].pc = "drop" =>
  /\ pass[p].this >= Months
  /\ pass[p].names \subseteq Expired(p)
  /\ \A n \in table \ stray : monthOf[n] \in Expired(p) => monthOf[n] \in pass[p].names

\* The rows shown are above the cursor.
ShownAbove == \A n \in pager.shown : n >= pager.cursor

TableInv == /\ TableTypeOK /\ MonthsPast /\ ListIsExact /\ ShownAbove
            /\ KeptLongEnough /\ PassCleans /\ PagesExact

\* The part that only the pager's actions disturb.
Paging == ShownAbove /\ PagesExact

LEMMA InitTable == TableInit => TableInv
  BY DEF TableInit, TableInv, TableTypeOK, MonthsPast, ListIsExact, ShownAbove, KeptLongEnough,
         PassCleans, PagesExact, Rows, NoPass, NoPager, Month, Start, Row

\* Rows that only leave the table disturb no page.
LEMMA PagingStays ==
  ASSUME Paging, table' \subseteq table, UNCHANGED pager PROVE Paging'
  BY DEF Paging, ShownAbove, PagesExact

LEMMA InsertRowInv == ASSUME TableInv, InsertRow PROVE TableInv'
  <1> DEFINE new == Len(monthOf) + 1
  <1>1. /\ Len(monthOf) \in Nat /\ Len(monthOf) < MaxRow /\ month \in Month
        /\ monthOf' = Append(monthOf, month) /\ monthOf \in Seq(Month)
        /\ table' = table \cup {new}
        /\ stray' = IF month \in parts THEN stray ELSE stray \cup {new}
        /\ UNCHANGED <<month, parts, pass, cleaned, pager>>
    BY DEF InsertRow, TableInv, TableTypeOK
  <1>2. /\ monthOf' \in Seq(Month) /\ Len(monthOf') = new
        /\ monthOf'[new] = month
        /\ \A n \in Rows : monthOf'[n] = monthOf[n]
    BY <1>1 DEF Rows
  <1>3. Rows' = Rows \cup {new} /\ new \notin Rows
    BY <1>1, <1>2 DEF Rows
  <1>4. table \subseteq Rows /\ stray \subseteq table /\ pager.due \subseteq Rows /\ pager.shown \subseteq Rows
    BY DEF TableInv, TableTypeOK
  <1> HIDE DEF new
  <1>5. TableTypeOK'
    <2>1. stray' \subseteq table' /\ table' \subseteq Rows'
      BY <1>1, <1>3, <1>4
    <2>2. (\A n \in stray' : monthOf'[n] \notin parts') /\ (\A n \in table' \ stray' : monthOf'[n] \in parts')
      <3>1. /\ \A n \in stray : monthOf[n] \notin parts
            /\ \A n \in table \ stray : monthOf[n] \in parts
        BY DEF TableInv, TableTypeOK
      <3>2. \A n \in table : n # new /\ monthOf'[n] = monthOf[n]
        BY <1>2, <1>3, <1>4
      <3>3. \A n \in stray' : monthOf'[n] \notin parts'
        BY <1>1, <1>2, <1>4, <3>1, <3>2
      <3>4. \A n \in table' \ stray' : monthOf'[n] \in parts'
        BY <1>1, <1>2, <1>4, <3>1, <3>2
      <3> QED
        BY <3>3, <3>4
    <2>3. pager' \in [open : BOOLEAN, cursor : Row \cup {Start},
                      due : SUBSET Rows', shown : SUBSET Rows', twice : BOOLEAN]
      BY <1>1, <1>3 DEF TableInv, TableTypeOK
    <2>4. Len(monthOf') <= MaxRow
      BY <1>1, <1>2 DEF new
    <2>5. /\ month' \in Month /\ parts' \subseteq 0..(MaxMonth + 1) /\ cleaned' \in Month
          /\ pass' \in [Pass -> [pc : {"idle", "create", "list", "drop"},
                                 this : Month, ahead : 0..1, names : SUBSET Month]]
      BY <1>1 DEF TableInv, TableTypeOK
    <2> QED
      BY <1>2, <2>1, <2>2, <2>3, <2>4, <2>5 DEF TableTypeOK
  <1>6. MonthsPast'
    <2>1. month \in Nat /\ month' = month /\ pass' = pass /\ cleaned' = cleaned
      BY <1>1 DEF Month
    <2>2. \A n \in Rows' : monthOf'[n] <= month
      BY <1>2, <1>3, <2>1 DEF TableInv, MonthsPast
    <2> QED
      BY <2>1, <2>2 DEF TableInv, MonthsPast
  <1>7. KeptLongEnough'
    BY <1>1, <1>2, <1>3, <1>4 DEF TableInv, KeptLongEnough
  <1>8. PassCleans'
    BY <1>1, <1>2, <1>3, <1>4 DEF TableInv, PassCleans, MonthsPast
  <1>9. ListIsExact'
    <2> SUFFICES ASSUME NEW p \in Pass, pass[p].pc = "drop", NEW n \in table' \ stray',
                        monthOf'[n] \in Expired(p)
                 PROVE  monthOf'[n] \in pass[p].names
      BY <1>1 DEF TableInv, ListIsExact, Expired
    <2>1. pass[p].this \in Nat /\ pass[p].this <= month /\ month \in Nat
      BY <1>1 DEF TableInv, TableTypeOK, MonthsPast, Month
    <2>2. n # new
      BY <1>2, <2>1 DEF Expired
    <2> QED
      BY <1>1, <1>2, <1>4, <2>2 DEF TableInv, ListIsExact
  <1>10. Paging'
    BY <1>1, <1>3, <1>4 DEF TableInv, Paging, ShownAbove, PagesExact
  <1> QED
    BY <1>5, <1>6, <1>7, <1>8, <1>9, <1>10 DEF TableInv, Paging

LEMMA NextMonthInv == ASSUME TableInv, NextMonth PROVE TableInv'
  <1>1. /\ month \in 0..MaxMonth /\ month < MaxMonth /\ month' = month + 1
        /\ UNCHANGED <<monthOf, table, stray, parts, pass, cleaned, pager>>
    BY DEF NextMonth, TableInv, TableTypeOK, Month
  <1>2. TableTypeOK'
    BY <1>1 DEF TableInv, TableTypeOK, Rows, Month
  <1>3. /\ \A n \in Rows : monthOf[n] \in Int
        /\ \A p \in Pass : pass[p].this \in Int
        /\ cleaned \in Int
    BY DEF TableInv, TableTypeOK, Rows, Month
  <1>4. MonthsPast' /\ KeptLongEnough'
    BY <1>1, <1>3 DEF TableInv, MonthsPast, KeptLongEnough, Rows
  <1> QED
    BY <1>1, <1>2, <1>4 DEF TableInv, ListIsExact, Expired, PassCleans, PagesExact, ShownAbove

-----------------------------------------------------------------------------
(* maintain_audit.                                                         *)

\* What a step of one pass leaves to be shown of the other passes.
LEMMA OtherPass ==
  ASSUME TableInv, NEW p \in Pass, NEW q \in Pass, q # p,
         \E r : pass' = [pass EXCEPT ![p] = r]
  PROVE  pass'[q] = pass[q] /\ Expired(q)' = Expired(q)
  BY DEF TableInv, TableTypeOK, Expired

\* A pass that begins, ends, or makes a partition drops nothing.
LEMMA QuietPass ==
  ASSUME TableInv, NEW p \in Pass, NEW r, pass' = [pass EXCEPT ![p] = r],
         r \in [pc : {"idle", "create", "list", "drop"}, this : Month, ahead : 0..1, names : SUBSET Month],
         r.pc # "drop", r.this <= month,
         parts \subseteq parts', parts' \subseteq 0..(MaxMonth + 1),
         \A n \in stray : monthOf[n] \notin parts',
         UNCHANGED <<month, monthOf, table, stray, cleaned, pager>>
  PROVE  TableInv'
  <1>1. TableTypeOK'
    BY DEF TableInv, TableTypeOK, Rows
  <1>2. pass'[p] = r
    BY DEF TableInv, TableTypeOK
  <1>3. MonthsPast'
    BY <1>2 DEF TableInv, TableTypeOK, MonthsPast, Rows
  <1>4. ListIsExact'
    <2> SUFFICES ASSUME NEW q \in Pass, pass'[q].pc = "drop"
                 PROVE  /\ pass'[q].this >= Months /\ pass'[q].names \subseteq Expired(q)'
                        /\ \A n \in table \ stray : monthOf[n] \in Expired(q)' => monthOf[n] \in pass'[q].names
      BY DEF ListIsExact
    <2>1. q # p
      BY <1>2
    <2>2. pass'[q] = pass[q] /\ Expired(q)' = Expired(q)
      BY <2>1, OtherPass
    <2> QED
      BY <2>2 DEF TableInv, ListIsExact
  <1> QED
    BY <1>1, <1>3, <1>4 DEF TableInv, KeptLongEnough, PassCleans, PagesExact, ShownAbove, Rows

LEMMA PassRecord ==
  ASSUME TableInv, NEW p \in Pass
  PROVE  /\ pass[p] \in [pc : {"idle", "create", "list", "drop"}, this : Month, ahead : 0..1, names : SUBSET Month]
         /\ pass[p].this <= month /\ month \in Month /\ pass[p].this \in 0..MaxMonth
         /\ parts \subseteq 0..(MaxMonth + 1)
         /\ \A n \in stray : monthOf[n] \notin parts
  BY DEF TableInv, TableTypeOK, MonthsPast, Month

LEMMA BeginEndInv == ASSUME TableInv, NEW p \in Pass, BeginPass(p) \/ EndPass(p) PROVE TableInv'
  <1>1. CASE BeginPass(p)
    <2> DEFINE r == [pc |-> "create", this |-> month, ahead |-> 0, names |-> {}]
    <2>1. r.pc = "create" /\ r.this = month
          /\ r \in [pc : {"idle", "create", "list", "drop"}, this : Month, ahead : 0..1, names : SUBSET Month]
      BY PassRecord
    <2>2. pass' = [pass EXCEPT ![p] = r]
      BY <1>1 DEF BeginPass
    <2>3. month <= month
      BY PassRecord DEF Month
    <2> HIDE DEF r
    <2> QED
      BY <1>1, <2>1, <2>2, <2>3, PassRecord, QuietPass DEF BeginPass
  <1>2. CASE EndPass(p)
    <2>1. NoPass.pc = "idle" /\ NoPass.this <= month
          /\ NoPass \in [pc : {"idle", "create", "list", "drop"}, this : Month, ahead : 0..1, names : SUBSET Month]
      BY PassRecord DEF NoPass, Month
    <2> QED
      BY <1>2, <2>1, PassRecord, QuietPass DEF EndPass
  <1> QED
    BY <1>1, <1>2

LEMMA CreatePartInv == ASSUME TableInv, NEW p \in Pass, CreatePart(p) PROVE TableInv'
  <1> DEFINE m == pass[p].this + pass[p].ahead
             r == IF pass[p].ahead = 0 THEN [pass[p] EXCEPT !.ahead = 1]
                                       ELSE [pass[p] EXCEPT !.pc = "list"]
  <1>1. pass' = [pass EXCEPT ![p] = r]
    BY DEF CreatePart
  <1>2. /\ r \in [pc : {"idle", "create", "list", "drop"}, this : Month, ahead : 0..1, names : SUBSET Month]
        /\ r.pc # "drop" /\ r.this <= month
    BY PassRecord DEF CreatePart
  <1>3. /\ parts \subseteq parts' /\ parts' \subseteq 0..(MaxMonth + 1)
        /\ \A n \in stray : monthOf[n] \notin parts'
    <2>1. m \in 0..(MaxMonth + 1)
      BY PassRecord
    <2> HIDE DEF m
    <2> QED
      BY <2>1, PassRecord DEF CreatePart, m
  <1> HIDE DEF r
  <1> QED
    BY <1>1, <1>2, <1>3, QuietPass DEF CreatePart

LEMMA ListPartsInv == ASSUME TableInv, NEW p \in Pass, ListParts(p) PROVE TableInv'
  <1>1. CASE pass[p].this < Months
    <2>1. NoPass.pc = "idle" /\ NoPass.this <= month
          /\ NoPass \in [pc : {"idle", "create", "list", "drop"}, this : Month, ahead : 0..1, names : SUBSET Month]
      BY PassRecord DEF NoPass, Month
    <2> QED
      BY <1>1, <2>1, PassRecord, QuietPass DEF ListParts
  <1>2. CASE ~(pass[p].this < Months)
    <2> DEFINE r == [pass[p] EXCEPT !.pc = "drop", !.names = parts \cap Expired(p)]
    <2>1. pass' = [pass EXCEPT ![p] = r]
      BY <1>2 DEF ListParts
    <2>2. UNCHANGED <<month, monthOf, table, stray, parts, cleaned, pager>>
      BY DEF ListParts
    <2>3. /\ r.this = pass[p].this /\ r.names = parts \cap Expired(p)
          /\ r \in [pc : {"idle", "create", "list", "drop"}, this : Month, ahead : 0..1, names : SUBSET Month]
      <3>1. Expired(p) \subseteq Month
        BY PassRecord DEF Expired, Month
      <3> QED
        BY <3>1, PassRecord
    <2>4. pass'[p] = r
      BY <2>1 DEF TableInv, TableTypeOK
    <2> HIDE DEF r
    <2>5. Expired(p)' = Expired(p)
      BY <2>3, <2>4 DEF Expired
    <2>6. TableTypeOK' /\ MonthsPast'
      BY <2>1, <2>2, <2>3, <2>4 DEF TableInv, TableTypeOK, MonthsPast, Rows
    <2>7. ListIsExact'
      <3> SUFFICES ASSUME NEW q \in Pass, pass'[q].pc = "drop"
                   PROVE  /\ pass'[q].this >= Months /\ pass'[q].names \subseteq Expired(q)'
                          /\ \A n \in table \ stray : monthOf[n] \in Expired(q)' => monthOf[n] \in pass'[q].names
        BY <2>2 DEF ListIsExact
      <3>1. CASE q = p
        BY <1>2, <2>3, <2>4, <2>5, <3>1, PassRecord DEF TableInv, TableTypeOK
      <3>2. CASE q # p
        <4>1. pass'[q] = pass[q] /\ Expired(q)' = Expired(q)
          BY <2>1, <3>2, OtherPass
        <4> QED
          BY <4>1 DEF TableInv, ListIsExact
      <3> QED
        BY <3>1, <3>2
    <2> QED
      BY <2>2, <2>6, <2>7 DEF TableInv, KeptLongEnough, PassCleans, PagesExact, ShownAbove, Rows
  <1> QED
    BY <1>1, <1>2

\* A partition goes with its rows, which have expired, and leaves every list.
LEMMA DropPartInv == ASSUME TableInv, NEW p \in Pass, DropPart(p) PROVE TableInv'
  <1> PICK m \in pass[p].names :
        /\ pass[p].pc = "drop" /\ m \in parts
        /\ parts' = parts \ {m}
        /\ table' = {n \in table : n \in stray \/ monthOf[n] # m}
        /\ pass' = [pass EXCEPT ![p].names = @ \ {m}]
        /\ UNCHANGED <<month, monthOf, stray, cleaned, pager>>
    BY DEF DropPart
  <1>1. \A q \in Pass : /\ pass'[q].pc = pass[q].pc /\ pass'[q].this = pass[q].this
                        /\ pass[q].names \ {m} \subseteq pass'[q].names
                        /\ pass'[q].names \subseteq pass[q].names
                        /\ Expired(q)' = Expired(q)
    BY DEF TableInv, TableTypeOK, Expired
  <1>2. table' \subseteq table /\ Rows' = Rows
    BY DEF Rows
  <1>3. TableTypeOK'
    <2>1. pass' \in [Pass -> [pc : {"idle", "create", "list", "drop"},
                             this : Month, ahead : 0..1, names : SUBSET Month]]
      <3> DEFINE r == [pass[p] EXCEPT !.names = @ \ {m}]
      <3>1. r \in [pc : {"idle", "create", "list", "drop"}, this : Month, ahead : 0..1, names : SUBSET Month]
        BY PassRecord
      <3>2. pass' = [pass EXCEPT ![p] = r]
        OBVIOUS
      <3> HIDE DEF r
      <3> QED
        BY <3>1, <3>2 DEF TableInv, TableTypeOK
    <2>2. stray \subseteq table'
      BY DEF TableInv, TableTypeOK
    <2>3. (\A n \in stray : monthOf[n] \notin parts') /\ (\A n \in table' \ stray : monthOf[n] \in parts')
      BY DEF TableInv, TableTypeOK
    <2> QED
      BY <1>2, <2>1, <2>2, <2>3 DEF TableInv, TableTypeOK
  <1>4. MonthsPast'
    BY <1>1, <1>2 DEF TableInv, MonthsPast
  <1>5. ListIsExact'
    <2> SUFFICES ASSUME NEW q \in Pass, pass'[q].pc = "drop"
                 PROVE  /\ pass'[q].this >= Months /\ pass'[q].names \subseteq Expired(q)'
                        /\ \A n \in table' \ stray : monthOf[n] \in Expired(q)' => monthOf[n] \in pass'[q].names
      BY DEF ListIsExact
    <2>1. /\ pass[q].this >= Months /\ pass[q].names \subseteq Expired(q)
          /\ \A n \in table \ stray : monthOf[n] \in Expired(q) => monthOf[n] \in pass[q].names
      BY <1>1 DEF TableInv, ListIsExact
    <2> QED
      BY <1>1, <2>1
  <1>6. KeptLongEnough'
    <2> SUFFICES ASSUME NEW n \in Rows, n \notin table' PROVE monthOf[n] + Months < month
      BY <1>2 DEF KeptLongEnough
    <2>1. CASE n \notin table
      BY <2>1 DEF TableInv, KeptLongEnough
    <2>2. CASE n \in table
      <3>1. monthOf[n] = m /\ m \in Expired(p)
        BY <2>2 DEF TableInv, ListIsExact
      <3>2. m <= pass[p].this - Months - 1 /\ m \in Int
        BY <3>1 DEF Expired
      <3> QED
        BY <3>1, <3>2, PassRecord DEF Month
    <2> QED
      BY <2>1, <2>2
  <1>7. PassCleans' /\ Paging'
    BY <1>2, PagingStays DEF TableInv, PassCleans, Paging
  <1> QED
    BY <1>3, <1>4, <1>5, <1>6, <1>7 DEF TableInv, Paging

\* When the list is empty no partition has a row that has expired.
LEMMA DeleteStrayInv == ASSUME TableInv, NEW p \in Pass, DeleteStray(p) PROVE TableInv'
  <1> DEFINE gone == {n \in stray : monthOf[n] \in Expired(p)}
  <1>1. /\ pass[p].pc = "drop" /\ pass[p].names = {}
        /\ table' = table \ gone /\ stray' = stray \ gone
        /\ cleaned' = IF cleaned < pass[p].this - Months THEN pass[p].this - Months ELSE cleaned
        /\ pass' = [pass EXCEPT ![p] = NoPass]
        /\ UNCHANGED <<month, monthOf, parts, pager>>
    BY DEF DeleteStray
  <1>2. pass[p].this >= Months /\ \A n \in table' : monthOf[n] \notin Expired(p)
    BY <1>1 DEF TableInv, ListIsExact
  <1>3. /\ pass'[p] = NoPass /\ NoPass.pc = "idle" /\ NoPass.this = 0
        /\ NoPass \in [pc : {"idle", "create", "list", "drop"}, this : Month, ahead : 0..1, names : SUBSET Month]
    BY <1>1, PassRecord DEF TableInv, TableTypeOK, NoPass, Month
  <1>4. cleaned' \in Month /\ cleaned' <= month
    <2>1. /\ pass[p].this \in 0..MaxMonth /\ pass[p].this <= month /\ pass[p].this >= Months
          /\ month \in 0..MaxMonth
      BY <1>2, PassRecord DEF Month
    <2>2. cleaned \in 0..MaxMonth /\ cleaned <= month
      BY DEF TableInv, TableTypeOK, MonthsPast, Month
    <2>3. Months \in Nat \ {0} /\ MaxMonth \in Nat
      OBVIOUS
    <2>4. cleaned' \in 0..MaxMonth /\ cleaned' <= month
      BY <1>1, <2>1, <2>2, <2>3
    <2> QED
      BY <2>4 DEF Month
  <1>5. table' \subseteq table /\ Rows' = Rows
    BY <1>1 DEF Rows
  <1>6. TableTypeOK'
    BY <1>1, <1>3, <1>4, <1>5 DEF TableInv, TableTypeOK
  <1>7. MonthsPast'
    BY <1>1, <1>3, <1>4, <1>5, PassRecord DEF TableInv, TableTypeOK, MonthsPast, Month
  <1>8. ListIsExact'
    <2> SUFFICES ASSUME NEW q \in Pass, pass'[q].pc = "drop"
                 PROVE  /\ pass'[q].this >= Months /\ pass'[q].names \subseteq Expired(q)'
                        /\ \A n \in table' \ stray' : monthOf[n] \in Expired(q)' => monthOf[n] \in pass'[q].names
      BY <1>1 DEF ListIsExact
    <2>1. q # p
      BY <1>3
    <2>2. pass'[q] = pass[q] /\ Expired(q)' = Expired(q)
      BY <1>1, <2>1, OtherPass
    <2>3. table' \ stray' \subseteq table \ stray
      BY <1>1 DEF TableInv, TableTypeOK
    <2> QED
      BY <2>2, <2>3 DEF TableInv, ListIsExact
  <1>9. KeptLongEnough'
    <2> SUFFICES ASSUME NEW n \in Rows, n \notin table' PROVE monthOf[n] + Months < month
      BY <1>1, <1>5 DEF KeptLongEnough
    <2>1. CASE n \notin table
      BY <2>1 DEF TableInv, KeptLongEnough
    <2>2. CASE n \in table
      <3>1. monthOf[n] \in Expired(p)
        BY <1>1, <2>2
      <3>2. monthOf[n] <= pass[p].this - Months - 1 /\ monthOf[n] \in Int
        BY <3>1 DEF Expired
      <3> QED
        BY <3>2, PassRecord DEF Month
    <2> QED
      BY <2>1, <2>2
  <1>10. PassCleans'
    <2> SUFFICES ASSUME NEW n \in table' PROVE monthOf[n] >= cleaned'
      BY <1>1 DEF PassCleans
    <2>1. monthOf[n] \in Nat /\ monthOf[n] >= cleaned
      BY <1>5 DEF TableInv, TableTypeOK, PassCleans, Rows, Month
    <2>2. ~(monthOf[n] <= pass[p].this - Months - 1)
      BY <1>2, <2>1, PassRecord DEF Expired
    <2> QED
      BY <1>1, <2>1, <2>2, PassRecord
  <1>11. Paging'
    BY <1>1, <1>5, PagingStays DEF TableInv, Paging
  <1> QED
    BY <1>6, <1>7, <1>8, <1>9, <1>10, <1>11 DEF TableInv, Paging

-----------------------------------------------------------------------------
(* list_audit.                                                             *)

\* A page is of the rows below the cursor, and all of them above its last one.
LEMMA PageFacts ==
  ASSUME TableInv
  PROVE  /\ Page \subseteq table /\ Page \subseteq Row
         /\ \A x \in Page : x < pager.cursor
         /\ \A n \in table, x \in Page : n < pager.cursor /\ x <= n => n \in Page
  <1> DEFINE rest == {n \in table : n < pager.cursor}
             above(n) == {y \in rest : y >= n}
  <1>1. rest \subseteq 1..Len(monthOf) /\ Len(monthOf) \in Nat /\ 1..Len(monthOf) \subseteq Row
    <2>1. monthOf \in Seq(Month) /\ Len(monthOf) <= MaxRow /\ table \subseteq 1..Len(monthOf)
      BY DEF TableInv, TableTypeOK, Rows
    <2>2. Len(monthOf) \in Nat
      BY <2>1
    <2>3. rest \subseteq 1..Len(monthOf)
      BY <2>1
    <2> QED
      BY <2>1, <2>2, <2>3, TableAssumption DEF Row
  <1>2. IsFiniteSet(rest)
    <2>1. IsFiniteSet(1..Len(monthOf))
      BY <1>1, FS_Interval
    <2> HIDE DEF rest
    <2> QED
      BY <1>1, <2>1, FS_Subset
  <1>3. Page = {n \in rest : Cardinality(above(n)) <= Limit}
    BY DEF Page
  <1>4. ASSUME NEW n \in rest, NEW x \in Page, x <= n PROVE n \in Page
    <2>1. above(n) \subseteq above(x)
      BY <1>1, <1>3, <1>4
    <2>2. above(x) \subseteq rest /\ above(n) \subseteq rest
      OBVIOUS
    <2> HIDE DEF above
    <2>3. IsFiniteSet(above(x)) /\ IsFiniteSet(above(n))
      BY <1>2, <2>2, FS_Subset
    <2>4. Cardinality(above(n)) <= Cardinality(above(x))
      BY <2>1, <2>3, FS_Subset
    <2>5. Cardinality(above(n)) \in Nat /\ Cardinality(above(x)) \in Nat
      BY <2>3, FS_CardinalityType
    <2>6. Cardinality(above(x)) <= Limit
      BY <1>3 DEF above
    <2>7. Cardinality(above(n)) <= Limit
      BY <2>4, <2>5, <2>6
    <2> QED
      BY <1>3, <2>7 DEF above
  <1> QED
    BY <1>1, <1>3, <1>4

LEMMA PagerInv == ASSUME TableInv, OpenAudit \/ ShowPage \/ CloseAudit PROVE TableInv'
  <1>1. UNCHANGED <<month, monthOf, table, stray, parts, pass, cleaned>> /\ table \subseteq Rows
    BY DEF OpenAudit, ShowPage, CloseAudit, TableInv, TableTypeOK
  <1>2. ASSUME /\ pager' \in [open : BOOLEAN, cursor : Row \cup {Start},
                              due : SUBSET Rows, shown : SUBSET Rows, twice : BOOLEAN]
               /\ ShownAbove' /\ PagesExact'
        PROVE  TableInv'
    <2>1. Rows' = Rows
      BY <1>1 DEF Rows
    <2>2. TableTypeOK'
      BY <1>1, <1>2, <2>1 DEF TableInv, TableTypeOK
    <2>3. MonthsPast' /\ KeptLongEnough' /\ PassCleans'
      BY <1>1, <2>1 DEF TableInv, MonthsPast, KeptLongEnough, PassCleans
    <2>4. ListIsExact'
      BY <1>1 DEF TableInv, ListIsExact, Expired
    <2> QED
      BY <1>2, <2>2, <2>3, <2>4 DEF TableInv
  <1>3. CASE OpenAudit
    <2>1. pager' = [open |-> TRUE, cursor |-> Start, due |-> table, shown |-> {}, twice |-> FALSE]
      BY <1>3 DEF OpenAudit
    <2>2. \A n \in table : ~(n >= Start)
      BY <1>1 DEF TableInv, TableTypeOK, Rows, Start
    <2>3. PagesExact' /\ ShownAbove'
      BY <1>1, <2>1, <2>2 DEF PagesExact, ShownAbove
    <2> QED
      BY <1>1, <1>2, <2>1, <2>3
  <1>4. CASE CloseAudit
    <2>1. pager' = [open |-> FALSE, cursor |-> Start, due |-> {}, shown |-> {}, twice |-> FALSE]
      BY <1>4 DEF CloseAudit, NoPager
    <2>2. PagesExact' /\ ShownAbove'
      BY <1>1, <2>1 DEF PagesExact, ShownAbove
    <2> QED
      BY <1>1, <1>2, <2>1, <2>2
  <1>5. CASE ShowPage
    <2>1. PICK least \in Page :
            /\ \A x \in Page : least <= x
            /\ pager' = [pager EXCEPT !.cursor = least, !.shown = @ \cup Page,
                                      !.twice = @ \/ Page \cap pager.shown # {}]
      BY <1>5 DEF ShowPage
    <2>2. Page \cap pager.shown = {}
      BY PageFacts DEF TableInv, ShownAbove, Row, TableTypeOK, Start, Rows
    <2>3. /\ pager'.cursor = least /\ pager'.shown = pager.shown \cup Page
          /\ pager'.due = pager.due /\ pager'.open = pager.open
      BY <2>1 DEF TableInv, TableTypeOK
    <2>4. pager'.twice = pager.twice
      BY <2>1, <2>2 DEF TableInv, TableTypeOK
    <2>5. /\ pager'.twice \in BOOLEAN /\ ~pager'.twice
          /\ pager' \in [open : BOOLEAN, cursor : Row \cup {Start},
                         due : SUBSET Rows, shown : SUBSET Rows, twice : BOOLEAN]
      BY <1>1, <2>1, <2>3, <2>4, PageFacts DEF TableInv, TableTypeOK, PagesExact
    <2>6. least \in Nat /\ least < pager.cursor /\ pager.cursor \in Nat
          /\ table \subseteq Nat /\ pager.shown \subseteq Nat /\ pager.due \subseteq Nat
      BY <1>1, <2>1, PageFacts DEF Row, TableInv, TableTypeOK, Start, Rows
    <2>7. ShownAbove'
      <3>1. \A n \in pager.shown : n >= pager.cursor
        BY DEF TableInv, ShownAbove
      <3>2. \A n \in Page : n \in Nat /\ n >= least
        BY <2>1, <2>6, PageFacts
      <3>3. ASSUME NEW n \in pager.shown PROVE n >= least
        <4>1. n \in Nat /\ n >= pager.cursor
          BY <2>6, <3>1, <3>3
        <4>2. least \in Nat /\ pager.cursor \in Nat /\ least < pager.cursor
          BY <2>6
        <4> QED
          BY <4>1, <4>2
      <3> QED
        BY <2>3, <3>2, <3>3 DEF ShownAbove
    <2>8. PagesExact'
      <3> SUFFICES ASSUME NEW n \in pager.due \cap table, n >= least PROVE n \in pager.shown \cup Page
        BY <1>1, <2>3, <2>5 DEF PagesExact
      <3>1. CASE n >= pager.cursor
        BY <3>1 DEF TableInv, PagesExact
      <3>2. CASE ~(n >= pager.cursor)
        BY <2>1, <2>6, <3>2, PageFacts
      <3> QED
        BY <3>1, <3>2
    <2> QED
      BY <1>2, <2>5, <2>7, <2>8
  <1> QED
    BY <1>3, <1>4, <1>5

LEMMA TableStep == TableInv /\ [TableNext]_tableVars => TableInv'
  <1> SUFFICES ASSUME TableInv, [TableNext]_tableVars PROVE TableInv'
    OBVIOUS
  <1>1. CASE UNCHANGED tableVars
    BY <1>1 DEF tableVars, TableInv, TableTypeOK, MonthsPast, ListIsExact, ShownAbove, KeptLongEnough,
                PassCleans, PagesExact, Rows, Expired
  <1>2. CASE TableNext
    BY <1>2, InsertRowInv, NextMonthInv, PagerInv, BeginEndInv, CreatePartInv, ListPartsInv,
       DropPartInv, DeleteStrayInv DEF TableNext
  <1> QED
    BY <1>1, <1>2

\* The inductive invariant of retention and paging.
THEOREM TableInvariance == TableSpec => []TableInv
  BY InitTable, TableStep, PTL DEF TableSpec

\* KeptLongEnough, for any retention and any number of instances: maintain_audit
\* takes no row before Months whole months have passed since its own.
THEOREM AlwaysKeptLongEnough == TableSpec => []KeptLongEnough
  BY TableInvariance, PTL DEF TableInv

\* PassCleans: when maintain_audit succeeds nothing is left from before its
\* cutoff, whatever other instances' passes do meanwhile.
THEOREM PassAlwaysCleans == TableSpec => []PassCleans
  BY TableInvariance, PTL DEF TableInv

\* PagesExact, for pages of any size: the keyset cursor of list_audit shows every
\* row that was there, and is still, once.
THEOREM PagesAreExact == TableSpec => []PagesExact
  BY TableInvariance, PTL DEF TableInv

-----------------------------------------------------------------------------
(***************************************************************************)
(* The portal's list: rows of one application come one after the other, in *)
(* whatever order the query answers, and are one application together.     *)
(***************************************************************************)
Mine(row) == IF row.rule = NoRule THEN {} ELSE {row.rule.effect}

GroupOp(x, apps, row) ==
  IF apps = <<>> \/ Last(apps).slug # row.slug
  THEN Append(apps, [slug |-> row.slug, rules |-> Mine(row)])
  ELSE [apps EXCEPT ![Len(apps)].rules = @ \cup Mine(row)]

Grouping == INSTANCE LeftFold WITH Op <- GroupOp

LEMMA PortalStep ==
  /\ PortalApps(<<>>) = <<>>
  /\ \A X : \A t \in Seq(X), row \in X : PortalApps(Append(t, row)) = GroupOp(0, PortalApps(t), row)
  <1>1. \A t : PortalApps(t) = Grouping!Fold(0, <<>>, t)
    BY DEF PortalApps, FoldLeft, MapThenFoldSet, Max, Grouping!Fold, Grouping!Iter, Grouping!Step, Grouping!Top,
           GroupOp, Mine
  <1>2. Grouping!Fold(0, <<>>, <<>>) = <<>>
    BY Grouping!FoldEmpty
  <1>3. ASSUME NEW X, NEW t \in Seq(X), NEW row \in X
        PROVE  Grouping!Fold(0, <<>>, Append(t, row)) = GroupOp(0, Grouping!Fold(0, <<>>, t), row)
    BY Grouping!FoldAppend
  <1> QED
    BY <1>1, <1>2, <1>3

PortalRow == [slug : Slug, rule : Entitlement \cup {NoRule}]
App == [slug : Slug, rules : SUBSET Effect]

\* Between two rows of an application there are only rows of it.
Together(t) ==
  \A i, k, j \in DOMAIN t : i < k /\ k < j /\ t[i].slug = t[j].slug => t[k].slug = t[j].slug

\* What rows have been made into.
Grouped(t, apps) ==
  /\ apps = <<>> <=> t = <<>>
  /\ t # <<>> => apps[Len(apps)].slug = t[Len(t)].slug
  /\ \A i \in DOMAIN apps : \E k \in DOMAIN t : t[k].slug = apps[i].slug
  /\ \A k \in DOMAIN t : \E i \in DOMAIN apps : apps[i].slug = t[k].slug
  /\ \A i, j \in DOMAIN apps : apps[i].slug = apps[j].slug => i = j
  /\ \A i \in DOMAIN apps, e \in Effect :
       e \in apps[i].rules <=> \E k \in DOMAIN t : t[k].slug = apps[i].slug /\ e \in Mine(t[k])

LEMMA MineType == \A row \in PortalRow : Mine(row) \subseteq Effect
  <1>1. ASSUME NEW row \in PortalRow, row.rule # NoRule PROVE row.rule.effect \in Effect
    <2>1. row.rule \in Entitlement
      BY <1>1 DEF PortalRow
    <2> QED
      BY <2>1 DEF Entitlement
  <1> QED
    BY <1>1 DEF Mine

\* A row of another application than the last one's begins an application.
LEMMA GroupNew ==
  ASSUME NEW t \in Seq(PortalRow), NEW row \in PortalRow, NEW apps \in Seq(App), Grouped(t, apps),
         Together(Append(t, row)), apps = <<>> \/ apps[Len(apps)].slug # row.slug
  PROVE  LET more == Append(apps, [slug |-> row.slug, rules |-> Mine(row)])
         IN more \in Seq(App) /\ Grouped(Append(t, row), more)
  <1> DEFINE a    == [slug |-> row.slug, rules |-> Mine(row)]
             more == Append(apps, a)
             q    == Append(t, row)
             n    == Len(t)
             m    == Len(apps)
  <1>1. a \in App /\ a.slug = row.slug /\ a.rules = Mine(row)
    <2>1. row.slug \in Slug
      BY DEF PortalRow
    <2> QED
      BY <2>1, MineType DEF App
  <1> HIDE DEF a
  <1>2. /\ n \in Nat /\ m \in Nat /\ DOMAIN t = 1..n /\ DOMAIN apps = 1..m
        /\ (t = <<>> <=> n = 0) /\ (apps = <<>> <=> m = 0)
    BY LenProperties, EmptySeq
  <1>3. /\ q \in Seq(PortalRow) /\ Len(q) = n + 1 /\ DOMAIN q = 1..(n + 1) /\ q[n + 1] = row
        /\ \A i \in 1..n : q[i] = t[i]
    BY AppendProperties, LenProperties
  <1>4. /\ more \in Seq(App) /\ Len(more) = m + 1 /\ DOMAIN more = 1..(m + 1) /\ more[m + 1] = a
        /\ \A i \in 1..m : more[i] = apps[i]
    BY <1>1, AppendProperties, LenProperties
  <1>5. more # <<>> /\ q # <<>>
    BY <1>2, <1>3, <1>4, EmptySeq
  <1> HIDE DEF more, q, n, m
  <1>6. \A k \in 1..n : t[k].slug # row.slug
    <2> SUFFICES ASSUME NEW k \in 1..n, t[k].slug = row.slug PROVE FALSE
      OBVIOUS
    <2>1. n # 0 /\ n \in 1..n
      BY <1>2
    <2>2. apps[m].slug = t[n].slug /\ m # 0
      BY <1>2, <2>1 DEF Grouped, n, m
    <2>3. t[n].slug # row.slug
      BY <1>2, <2>2 DEF m
    <2>4. k # n
      BY <2>1, <2>3
    <2>5. k < n /\ n < n + 1 /\ k \in DOMAIN q /\ n \in DOMAIN q /\ n + 1 \in DOMAIN q
      BY <1>2, <1>3, <2>1, <2>4
    <2>6. q[n].slug = q[n + 1].slug
      BY <1>3, <2>5 DEF Together, q
    <2> QED
      BY <1>3, <2>1, <2>3, <2>6
  <1>7. \A i \in 1..m : apps[i].slug # row.slug
    BY <1>2, <1>6 DEF Grouped
  <1>8. 1..(n + 1) = 1..n \cup {n + 1} /\ 1..(m + 1) = 1..m \cup {m + 1}
        /\ n + 1 \notin 1..n /\ m + 1 \notin 1..m
    BY <1>2
  <1>9. \A i \in DOMAIN more : \E k \in DOMAIN q : q[k].slug = more[i].slug
    <2>1. ASSUME NEW i \in 1..m PROVE \E k \in 1..n : q[k].slug = more[i].slug
      <3>1. PICK k \in 1..n : t[k].slug = apps[i].slug
        BY <1>2 DEF Grouped
      <3> QED
        BY <1>3, <1>4, <3>1
    <2>2. q[n + 1].slug = more[m + 1].slug
      BY <1>1, <1>3, <1>4
    <2> QED
      BY <1>3, <1>4, <1>8, <2>1, <2>2
  <1>10. \A k \in DOMAIN q : \E i \in DOMAIN more : more[i].slug = q[k].slug
    <2>1. ASSUME NEW k \in 1..n PROVE \E i \in DOMAIN more : more[i].slug = q[k].slug
      <3>1. PICK i \in 1..m : apps[i].slug = t[k].slug
        BY <1>2 DEF Grouped
      <3>2. i \in DOMAIN more /\ more[i] = apps[i] /\ q[k] = t[k]
        BY <1>3, <1>4, <1>8
      <3> QED
        BY <3>1, <3>2
    <2>2. more[m + 1].slug = q[n + 1].slug /\ m + 1 \in DOMAIN more
      BY <1>1, <1>3, <1>4, <1>8
    <2> QED
      BY <1>3, <1>8, <2>1, <2>2
  <1>11. \A i, j \in DOMAIN more : more[i].slug = more[j].slug => i = j
    BY <1>1, <1>2, <1>4, <1>7, <1>8 DEF Grouped
  <1>12. \A i \in DOMAIN more, e \in Effect :
           e \in more[i].rules <=> \E k \in DOMAIN q : q[k].slug = more[i].slug /\ e \in Mine(q[k])
    <2> SUFFICES ASSUME NEW i \in DOMAIN more, NEW e \in Effect
                 PROVE  e \in more[i].rules <=> \E k \in DOMAIN q : q[k].slug = more[i].slug /\ e \in Mine(q[k])
      OBVIOUS
    <2>1. CASE i = m + 1
      <3>1. more[i].rules = Mine(row) /\ more[i].slug = row.slug
        BY <1>1, <1>4, <2>1
      <3> QED
        BY <1>3, <1>6, <1>8, <3>1
    <2>2. CASE i \in 1..m
      <3>1. more[i] = apps[i] /\ apps[i].slug # row.slug
        BY <1>4, <1>7, <2>2
      <3>2. e \in apps[i].rules <=> \E k \in 1..n : t[k].slug = apps[i].slug /\ e \in Mine(t[k])
        BY <1>2, <2>2 DEF Grouped
      <3> QED
        BY <1>3, <1>8, <3>1, <3>2
    <2> QED
      BY <1>4, <1>8, <2>1, <2>2
  <1>13. more[Len(more)].slug = q[Len(q)].slug
    BY <1>1, <1>3, <1>4
  <1>14. Grouped(q, more)
    BY <1>5, <1>9, <1>10, <1>11, <1>12, <1>13 DEF Grouped
  <1> QED
    BY <1>4, <1>14 DEF more, q, a

\* One of the last application's joins it.
LEMMA GroupMore ==
  ASSUME NEW t \in Seq(PortalRow), NEW row \in PortalRow, NEW apps \in Seq(App), Grouped(t, apps),
         apps # <<>>, apps[Len(apps)].slug = row.slug
  PROVE  LET more == [apps EXCEPT ![Len(apps)].rules = @ \cup Mine(row)]
         IN more \in Seq(App) /\ Grouped(Append(t, row), more)
  <1> DEFINE m    == Len(apps)
             n    == Len(t)
             a    == [apps[m] EXCEPT !.rules = @ \cup Mine(row)]
             more == [apps EXCEPT ![m] = a]
             q    == Append(t, row)
  <1>1. /\ n \in Nat /\ m \in Nat /\ m # 0 /\ DOMAIN t = 1..n /\ DOMAIN apps = 1..m /\ m \in 1..m
        /\ t # <<>> /\ \A i \in 1..m : apps[i] \in App
    BY LenProperties, EmptySeq, ElementOfSeq DEF Grouped
  <1>2. [apps EXCEPT ![Len(apps)].rules = @ \cup Mine(row)] = more
    OBVIOUS
  <1>3. a \in App /\ a.slug = apps[m].slug /\ a.rules = apps[m].rules \cup Mine(row)
    BY <1>1, MineType DEF App
  <1>4. apps[m].slug = row.slug
    OBVIOUS
  <1> HIDE DEF a
  <1>5. /\ more \in Seq(App) /\ Len(more) = m /\ DOMAIN more = 1..m /\ more[m] = a
        /\ \A i \in 1..m : i # m => more[i] = apps[i]
    BY <1>1, <1>3, ExceptSeq, LenProperties
  <1>6. /\ q \in Seq(PortalRow) /\ Len(q) = n + 1 /\ DOMAIN q = 1..(n + 1) /\ q[n + 1] = row
        /\ \A i \in 1..n : q[i] = t[i]
    BY AppendProperties, LenProperties
  <1>7. more # <<>> /\ q # <<>>
    BY <1>1, <1>5, <1>6, EmptySeq
  <1> HIDE DEF more, q, n, m
  <1>8. 1..(n + 1) = 1..n \cup {n + 1} /\ n + 1 \notin 1..n
    BY <1>1
  <1>9. \A i \in 1..m : more[i].slug = apps[i].slug
    BY <1>3, <1>5
  <1>10. \A i \in DOMAIN more : \E k \in DOMAIN q : q[k].slug = more[i].slug
    <2> SUFFICES ASSUME NEW i \in 1..m PROVE \E k \in DOMAIN q : q[k].slug = apps[i].slug
      BY <1>5, <1>9
    <2>1. PICK k \in 1..n : t[k].slug = apps[i].slug
      BY <1>1 DEF Grouped
    <2>2. k \in DOMAIN q /\ q[k] = t[k]
      BY <1>6, <1>8
    <2> QED
      BY <2>1, <2>2
  <1>11. \A k \in DOMAIN q : \E i \in DOMAIN more : more[i].slug = q[k].slug
    <2>1. ASSUME NEW k \in 1..n PROVE \E i \in DOMAIN more : more[i].slug = q[k].slug
      <3>1. PICK i \in 1..m : apps[i].slug = t[k].slug
        BY <1>1 DEF Grouped
      <3>2. i \in DOMAIN more /\ more[i].slug = apps[i].slug /\ q[k] = t[k]
        BY <1>5, <1>6, <1>9
      <3> QED
        BY <3>1, <3>2
    <2>2. more[m].slug = q[n + 1].slug /\ m \in DOMAIN more
      BY <1>1, <1>4, <1>5, <1>6, <1>9
    <2> QED
      BY <1>6, <1>8, <2>1, <2>2
  <1>12. \A i, j \in DOMAIN more : more[i].slug = more[j].slug => i = j
    BY <1>1, <1>5, <1>9 DEF Grouped
  <1>13. \A i \in DOMAIN more, e \in Effect :
           e \in more[i].rules <=> \E k \in DOMAIN q : q[k].slug = more[i].slug /\ e \in Mine(q[k])
    <2> SUFFICES ASSUME NEW i \in 1..m, NEW e \in Effect
                 PROVE  e \in more[i].rules <=> \E k \in DOMAIN q : q[k].slug = apps[i].slug /\ e \in Mine(q[k])
      BY <1>5, <1>9
    <2>1. e \in apps[i].rules <=> \E k \in 1..n : t[k].slug = apps[i].slug /\ e \in Mine(t[k])
      BY <1>1 DEF Grouped
    <2>2. CASE i = m
      <3>1. e \in more[i].rules <=> e \in apps[i].rules \/ e \in Mine(row)
        BY <1>3, <1>5, <2>2
      <3> QED
        BY <1>4, <1>6, <1>8, <2>1, <2>2, <3>1
    <2>3. CASE i # m
      <3>1. apps[i].slug # row.slug
        BY <1>1, <1>4, <2>3 DEF Grouped
      <3>2. more[i] = apps[i]
        BY <1>5, <2>3
      <3> QED
        BY <1>6, <1>8, <2>1, <3>1, <3>2
    <2> QED
      BY <2>2, <2>3
  <1>14. more[Len(more)].slug = q[Len(q)].slug
    BY <1>1, <1>4, <1>5, <1>6, <1>9
  <1>15. Grouped(q, more)
    BY <1>7, <1>10, <1>11, <1>12, <1>13, <1>14 DEF Grouped
  <1> QED
    BY <1>2, <1>5, <1>15 DEF q

LEMMA GroupedRows ==
  ASSUME NEW list \in Seq(PortalRow), Together(list)
  PROVE  PortalApps(list) \in Seq(App) /\ Grouped(list, PortalApps(list))
  <1> DEFINE T == {t \in Seq(PortalRow) : Together(t) =>
                     PortalApps(t) \in Seq(App) /\ Grouped(t, PortalApps(t))}
  <1>1. <<>> \in T
    <2>1. <<>> \in Seq(PortalRow) /\ <<>> \in Seq(App) /\ DOMAIN <<>> = {}
      OBVIOUS
    <2>2. PortalApps(<<>>) = <<>>
      BY PortalStep
    <2> QED
      BY <2>1, <2>2 DEF Grouped
  <1>2. ASSUME NEW t \in Seq(PortalRow), NEW row \in PortalRow, t \in T PROVE Append(t, row) \in T
    <2> DEFINE q    == Append(t, row)
               apps == PortalApps(t)
    <2>1. q \in Seq(PortalRow)
      BY AppendProperties
    <2> SUFFICES ASSUME Together(q) PROVE PortalApps(q) \in Seq(App) /\ Grouped(q, PortalApps(q))
      BY <2>1
    <2>2. Together(t)
      <3>1. /\ DOMAIN t = 1..Len(t) /\ DOMAIN q = 1..(Len(t) + 1) /\ Len(t) \in Nat
            /\ \A i \in 1..Len(t) : q[i] = t[i]
        BY AppendProperties, LenProperties
      <3>2. \A i \in DOMAIN t : i \in DOMAIN q /\ q[i] = t[i]
        BY <3>1
      <3> HIDE DEF q
      <3> QED
        BY <3>2 DEF Together
    <2>3. apps \in Seq(App) /\ Grouped(t, apps)
      BY <1>2, <2>2
    <2>4. PortalApps(q) = GroupOp(0, apps, row)
      BY PortalStep
    <2>5. apps # <<>> => Last(apps) = apps[Len(apps)]
      BY DEF Last
    <2> HIDE DEF apps, T
    <2>6. CASE apps = <<>> \/ apps[Len(apps)].slug # row.slug
      <3>1. GroupOp(0, apps, row) = Append(apps, [slug |-> row.slug, rules |-> Mine(row)])
        BY <2>5, <2>6 DEF GroupOp
      <3> QED
        BY <2>3, <2>4, <2>6, <3>1, GroupNew
    <2>7. CASE apps # <<>> /\ apps[Len(apps)].slug = row.slug
      <3>1. GroupOp(0, apps, row) = [apps EXCEPT ![Len(apps)].rules = @ \cup Mine(row)]
        BY <2>5, <2>7 DEF GroupOp
      <3> DEFINE more == [apps EXCEPT ![Len(apps)].rules = @ \cup Mine(row)]
      <3>2. more \in Seq(App) /\ Grouped(q, more)
        BY <2>3, <2>7, GroupMore
      <3> HIDE DEF more
      <3> QED
        BY <2>4, <3>1, <3>2 DEF more
    <2> QED
      BY <2>6, <2>7
  <1> HIDE DEF T
  <1>3. Seq(PortalRow) \subseteq T
    BY <1>1, <1>2, Grouping!Appending
  <1> QED
    BY <1>3 DEF T

\* Tables have a finite number of rows.
TablesFinite ==
  IsFiniteSet({s \in Slug : application[s] # NoApp}) /\ IsFiniteSet(entitlement)

LEMMA TablesAlwaysFinite == AccessSpec => []TablesFinite
  <1> DEFINE live == {s \in Slug : application[s] # NoApp}
  <1>1. AccessInit => TablesFinite
    <2> SUFFICES ASSUME AccessInit PROVE TablesFinite
      OBVIOUS
    <2>1. live = {} /\ entitlement = {}
      BY DEF AccessInit
    <2> QED
      BY <2>1, FS_EmptySet DEF TablesFinite
  <1>2. ASSUME AccessTypeOK, TablesFinite, [AccessNext]_accessVars PROVE TablesFinite'
    <2>1. IsFiniteSet(live) /\ IsFiniteSet(entitlement)
      BY <1>2 DEF TablesFinite
    <2>2. application \in [Slug -> Application \cup {NoApp}]
      BY <1>2 DEF AccessTypeOK
    <2>3. ASSUME live' \subseteq live PROVE IsFiniteSet(live')
      BY <2>1, <2>3, FS_Subset
    <2>4. ASSUME entitlement' \subseteq entitlement PROVE IsFiniteSet(entitlement')
      BY <2>1, <2>4, FS_Subset
    <2>5. ASSUME NEW s \in Slug, NEW enabled \in BOOLEAN, CreateApplication(s, enabled) PROVE TablesFinite'
      <3>1. live' \subseteq live \cup {s} /\ entitlement' = entitlement
        BY <2>2, <2>5 DEF CreateApplication
      <3>2. IsFiniteSet(live \cup {s})
        BY <2>1, FS_AddElement
      <3> HIDE DEF live
      <3>3. IsFiniteSet(live')
        BY <3>1, <3>2, FS_Subset
      <3> QED
        BY <2>4, <3>1, <3>3 DEF TablesFinite, live
    <2>6. ASSUME NEW s \in Slug, UpdateApplication(s) \/ DeleteApplication(s) PROVE TablesFinite'
      <3>1. live' \subseteq live /\ entitlement' \subseteq entitlement
        BY <2>2, <2>6 DEF UpdateApplication, DeleteApplication
      <3> QED
        BY <2>3, <2>4, <3>1 DEF TablesFinite
    <2>7. ASSUME NEW e \in Entitlement, CreateEntitlement(e) PROVE TablesFinite'
      <3>1. live' = live /\ entitlement' = entitlement \cup {e}
        BY <2>7 DEF CreateEntitlement
      <3>2. IsFiniteSet(entitlement \cup {e})
        BY <2>1, FS_AddElement
      <3> QED
        BY <2>1, <3>1, <3>2 DEF TablesFinite
    <2>8. ASSUME NEW e \in Entitlement, DeleteEntitlement(e) PROVE TablesFinite'
      <3>1. live' = live /\ entitlement' \subseteq entitlement
        BY <2>8 DEF DeleteEntitlement
      <3> QED
        BY <2>3, <2>4, <3>1 DEF TablesFinite
    <2>9. ASSUME UNCHANGED accessTables PROVE TablesFinite'
      <3>1. live' = live /\ entitlement' \subseteq entitlement
        BY <2>9 DEF accessTables
      <3> QED
        BY <2>3, <2>4, <3>1 DEF TablesFinite
    <2>10. ASSUME NEW s \in Slug, NEW sub \in Sub, NEW by \in Reads, ReadApp(by, sub, s) \/ NoSuchApp(sub, s)
           PROVE  UNCHANGED accessTables
      BY <2>10 DEF ReadApp, NoSuchApp, accessTables
    <2>11. ReadRules \/ ReadFails => UNCHANGED accessTables
      BY DEF ReadRules, ReadFails, accessTables
    <2>12. UNCHANGED accessVars => UNCHANGED accessTables
      BY DEF accessVars
    <2>13. "decide" \in Reads
      BY DEF Reads
    <2> HIDE DEF live
    <2> QED
      BY <1>2, <2>5, <2>6, <2>7, <2>8, <2>9, <2>10, <2>11, <2>12, <2>13 DEF AccessNext
  <1> QED
    BY <1>1, <1>2, AccessTypeCorrect, PTL DEF AccessSpec

\* The rules of the rows of one application.
RulesFor(sub, s) == Applicable(entitlement, application[s].id, sub)

LEMMA RowsAre ==
  ASSUME AccessTypeOK, NEW sub
  PROVE  /\ PortalRows(sub) \subseteq PortalRow
         /\ \A row \in PortalRows(sub) : application[row.slug].enabled
         /\ \A s \in Slug : application[s].enabled => \E row \in PortalRows(sub) : row.slug = s
         /\ \A s \in Slug : \A e : application[s].enabled =>
              (e \in Effects(RulesFor(sub, s)) <=>
                 \E row \in PortalRows(sub) : row.slug = s /\ e \in Mine(row))
  <1> DEFINE enabled == {s \in Slug : application[s].enabled}
             rules(s) == IF RulesFor(sub, s) = {} THEN {NoRule} ELSE RulesFor(sub, s)
             block(s) == {[slug |-> s, rule |-> r] : r \in rules(s)}
  <1>1. PortalRows(sub) = UNION {block(s) : s \in enabled}
    BY DEF PortalRows, RulesFor
  <1>2. \A s : RulesFor(sub, s) \subseteq Entitlement
    BY DEF RulesFor, Applicable, AccessTypeOK
  <1>3. NoRule \notin Entitlement
    <2>1. \A e \in Entitlement : "subject" \in DOMAIN e
      BY DEF Entitlement
    <2>2. DOMAIN NoRule = {"app"}
      BY DEF NoRule
    <2> QED
      BY <2>1, <2>2
  <1>4. \A s : rules(s) # {} /\ rules(s) \subseteq Entitlement \cup {NoRule}
    BY <1>2
  <1>5. \A row : row \in PortalRows(sub) <=> \E s \in enabled : \E r \in rules(s) : row = [slug |-> s, rule |-> r]
    BY <1>1
  <1> HIDE DEF rules
  <1>6. PortalRows(sub) \subseteq PortalRow
    BY <1>4, <1>5 DEF PortalRow
  <1>7. \A row \in PortalRows(sub) : application[row.slug].enabled /\ row.rule \in rules(row.slug)
    BY <1>5
  <1>8. \A s \in enabled : \A r \in rules(s) :
          /\ [slug |-> s, rule |-> r] \in PortalRows(sub)
          /\ [slug |-> s, rule |-> r].slug = s /\ [slug |-> s, rule |-> r].rule = r
    BY <1>5
  <1>9. ASSUME NEW s \in Slug, application[s].enabled PROVE \E row \in PortalRows(sub) : row.slug = s
    <2>1. PICK r : r \in rules(s)
      BY <1>4
    <2>2. s \in enabled
      BY <1>9
    <2> QED
      BY <1>8, <2>1, <2>2
  <1>10. ASSUME NEW s \in Slug, NEW e, application[s].enabled
         PROVE  e \in Effects(RulesFor(sub, s)) <=> \E row \in PortalRows(sub) : row.slug = s /\ e \in Mine(row)
    <2>1. \A r \in RulesFor(sub, s) : r \in rules(s) /\ r # NoRule
      BY <1>2, <1>3 DEF rules
    <2>2. \A r \in rules(s) : r # NoRule => r \in RulesFor(sub, s)
      BY DEF rules
    <2>3. e \in Effects(RulesFor(sub, s)) <=> \E r \in RulesFor(sub, s) : e = r.effect
      BY DEF Effects
    <2>4. \A row : e \in Mine(row) <=> row.rule # NoRule /\ e = row.rule.effect
      BY DEF Mine
    <2>5. ASSUME NEW r \in RulesFor(sub, s), e = r.effect
          PROVE  \E row \in PortalRows(sub) : row.slug = s /\ e \in Mine(row)
      <3> DEFINE row == [slug |-> s, rule |-> r]
      <3>1. row \in PortalRows(sub) /\ row.slug = s /\ row.rule = r
        BY <1>8, <1>10, <2>1
      <3>2. e \in Mine(row)
        BY <2>1, <2>4, <2>5, <3>1
      <3> QED
        BY <3>1, <3>2
    <2>6. ASSUME NEW row \in PortalRows(sub), row.slug = s, e \in Mine(row)
          PROVE  \E r \in RulesFor(sub, s) : e = r.effect
      BY <1>7, <2>2, <2>4, <2>6
    <2> QED
      BY <2>3, <2>5, <2>6
  <1> QED
    BY <1>6, <1>7, <1>9, <1>10

LEMMA RowsFinite ==
  ASSUME AccessTypeOK, TablesFinite, NEW sub
  PROVE  IsFiniteSet(PortalRows(sub))
  <1> DEFINE live  == {s \in Slug : application[s] # NoApp}
             rules == entitlement \cup {NoRule}
             pairs == live \X rules
             f     == [p \in pairs |-> [slug |-> p[1], rule |-> p[2]]]
             all   == {f[p] : p \in pairs}
  <1>1. IsFiniteSet(pairs)
    <2>1. IsFiniteSet(live) /\ IsFiniteSet(rules)
      BY FS_AddElement DEF TablesFinite
    <2> QED
      BY <2>1, FS_Product
  <1>2. IsFiniteSet(all)
    <2>1. f \in Surjection(pairs, all)
      BY DEF Surjection
    <2> QED
      BY <1>1, <2>1, FS_Surjection
  <1>3. PortalRows(sub) \subseteq all
    <2> SUFFICES ASSUME NEW row \in PortalRows(sub) PROVE row \in all
      OBVIOUS
    <2>1. PICK s \in Slug, r \in entitlement \cup {NoRule} :
            application[s].enabled /\ row = [slug |-> s, rule |-> r]
      BY DEF PortalRows, Applicable
    <2>2. application[s] # NoApp
      BY <2>1 DEF NoApp
    <2>3. <<s, r>> \in pairs /\ f[<<s, r>>] = row
      BY <2>1, <2>2
    <2> QED
      BY <2>3
  <1> QED
    BY <1>2, <1>3, FS_Subset

\* However the rows of one application are ordered, they are together.
LEMMA AnswersTogether ==
  ASSUME NEW rows, rows \subseteq PortalRow, IsFiniteSet(rows), NEW list \in Answers(rows)
  PROVE  /\ list \in Seq(PortalRow) /\ Together(list)
         /\ \A k \in DOMAIN list : list[k] \in rows
         /\ \A row \in rows : \E k \in DOMAIN list : list[k] = row
  <1> DEFINE n == Cardinality(rows)
  <1>1. n \in Nat
    BY FS_CardinalityType
  <1>2. /\ list \in [1..n -> rows] /\ \A row \in rows : \E k \in 1..n : list[k] = row
        /\ \A i, j \in DOMAIN list : i < j => ~Precedes(list[j], list[i])
    BY DEF Answers, Bijection, Injection, Surjection
  <1> HIDE DEF n
  <1>3. DOMAIN list = 1..n /\ \A k \in 1..n : list[k] \in rows /\ list[k] \in PortalRow
    BY <1>2
  <1>4. list \in Seq(PortalRow)
    <2>1. list \in [1..n -> PortalRow]
      BY <1>2, <1>3
    <2> QED
      BY <1>1, <2>1, IsASeq
  <1>5. \A k \in 1..n : list[k].slug \in Nat /\ NameOf[list[k].slug] \in Nat
    <2>1. \A k \in 1..n : list[k].slug \in Slug
      BY <1>3 DEF PortalRow
    <2>2. \A s \in Slug : s \in Nat /\ NameOf[s] \in Nat
      BY AccessAssumption
    <2> QED
      BY <2>1, <2>2
  <1>6. Together(list)
    <2> SUFFICES ASSUME NEW i \in 1..n, NEW k \in 1..n, NEW j \in 1..n,
                        i < k, k < j, list[i].slug = list[j].slug
                 PROVE  list[k].slug = list[j].slug
      BY <1>3 DEF Together
    <2>1. ~Precedes(list[k], list[i]) /\ ~Precedes(list[j], list[k])
      BY <1>2, <1>3
    <2> QED
      BY <1>5, <2>1 DEF Precedes
  <1> QED
    BY <1>2, <1>3, <1>4, <1>6

\* The portal shows an application, once, when decide would let the user in: for
\* any tables, and in whatever order the query answers.
THEOREM PortalAlwaysAgrees == AccessSpec => []PortalAgrees
  <1>1. ASSUME AccessTypeOK, TablesFinite PROVE PortalAgrees
    <2> SUFFICES ASSUME NEW sub \in Sub, NEW list \in Answers(PortalRows(sub)), NEW s \in Slug
                 PROVE  Cardinality({i \in Listed(PortalApps(list)) : PortalApps(list)[i].slug = s})
                          = IF TableSays(application, entitlement, sub, s) = "allow" THEN 1 ELSE 0
      BY DEF PortalAgrees
    <2> DEFINE rows == PortalRows(sub)
               apps == PortalApps(list)
               mine == {i \in Listed(apps) : apps[i].slug = s}
               says == TableSays(application, entitlement, sub, s)
    <2>1. /\ rows \subseteq PortalRow
          /\ \A row \in rows : application[row.slug].enabled
          /\ application[s].enabled => \E row \in rows : row.slug = s
          /\ \A e : application[s].enabled =>
               (e \in Effects(RulesFor(sub, s)) <=> \E row \in rows : row.slug = s /\ e \in Mine(row))
      BY <1>1, RowsAre
    <2>2. IsFiniteSet(rows)
      BY <1>1, RowsFinite
    <2>3. /\ list \in Seq(PortalRow) /\ Together(list)
          /\ \A k \in DOMAIN list : list[k] \in rows
          /\ \A row \in rows : \E k \in DOMAIN list : list[k] = row
      BY <2>1, <2>2, AnswersTogether
    <2>4. apps \in Seq(App) /\ Grouped(list, apps)
      BY <2>3, GroupedRows
    <2>5. says = Verdict(application[s].enabled, Effects(RulesFor(sub, s)))
      <3>1. entitlement \subseteq Entitlement
        BY <1>1 DEF AccessTypeOK
      <3> QED
        BY <3>1, TableSaysIsVerdict DEF RulesFor
    <2>6. application[s].enabled \in BOOLEAN
      <3>1. application[s] \in Application \cup {NoApp}
        BY <1>1 DEF AccessTypeOK
      <3>2. \A app \in Application \cup {NoApp} : app.enabled \in BOOLEAN
        <4>1. \A app \in Application : app.enabled \in BOOLEAN
          BY DEF Application
        <4>2. NoApp.enabled \in BOOLEAN
          BY DEF NoApp
        <4> QED
          BY <4>1, <4>2
      <3> QED
        BY <3>1, <3>2
    <2> HIDE DEF rows, apps, says
    <2>7. ASSUME NEW i \in DOMAIN apps, apps[i].slug = s
          PROVE  application[s].enabled /\ apps[i].rules = Effects(RulesFor(sub, s))
      <3>1. application[s].enabled
        <4>1. PICK k \in DOMAIN list : list[k].slug = s
          BY <2>4, <2>7 DEF Grouped
        <4> QED
          BY <2>1, <2>3, <4>1
      <3>2. apps[i] \in App
        BY <2>4
      <3>3. apps[i].rules \subseteq Effect
        BY <3>2 DEF App
      <3>4. Effects(RulesFor(sub, s)) \subseteq Effect
        <4>1. \A row \in rows : Mine(row) \subseteq Effect
          BY <2>1, MineType
        <4> QED
          BY <2>1, <3>1, <4>1
      <3>5. \A e \in Effect : e \in apps[i].rules <=> \E k \in DOMAIN list : list[k].slug = s /\ e \in Mine(list[k])
        BY <2>4, <2>7 DEF Grouped
      <3>6. \A e : (\E k \in DOMAIN list : list[k].slug = s /\ e \in Mine(list[k]))
                     <=> \E row \in rows : row.slug = s /\ e \in Mine(row)
        BY <2>3
      <3> QED
        BY <2>1, <3>1, <3>3, <3>4, <3>5, <3>6
    <2>8. \A i, j \in DOMAIN apps : apps[i].slug = apps[j].slug => i = j
      BY <2>4 DEF Grouped
    <2>9. CASE says = "allow"
      <3>1. application[s].enabled /\ Verdict(TRUE, Effects(RulesFor(sub, s))) = "allow"
        BY <2>5, <2>6, <2>9 DEF Verdict
      <3>2. PICK k \in DOMAIN list : list[k].slug = s
        BY <2>1, <2>3, <3>1
      <3>3. PICK i \in DOMAIN apps : apps[i].slug = s
        BY <2>4, <3>2 DEF Grouped
      <3>4. mine = {i}
        BY <2>7, <2>8, <3>1, <3>3 DEF Listed
      <3> QED
        BY <2>9, <3>4, FS_Singleton DEF apps, says
    <2>10. CASE says # "allow"
      <3>1. mine = {}
        <4> SUFFICES ASSUME NEW i \in DOMAIN apps, Verdict(TRUE, apps[i].rules) = "allow", apps[i].slug = s
                     PROVE  FALSE
          BY DEF Listed
        <4>1. application[s].enabled /\ apps[i].rules = Effects(RulesFor(sub, s))
          BY <2>7
        <4> QED
          BY <2>5, <2>6, <2>10, <4>1 DEF Verdict
      <3> QED
        BY <2>10, <3>1, FS_EmptySet DEF apps, says
    <2> QED
      BY <2>9, <2>10
  <1> QED
    BY <1>1, AccessTypeCorrect, TablesAlwaysFinite, PTL
=================================================================================
