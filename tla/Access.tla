-------------------------------- MODULE Access --------------------------------
(***************************************************************************)
(* The tables access is decided from -- applications and entitlements --   *)
(* as the management API changes them, and the readers that must agree     *)
(* about them: decide and the explain screen, which read the application   *)
(* and then its rules in two statements of no transaction, and the portal, *)
(* which reads everything in one.                                          *)
(*                                                                         *)
(* A statement is a step; a call that is refused changes nothing and is    *)
(* none.  Every rule here covers the path and has not expired: Policy says *)
(* which do.                                                               *)
(***************************************************************************)
EXTENDS Integers, FiniteSets, SequencesExt

CONSTANTS
  Slug,    \* slugs, as their place in the alphabet
  NameOf,  \* the display name of the application behind each, likewise
  Sub,     \* users
  Group,
  Groups,  \* the groups each user's session names
  MaxId,   \* bound: applications ever created
  MaxEnt   \* bound: entitlements at a time

ASSUME AccessAssumption ==
  /\ Slug \subseteq Nat /\ NameOf \in [Slug -> Nat]
  /\ Groups \in [Sub -> SUBSET Group]
  /\ MaxId \in Nat /\ MaxEnt \in Nat

Null    == 0   \* application_id is null: every application, and those to come
Effect  == {"allow", "deny"}
Subject == ({"user"} \X Sub) \cup ({"ad_group"} \X Group)

\* All of an entitlement is its key (unique nulls not distinct).
Entitlement == [app : 0..MaxId, subject : Subject, effect : Effect]
NoRule      == [app |-> "none"]
NoApp       == [id |-> 0, enabled |-> FALSE]
Application == [id : 1..MaxId, enabled : BOOLEAN]

Outcome     == {"application_disabled", "explicit_deny", "allow", "no_matching_grant"}

VARIABLES
  application,  \* the row of each slug
  entitlement,  \* the rows
  lastId,       \* an id is never given twice
  reader,       \* a reader between its two statements
  answer,       \* what it says of them, on a screen or for a cache entry's TTL
  window        \* history: what was true of the tables meanwhile

accessTables == <<application, entitlement, lastId>>
accessVars   == <<accessTables, reader, answer, window>>

Reads    == {"decide", "explain"}
NoReader == [by |-> "nobody"]
NoAnswer == "none"
Closed   == [seen |-> {}, changes |-> 0, deleted |-> FALSE]

AccessTypeOK ==
  /\ application \in [Slug -> Application \cup {NoApp}]
  /\ entitlement \subseteq Entitlement
  /\ lastId \in 0..MaxId
  /\ reader \in {NoReader} \cup
       [by : Reads, sub : Sub, slug : Slug, id : 1..MaxId, enabled : BOOLEAN]
  /\ answer \in Outcome \cup {NoAnswer}
  \* Two changes are two or more.
  /\ window \in [seen : SUBSET Outcome, changes : 0..2, deleted : BOOLEAN]
  \* The foreign key: a rule names no application, or one that is there.
  /\ \A e \in entitlement : e.app = Null \/ \E s \in Slug : application[s].id = e.app

AccessInit ==
  /\ application = [s \in Slug |-> NoApp]
  /\ entitlement = {}
  /\ lastId = 0
  /\ reader = NoReader
  /\ answer = NoAnswer
  /\ window = Closed

-----------------------------------------------------------------------------
(* What a user is answered.                                                *)

\* applicable!
Applicable(rows, id, sub) ==
  {e \in rows : /\ e.app \in {id, Null}
                /\ \/ e.subject = <<"user", sub>>
                   \/ \E g \in Groups[sub] : e.subject = <<"ad_group", g>>}

Effects(rows) == {e.effect : e \in rows}

\* decide, on a path that every rule covers.
Verdict(enabled, rules) ==
  IF ~enabled THEN "application_disabled"
  ELSE IF "deny" \in rules THEN "explicit_deny"
  ELSE IF "allow" \in rules THEN "allow"
  ELSE "no_matching_grant"

\* The reference: a rule is for a user by name or by a group, and names this
\* application or none.
Concerns(e, id, sub) ==
  /\ e.app = id \/ e.app = Null
  /\ \/ e.subject[1] = "user" /\ e.subject[2] = sub
     \/ e.subject[1] = "ad_group" /\ e.subject[2] \in Groups[sub]

\* What the tables say at one moment.  No row: as if disabled.
TableSays(apps, rows, sub, s) ==
  Verdict(apps[s].enabled, {e.effect : e \in {x \in rows : Concerns(x, apps[s].id, sub)}})

\* A change while a reader is between its statements.
Noted(apps, rows, gone) ==
  window' = IF reader = NoReader THEN window
            ELSE [seen    |-> window.seen \cup {TableSays(apps, rows, reader.sub, reader.slug)},
                  changes |-> IF window.changes = 0 THEN 1 ELSE 2,
                  deleted |-> window.deleted \/ reader.id \in gone]

-----------------------------------------------------------------------------
(* The management API.                                                     *)

\* The slug and the hostname are unique, each slug with one hostname here.
CreateApplication(s, enabled) ==
  /\ application[s] = NoApp /\ lastId < MaxId
  /\ lastId' = lastId + 1
  /\ application' = [application EXCEPT ![s] = [id |-> lastId + 1, enabled |-> enabled]]
  /\ Noted(application', entitlement, {})
  /\ UNCHANGED <<entitlement, reader, answer>>

\* Neither slug nor hostname can be patched.
UpdateApplication(s) ==
  /\ application[s] # NoApp
  /\ application' = [application EXCEPT ![s].enabled = ~@]
  /\ Noted(application', entitlement, {})
  /\ UNCHANGED <<entitlement, lastId, reader, answer>>

\* (Deviation: its entitlements stay.)
DeleteApplicationOnly(s) ==
  /\ application[s] # NoApp
  /\ application' = [application EXCEPT ![s] = NoApp]
  /\ Noted(application', entitlement, {application[s].id})
  /\ UNCHANGED <<entitlement, lastId, reader, answer>>

\* Its entitlements go with it (on delete cascade).
DeleteApplication(s) ==
  /\ application[s] # NoApp
  /\ application' = [application EXCEPT ![s] = NoApp]
  /\ entitlement' = {e \in entitlement : e.app # application[s].id}
  /\ Noted(application', entitlement', {application[s].id})
  /\ UNCHANGED <<lastId, reader, answer>>

\* The application it names is there, and the rule is not.
CreateEntitlement(e) ==
  /\ Cardinality(entitlement) < MaxEnt
  /\ e.app = Null \/ \E s \in Slug : application[s].id = e.app
  /\ e \notin entitlement
  /\ entitlement' = entitlement \cup {e}
  /\ Noted(application, entitlement', {})
  /\ UNCHANGED <<application, lastId, reader, answer>>

DeleteEntitlement(e) ==
  /\ e \in entitlement
  /\ entitlement' = entitlement \ {e}
  /\ Noted(application, entitlement', {})
  /\ UNCHANGED <<application, lastId, reader, answer>>

-----------------------------------------------------------------------------
(* decide and explain.                                                     *)

ReadApp(by, sub, s) ==
  /\ reader = NoReader
  /\ application[s] # NoApp
  /\ reader' = [by |-> by, sub |-> sub, slug |-> s,
                id |-> application[s].id, enabled |-> application[s].enabled]
  /\ window' = [Closed EXCEPT !.seen = {TableSays(application, entitlement, sub, s)}]
  /\ answer' = NoAnswer
  /\ UNCHANGED accessTables

\* No row under the slug: decided as if it were disabled.  The screen says 404.
NoSuchApp(sub, s) ==
  /\ reader = NoReader
  /\ application[s] = NoApp
  /\ answer' = Verdict(FALSE, {})
  /\ window' = [Closed EXCEPT !.seen = {TableSays(application, entitlement, sub, s)}]
  /\ UNCHANGED <<accessTables, reader>>

\* (Deviation: the rules are read whatever application they name.)
ReadRulesAny ==
  /\ reader # NoReader
  /\ answer' = Verdict(reader.enabled,
                      Effects(UNION {Applicable(entitlement, i, reader.sub) : i \in 1..MaxId}))
  /\ reader' = NoReader
  /\ UNCHANGED <<accessTables, window>>

\* By the id the first statement found.
ReadRules ==
  /\ reader # NoReader
  /\ answer' = Verdict(reader.enabled, Effects(Applicable(entitlement, reader.id, reader.sub)))
  /\ reader' = NoReader
  /\ UNCHANGED <<accessTables, window>>

\* QUERY_TIMEOUT, or a store that is down: nothing is answered from half.
ReadFails ==
  /\ reader # NoReader
  /\ reader' = NoReader
  /\ window' = Closed
  /\ UNCHANGED <<accessTables, answer>>

AccessNext ==
  \/ \E s \in Slug : \/ UpdateApplication(s) \/ DeleteApplication(s)
                     \/ \E enabled \in BOOLEAN : CreateApplication(s, enabled)
                     \/ \E sub \in Sub : \/ NoSuchApp(sub, s)
                                         \/ \E by \in Reads : ReadApp(by, sub, s)
  \/ \E e \in Entitlement : CreateEntitlement(e) \/ DeleteEntitlement(e)
  \/ ReadRules \/ ReadFails

AccessSpec == AccessInit /\ [][AccessNext]_accessVars

-----------------------------------------------------------------------------
(* The portal's list.                                                      *)

\* A row of the left join for each enabled application and rule that applies,
\* or one for an application without.
PortalRows(sub) ==
  LET enabled == {s \in Slug : application[s].enabled}
      rules(s) == Applicable(entitlement, application[s].id, sub)
  IN UNION {{[slug |-> s, rule |-> r] : r \in IF rules(s) = {} THEN {NoRule} ELSE rules(s)} : s \in enabled}

\* (Deviation: applications of one name are not told apart.)
PrecedesByName(x, y) == NameOf[x.slug] < NameOf[y.slug]

\* order by name, slug
Precedes(x, y) ==
  \/ NameOf[x.slug] < NameOf[y.slug]
  \/ NameOf[x.slug] = NameOf[y.slug] /\ x.slug < y.slug

\* The answers the query may give: how two rows of one application are ordered
\* is not said.
Answers(rows) ==
  {list \in Bijection(1..Cardinality(rows), rows) :
     \A i, j \in DOMAIN list : i < j => ~Precedes(list[j], list[i])}

\* Consecutive rows of one slug are one application.
PortalApps(list) ==
  FoldLeft(LAMBDA apps, row :
             LET mine == IF row.rule = NoRule THEN {} ELSE {row.rule.effect} IN
             IF apps = <<>> \/ Last(apps).slug # row.slug
             THEN Append(apps, [slug |-> row.slug, rules |-> mine])
             ELSE [apps EXCEPT ![Len(apps)].rules = @ \cup mine],
           <<>>, list)

\* Those of them that are shown.
Listed(apps) == {i \in DOMAIN apps : Verdict(TRUE, apps[i].rules) = "allow"}
-----------------------------------------------------------------------------
\* decide and explain read the application and its rules in two statements of no
\* transaction.  With at most one change in between, and the application not
\* deleted, the answer is still what the tables said at one moment of it, never a
\* mixture of two.  (An update and a grant in between, or a deletion, can give an
\* answer that was never true.)
AnswerFromTheTable ==
  answer # NoAnswer /\ window.changes <= 1 /\ ~window.deleted =>
    answer \in window.seen

\* portal.rs: the list shows an application, once, exactly when /decide would let
\* the user in at its root, whatever the names are and however rows are ordered:
\* rows of one application must come one after the other to be judged together.
PortalAgrees ==
  \A sub \in Sub : \A list \in Answers(PortalRows(sub)) :
    LET apps == PortalApps(list) IN
    \A s \in Slug : Cardinality({i \in Listed(apps) : apps[i].slug = s})
                      = IF TableSays(application, entitlement, sub, s) = "allow" THEN 1 ELSE 0
=============================================================================
