# OpenBerat: a verification project

OpenBerat is an identity-aware proxy. nginx asks a Rust backend about every
request (`/decide`), the backend asks oauth2-proxy who is calling, loads the
rules from Postgres, decides, and remembers the identity and the rules for
30 s. This directory holds TLA+ models of its core, the TLC runs that check
them, and TLAPS proofs about them. Paths below are relative to the repository's
root; `session.rs` stands for `backend/src/session.rs`, and so on.

## 1. The system

| Component | State it keeps | Operations | Talks to |
| --- | --- | --- | --- |
| Kill switch, logout, session index (`session.rs`, `admin.rs` kill, `portal.rs` logout, `api.rs` indexed) | Redis: `openberat:sessions:<sub>` sets and their lives, oauth2-proxy's session keys; an invalidation channel | record, sessions, drop_sessions, publish_invalidation, forget, forget_session; kill; logout; the subscriber task with its heartbeat | Keycloak (logout_all), oauth2-proxy (sign_out), every instance's cache |
| Decision cache (`cache.rs`) | entries with counters, `by_sub`, sixteen fill locks, the `subscribed` flag | get, fill_lock, insert, count, sweep, drop_sub, flush_all, set_subscribed | the audit channel |
| `/decide` (`decide.rs`) | nothing of its own | look, lock, look again, authenticate, index, load, insert, answer | all of the above |
| Policy (`policy.rs`, `validate.rs`) | none, pure | normalise, readings, decide, explain, may_reset_second_factor, the checks of typed fields | `/decide`, explain screen, management API |
| nginx publisher (`nginx.rs`, `40-generated-reload.sh`) | generated files in a shared volume | publish_conf, stage, install_staged, the reload loop | Postgres, nginx |
| Audit trail and retention (`store.rs`, `main.rs`) | a bounded channel, `audit_event` and its partitions | record, write_audit, maintain_audit, shutdown | Postgres |
| Management API (`admin.rs`) | Postgres rows | applications, entitlements, reset_second_factor, list_users | publisher, Keycloak |
| Screens (`portal.rs` apps, `audit.rs`) | none | the portal's list, explain, list_audit, list_sessions | Postgres, Redis |
| Keycloak client (`keycloak.rs`) | none | target, delete_otp, logout_all, directory lists | Keycloak |
| Metrics, frontend, proxy configuration | counters; none; none | | |

### What is hard in it

* Revocation is spread over a fleet. Redis pub/sub does not replay; an instance
  learns that it missed something only from its heartbeat; the kill switch is
  five remote calls, each of which can fail, or work and fail to say so, or be
  the last thing the process does.
* A `/decide` miss spans four awaits. What oauth2-proxy vouched for at the
  second may be deleted before the fourth, and what the third reads of the
  tables is two statements of no transaction.
* The cache takes snapshots of keys under one lock and acts on them under
  others, and an entry carries decisions that exist nowhere else: from the answer
  to the row they pass through counters, a flush, a channel that may be full and
  an insert that may fail, in a process that may be told to stop.
* The publisher and the reloader share files without a lock.
* Retention runs in every instance at once, over rows that arrive and a pager
  that reads them.
* A second-factor reset is judged on two reads of a directory that others
  change, and deletes what a third one listed.
* What an administrator types is checked by hand, checked again by the schema
  and by the renderer, and rewritten on the way.

`PROJECT.json` lists each of these as hazards at their lines.

## 2. Modules

| Module | What it is |
| --- | --- |
| `KillSwitch` | The fleet: sessions and index in Redis, the identity provider's sign-on, each instance's cache (as revocation sees it), its subscriber, and the misses, `/api` calls, kill switches and logouts in flight |
| `Revocation` | The abstract promise: a dead session never reaches another instance and never comes back |
| `AuditLedger` | The abstract promise of the audit trail: a decision is pending until its row is written or counted as dropped, or both if the insert's answer was lost; only a killed process loses any |
| `SessionIndex` | How long a user's index set and the sessions in it live; `record`'s two commands |
| `DecisionCache` | The inside of one instance's cache: requests, locks, entries, counters, jobs |
| `AuditTrail` | From the answer to the row: tallies, flushes, the channel, the writer, shutdown, kill, restart |
| `AuditTable` | The partitions under the retention passes of several instances, and the pager of the audit list |
| `Access` | Applications and entitlements under the management API; `/decide`'s, explain's and the portal's reads of them |
| `SecondFactor` | `reset_second_factor`, request by request, against a directory that changes |
| `ConfPublish` | Concurrent `publish_conf` calls, the files of the shared volume, the reload loop, nginx's reload, start and restart |
| `Policy` | The verdict on a path: the functions of `policy.rs` and `validate_path_pattern` |
| `Registration` | From the typed fields of an application to its row and its server block |
| `MCKillSwitch`, `MCDecisionCache`, `MCAuditTrail`, `MCConfPublish`, `MCPolicy`, `MCStores` | Small instances for TLC. `MCStores` puts `Access`, `AuditTable`, `SessionIndex` and `SecondFactor` side by side |
| `KillSwitchProofs` | The types and safety properties of `KillSwitch`, and that it implements `Revocation` |
| `DecisionCacheProofs`, `ConfPublishProofs` | The invariants of those two |
| `AuditTrailProofs` | The invariant of `AuditTrail`, and that it implements `AuditLedger` |
| `PostgresProofs` | The invariants of `Access` and `AuditTable`, whose state Postgres keeps |
| `ExternalStoreProofs` | The invariants of `SessionIndex` and `SecondFactor`, whose state Redis and Keycloak keep, and the types of all four in `MCStores` |
| `LeftFold` | What a fold over a sequence computes, for any operator, and induction over numbers and sequences |
| `PolicyProofs` | What `decide` does with any rules and paths, and `MCPolicy`'s properties for paths and texts of any length |

How they fit. `KillSwitch` takes `Drop` for one atomic step. In the code
`drop_sub` is a snapshot and then one critical section per key; `DecisionCache`
models that, and its `DropsWhatWasThere` is what makes the abstraction right:
when the drop returns, every entry that was there when it began is gone. The same
property, for `set_subscribed(true)`, makes `FlushGap` right. `KillSwitch` takes
an index entry to stay until somebody deletes it; `SessionIndex` says when that is
so (`RecordedIsFindable`). `DecisionCache` ends where a row is handed over, and
`AuditTrail`, where an entry is no more than its tallies, begins there;
`AuditTable` has the row from its insertion on. `Access` takes every rule to
cover the path, `Policy` says which do; `ConfPublish` takes a rendering for a
version of the table, `Registration` says what is rendered of a row.

### KillSwitch: state and steps against the code

* `live`, `born`: session keys in Redis, and those ever created. A key is random
  and is created once, so `born` only grows. oauth2-proxy's refresh, which saves
  a session under the same key, is taken never to bring a deleted key back: a
  deletion between its read and its save is oauth2-proxy's own business and its
  code is not in this repository.
* `sso`: browsers whose sign-on at Keycloak would answer a login silently.
  `KillLogoutAll` clears the user's, `LogoutSignOut` this browser's.
* `index`: the union of the index sets. A session belongs to one user, so one
  set of sessions says the same as a set per user.
* `sub`, `wire`, `inbox`, `subscribed`: the subscriber task of an instance.
  `Join` is `SUBSCRIBE` acknowledged; `FlushGap` and `RaiseFlag` are the two
  halves of `set_subscribed(true)`; `Deliver` is one message read; `WireBreaks`
  is the link dying, with any part of what had arrived still readable;
  `NoticeLoss` is the stream ending or the heartbeat timing out. A heartbeat
  that times out on a healthy link is a `WireBreaks` followed by a `NoticeLoss`.
  An inbox is a set: two invalidations of one subject drop the same entries.
* `miss`: the miss of an instance for a session, one at a time, which the fill
  lock ensures (`DecisionCache`). Applications are left out: one application's
  entry stands for a session's entries.
* `cache` remembers whether the session was alive when its entry went in. This
  is history, read by no guard: `cache[i][s] # "none"` is all the code knows.
* `kill`, `logout`: program counters with what a call carries across awaits, and
  at the end how it went: a 200, a 503 that names the publish (`unpublished`) or
  the last step (`unforgotten`), both after the local drop, or anything before it
  (`failed`). `Then` is the order of a kill switch's first steps. A
  remote call whose effect happened and whose answer was lost is the step
  followed by `KillStops`; the publish has its three outcomes spelled out because
  the code goes on after a failed one.
* `Crash` takes an instance's memory and its calls. What was written stays.

The history variables (`granted`, `announced`, `orphaned`, and `excused` and the
freshness of an entry) are written and never read by a guard.

### SessionIndex: state and steps against the code

One user's set, which is enough: `record` touches no other. `Sadd` and `Expire`
are its two commands; `RecordFails` is either failing, its effect done or not,
and the request refused; several misses of the user may be between the two.
`ClockTicks` ends what has come to its end, sessions and set. `SignIn` stores a
session, anew or as a refresh, for `cookie_expire`. `cut` and `behind` are history:
the set may end between `SADD` and `EXPIRE`, and `EXPIRE`, whose result says so,
is not looked at; such a session is found again after its next miss.
`INDEX_TTL >= cookie_expire` is the assumption the comment at `INDEX_TTL` states.

### DecisionCache: state and steps against the code

A step is one critical section of `inner`'s mutex, or what a request does between
awaits. `get` reads the subscription flag before it takes the mutex; the two are
one step here, since a flag that falls in between is one that the request could
have read the moment before. `Arrive` is the first `get`; `Acquire` the fill lock and the second
`get`; `Insert` the whole of `insert` with its replacement and eviction, all
under the mutex; `Count` the whole of `answer`. `Begin` takes a snapshot;
`Evict` removes one key of it under the mutex; `Flush` hands the rows over
after. Counters are sets of requests, each of which is decided once, so
"counted once" can be said at all. Ages stop at the TTL, which makes all
expired entries equally old; the oldest entry is chosen among those with the
greatest age, so equal clock readings and expired entries are covered by more
choices than the code has.

Requests with no session cookie have no key; they are refused before an answer
(`session_key` fails) and are left out. So is a crash: the process's memory goes
with it, which docs/02 accepts.

### AuditTrail: state and steps against the code

A row is the set of the decisions it summarises, so that a row written twice, or
a decision in two rows, can be told. A remover is whoever takes entries out of
the cache: the sweeper, the subscriber, a request's insert, and `flush_all`.
`Collect` is its snapshot, `Evict` one entry under the mutex, `Record` one
`try_send`, which drops and counts the row when the channel is full. At shutdown
`main` flushes, then lets go of its sender (`LetGo`); a task lets go of its own
when it is aborted at its next await, which is never inside a sweep or a drop
(`TaskEnds`); the writer comes to its end when the channel is empty and no sender
is left (`Drained`). `Killed` is `SHUTDOWN_DRAIN` being over, or the end of the
process at any moment. `flush_all` may hand over more rows than `AUDIT_QUEUE` has
places for; those are dropped, and counted, as at any other time.

An insert whose answer never comes may have been done. `InsertFails` counts the
row as dropped (`store.rs:335`) and leaves it in the table or not; `Killed` does
the same with the row that was being inserted. Postgres may do it a little after
the answer was given up; the model does it in that step, which nothing in the
process could tell. So `AUDIT_DROPPED` may count a row that is in the table, but
what is in no row of the table was counted, or was in a process that was killed.
Only one request at a time is an evicting one: each has its own rows in hand, and
tasks and `main` are three other hands already.

### AuditTable: state and steps against the code

A statement of `maintain_audit` is a step, and any of them may be the last
(`EndPass` with no success): a lock not granted, a store that is down, the first
pass's timeout. `month` is the instances' clock and the database's. A row is in
its month's partition, or in the default one if the month had none when it came
(`stray`); `CreatePart` cannot make a partition over rows the default one holds,
which is Postgres' rule. `ListParts` reads the names, `DropPart` drops one,
which another instance may have dropped already (`EndPass`, an error), and
`DeleteStray` is the last statement. The pager is the `id < cursor` query:
`OpenAudit` asks without a cursor, `ShowPage` shows a page and remembers its last
row, `CloseAudit` meets an empty one. `due`, `shown` and `twice` are history.

### Access: state and steps against the code

A statement is a step. `ReadApp` and `ReadRules` are the two statements of
`rules_for` and `traced_rules_for`; between them the management API changes the
tables. `window` is history: what the tables would have answered at each moment of
the read, how many changes there were, and whether the application went.
`DeleteApplication` takes its rules along (the foreign key's cascade).
`PortalRows` to `Listed` is the portal's one statement: the left join's rows, in
any of the orders that `order by a.name, a.slug` allows (`Answers`: two rows of
one application come either way round), folded neighbour by neighbour as
`portal_apps` does.

### SecondFactor: state and steps against the code

`Resolve` is the guard with the target's name resolved; `ReadGroups` a page of at
most `GROUPS_READ` groups; `Judge` the count and `may_reset_second_factor`;
`ListOtp` and `DeleteOtp` what they say, one credential at a time. `ResetStops` is
any request failing, a delete whose answer is lost and one of a credential that
another call has deleted among them: the call ends there, with no ok. `Regroup` and `Enrol`
are others at work at Keycloak. `privileged` and `moved` are history: whether
the target was privileged when its groups were read, and whether the groups
changed between the page and the count.

### ConfPublish: state and steps against the code

`db` is the version of the application table, and a version also stands for
what `render_apps_conf` and `render_breakglass_conf` make of it. `file[f]` has
the four names of the volume: `f.writing`, `f.staged`, `f` (`"live"`) and
`f.bak`. `fs::write` is two steps, the open that creates or truncates and the
write of the body, because another call may come between them; a handle keeps
pointing at its file when the file is renamed (`Follow`). `Change` is a
handler's commit and the beginning of its publish, `Republish` that of a
starting backend. `PublishFails` is an error, a rename whose file somebody
moved away, or the end of the process; it may leave part of a body, and it may
come after the first of the two files is out.

The loop's steps are the commands of `install_staged`, one each, for the two
names in turn. `Accept` and `RollBack` are `nginx -t` with what follows its
verdict. `Reload` comes some time after its signal and reads the file that is
live then. A container starts in three steps (`Restart`, `Start`, `Serve`),
since the loop is started first and may install, and signal a process that
is not there yet, in between. `Parses` is external: which versions nginx refuses
is the constant `Bad`. A `cp` or `mv` of the script that fails, on a full volume
say, is not modelled.

`cut`, `shared` and `overtaken` are history; they say which race happened, so
that the properties can say what holds but for it.

### Policy and Registration: what the functions compute

A path is a sequence of characters, one per character that arrives, where an
escape is one character until it is decoded. The alphabet has what the code tells
apart: `/`, `\`, `.`, `;`, `?`, `#`, `%`, a letter in both cases, another letter,
and their escapes; everything that decoding refuses is one character (`%zz`).
`Refused` is the empty sequence, which is no path. The three readings are a set:
`decide` takes an explicit deny of any, then any other denial, and those are all
the same one. `expires` is a set of at most one instant, as `Option` is. The
functions have no state; `MCPolicy` makes each question to `decide` a state, and
keeps the reference definitions the properties compare with (`Under`, a prefix of
segments; `Served`, what each upstream of ADR-0037 makes of the request).

`Registration` has a slug and a hostname as characters, because labels are about
them, with the reserved word one character, and a URL as its parts. The
schema's CHECK constraints are translated from their regular expressions, apart
from the Rust checks, so that `SchemaAgrees` compares two things.

## 3. Runs

| Run | Instance | Shows |
| --- | --- | --- |
| `KillFleet` | 2 instances, 1 session, 1 kill switch | `AnnouncedIsCut`, and the refinement `DeadNeverSpreads` |
| `KillIndex` | 1 instance, 2 sessions of 1 browser, 1 kill switch, 1 logout | `GrantedIsFindable`, `KilledStaysOut` |
| `KillEnds` | 1 instance, 2 users, 1 session, a kill switch and a logout | `TypeOK`, `LocalIsCut`; `AnnouncedStops`, `DeadFades`, each under its own fairness |
| `KillForgets` | 1 instance, 2 sessions, 1 kill switch | a violation: see Findings |
| `CacheSafety` | 4 requests, 3 keys, 2 subjects, 2 locks, bound 2, TTL 1, 1 dropper | `TypeOK`, `CountedOnce`, `OneRefresh`, `DropsWhatWasThere`, `HeldAtWork` |
| `AuditTrail` | 3 decisions, 2 tallies of 1 entry, a channel of 1 row, fair tasks | `TypeOK`, `PlacedOnce`, the refinement `Accounted`, `DrainEnds`, `Settles` |
| `Stores` | `Access` with 2 applications of one name, 2 rules, 1 user; `AuditTable` with 2 instances, 3 rows, 3 months, pages of 1; `SessionIndex` with 2 sessions, 2 misses, 6 ticks; `SecondFactor` with 2 users, 3 groups, 2 calls, 2 credentials, pages of 1 | `TypeOK`, `AnswerFromTheTable`, `PortalAgrees`, `KeptLongEnough`, `PassCleans`, `PagesExact`, `RecordedIsFindable`, `NoPrivilegedReset`, `OkMeansGone`, `NewFactorStays` |
| `ConfOne` | 1 publisher, versions 0 to 2 with 1 refused, 1 restart, fair loop | `TypeOK`, `LiveParses`, `NeverBack`, `StagedIsSettled` |
| `ConfTwo` | 2 publishers, versions 0 to 2 with 1 refused | `WholeUnlessShared`, `RunsTheTableUnlessRaced` |
| `ConfHalf` | 2 publishers, versions 0 and 1 | a violation: see Findings |
| `ConfRestart` | 1 publisher, version 1 refused, 1 restart | a violation: see Findings |
| `PolicySmall` | paths of 3 pieces of 42 kinds, up to 2 rules of 18 kinds; typed texts of up to 5 characters | `OneReading`, `AllowedEverywhere`, `GrantIsShown`, `StoredRuleWorks`, `SchemaAgrees`, `AcceptedIsServed` |

### Why the bounds are enough

`KillFleet` needs two instances, since a publish that reaches one and not the
other is the case; sessions do not interact through the caches, so one is
enough there. `KillIndex` is about Redis and Keycloak, where instances do not
interact; it needs two sessions, and of one browser, so that the second sign-in
may ride on the first one's sign-on. It explores instances whose subscriber never
joins (`NeverSubscribed`), where every request is a miss, so each interleaving of
writes is reached, and ignores the caches when it compares states (`RedisView`),
which no guard left reads. `KillEnds` has a user with no session too, whom the
kill switch may name, so that it must leave the other's alone; an instance's
own drop does not depend on the others. The properties that need more than one
of everything at once are proved (section 5). `CacheSafety` has a key with two
requests (single flight), a subject with two keys (a drop of several), a second
subject, and a bound lower than the number of keys.

`AuditTrail` has an entry with two rows to give, one of them with two decisions, so
that one flush meets a full channel with the other half, and a request may put the
entry back while the sweeper still has its key; the process may be shut down,
killed and started again at any point. Several entries at once are `CacheSafety`'s,
and for the audit trail are proved.

`Stores` is four specifications side by side: they share no variable and no
action, a behaviour moves in one of them, and every state of each is visited (no
product of them). Two applications of one name are what the portal's order must
tell apart; two rules what a mixture of two reads needs; two passes and three
months what one instance's drop under another's list needs, with rows in the month
of the cutoff, before and after it; pages of one row make three pages; six ticks
are three lives of a session, which is renewed in between; two misses are two
`record`s between whose commands a set ends; of three groups, two privileged, a
page holds one. The pairs of names that may be exchanged in all four are
symmetric (`StoreSymmetry`).

In the `Conf` runs two calls are enough, since a call has one rival per name;
three versions give a good one on each side of a refused one; a second restart
finds the volume as the first did. `ConfTwo` does not go on from a state where
two calls have shared a name (`NotShared`): there its properties allow anything,
for good.

`PolicySmall` stops where its inputs end (`CHECK_DEADLOCK FALSE`). Two pieces and
a rule already make the readings differ on the two sides of a rule; three pieces
add a segment before or after; two rules are what an order needs. The instant of
the question is 1, and rules end never, at 1 and at 2, so the boundary is hit.
Five characters make two labels and a separator at each place it may be wrong.

Otherwise nothing can deadlock: a process may always crash or lose its
subscription, and the reload loop always polls, so deadlock is checked and never
found.

### Fairness

* `Delivery`: the subscriber loop is one task that always has a next read,
  heartbeat or retry (`session.rs`, `subscribed`). It is weakly fair to each
  waiting message and to noticing a dead link. Nothing is assumed of Redis:
  the link may never come back.
* `Expiry`: an entry is removed by the sweep, every 5 s; a miss ends, by its
  own timeouts (`api.rs`, `AUTH_TIMEOUT` and the pool's). `KillEnds` takes neither
  for the whole: each property names the one it needs.
* `AuditTrail`: what a flush has taken out it hands over; the writer receives and
  its insert ends, one way or the other; an aborted task ends; main lets go. The
  sweeper is strongly fair to each entry: an entry may leave by other roads and
  come back, but one that stays has expired when a later tick comes, and that
  tick's snapshot has it. Nothing is assumed of shutdowns, of restarts, or of
  inserts succeeding.
* `ConfPublish`: the loop goes round for as long as the container lives. Nothing
  is assumed of publishers, of restarts, of nginx answering its signal.

That a waiter gets its fill lock is tokio's mutex, served in order, and that its
holder is at work, which is safety: `HeldAtWork`.

Nothing is assumed of users, of the caller of a kill switch, of Keycloak.

## 4. Findings

* `KillForgets`. The last step of a kill switch deletes the user's whole index
  set. A session recorded since the step that read the set is in it, is alive,
  and is forgotten: until its next miss or `/api` call no kill switch finds it.
  `decide.rs:132` says such a session "must not gain access". `GrantedIsFindable`
  states what does hold: these are the only living sessions that are answered
  and not indexed.
* `ConfHalf`. All calls write to one temporary name. Two at once, and the
  rename of one can publish the file that the other has just truncated: an empty
  file, which nginx accepts and which takes every application away. The comment
  at `nginx.rs:64` excludes half a file. `WholeUnlessShared` states what holds.
* `ConfRestart`. The script moves the file to its live name before `nginx -t`
  has seen it. A container stopped there starts on an untested file, and does not
  come up if nginx refuses it. `LiveParses` states what holds.

Three more disagreements were met and have no run of their own:

* `validate_upstream` judges a URL as it is parsed, with its scheme in lower case
  and the blanks gone, and the row is stored as it was typed (`admin.rs:439`). The
  table's CHECK (`0001_init.sql:30`) is on the text: `HTTP://…`, or a blank at the
  end, is accepted and then answered 503, where `validate.rs:143` says the checks are
  in the API so that a refusal is not read as an outage. `AcceptedIsServed` states
  both halves: the table refuses every such URL (`dressed` in `Registration`), and
  nothing else that is accepted.
* Nothing orders two calls between reading the table and renaming its rendering. Of
  two that both answer "staged" the one with the older rows may be last, and nginx
  serves those until somebody publishes again; `nginx.rs:24` has it that the file is
  a function of the table. `RunsTheTableUnlessRaced` and `NeverBack` state what
  holds: these races apart (`overtaken`), nothing loses a version.
* `docs/02-architecture.md:263` has it that a user who only visits the portal never
  enters the kill switch's index. The middleware of `/api` puts him there
  (`api.rs:198`, `ApiRecord`), as line 162 of the same document says.

These windows are named in the properties, which excuse them, rather than shown by
a run of their own:

* A miss that oauth2-proxy answered before a kill switch's deletion inserts its
  entry after the drop (`admin.rs:112`; docs/05 lists the refill as closed).
  `AnnouncedIsCut` is about entries from before, `DeadNeverSpreads` about the
  misses that remain, and `DeadFades` says that they end.
* `rules_for` reads the application and its rules in two statements of no
  transaction. With two changes between them, or the application's deletion, the
  answer may be one the tables never gave. `AnswerFromTheTable` says when it is not.
* The set may end between `SADD` and `EXPIRE`, whose result is not read: the
  request is answered with its session in no set until its next miss
  (`behind` in `SessionIndex`).
* Groups that change between the page and the count can make the two agree
  (`moved` in `SecondFactor`).

## 5. Proofs

Each theorem holds for every value of the module's constants, under the one
assumption the module names. A module's properties follow from one inductive
invariant, `IInv` (`AccessInv` and `TableInv` in `PostgresProofs`; `IndexInv`,
`ResetInv` and, for the four side by side, `StoresInv` in `ExternalStoreProofs`).

* `KillSwitch` (each session has a user and a browser). `TypeCorrect`: `TypeOK`, with
  a kill switch having read no session but its user's, is inductive by itself. `AnnouncedIsCutAlways`, `LocalIsCutAlways`: neither is
  inductive, since a fresh entry could be put back for a session that comes alive
  again, and a message could be sent before its reader is there to hear it. The
  invariant adds `Known` (whatever the index, the misses and the calls
  remember was created: needed because a session is created once), `Dead` (what a
  call past its deletion carries, and what was announced, is not alive, and so
  never will be), and `Cut` (the flag is up only while the task reads, and already
  from the flush on, an instance with an entry from before an announced deletion
  has the message or a dead link). `Cut` starts at the flush and not at the flag:
  that is why the code subscribes first, flushes second and raises the flag third.
  `GrantedIsFindableAlways` is about requests that have been answered, so the
  invariant has it of those past their index write too (`Found`).
  `KilledStaysOutAlways` is about calls that have ended; `Excused` has it from
  `SMEMBERS` on: a living session that was not read was hidden then, or had a password
  typed since the call began. And from the Keycloak step on a browser that could be
  signed in silently has had one typed, so no other session can still come: that
  is why the sign-on ends before the sessions are read. `LocalIsCut` is inductive
  with `Dead`: after the drop a fresh entry would need a living session, whatever
  the publish answered.
  `Refines`: `KillSwitch` implements `Revocation`. Only `MissVerify` adds an
  instance to those a session reaches, and only for a living session; sign-ins
  open, deletions close, everything else loses ground or stutters.
* `DecisionCache` (every key has a subject and a lock, the capacity is at least
  one). `DropsAreComplete` needs that the reverse index is exact
  (`BySubExact`): it is where `drop_sub` takes its snapshot from. `AlwaysOneRefresh`
  counts insertions over an entry that could still be served; it needs that who
  is filling has the lock (`FillsHold`) and found no such entry under it
  (`RefillsServe`: `filling` means none has been put in since it expired).
  `AlwaysCountedOnce` counts places; the invariant says which place it is
  (`OnePlace`), with no two removers holding one decision (`OneHand`). That the map
  stays within its bound is `Bounded`, from the cardinality of what an eviction
  leaves.
* `AuditTrail` (a tally for each decision, a channel of at least one row).
  `AlwaysPlacedOnce` again is `OnePlace`, over four places in memory and the rows
  that have left it, with no decision in two rows of one place (`OneHand`, `OneSlot`,
  `OneRow`) and no row counted twice (`OneCount`). A row may be in the table and
  counted as well, so it is rows that are counted, not the sets they are in. The shutdown needs `Phases`: what an
  aborted task had in its hands would be in none of them, so no task has let go
  of its sender while the process serves, who has let go has nothing in hand, and
  what is in the cache after the stop is in `flush_all`'s snapshot. The writer
  cannot end with rows left because of that, and only `Killed` loses any.
  `ImplementsLedger`: `AuditTrail` implements `AuditLedger`, whose `written` is what
  is in the table's rows and whose `up` is that the process has not ended. An
  `Insert` is a `Write` and a full channel or a failed insert a `Drop`, of rows
  that `OneSlot` says are pending, which the ledger, too, may write as it drops; a
  kill is a `Crash`, which may write one row of what it loses (`HeldOnce`); `Drained` is a `Stop` because `Phases` leaves
  nothing anywhere else; every other step answers, ends, starts or stutters.
* `ConfPublish` (there is a publisher; the empty table parses; a version is not
  mistaken for other content). `ConfTypeCorrect`: the types, and that the file which
  `install_staged` has seen is there until its `mv`. The code holds no lock, so the invariant is in three
  parts under the histories that say what has gone wrong so far. With no name shared, one publisher at a time is
  at a name and finds there what it wrote (`Alone`), and what is past that name is
  a whole rendering (`Whole`). With no restart inside a test either, what nginx
  would start on or go back to parses (`Sound`). With nothing overtaken as well,
  the backup is no newer than the file, nor that than the staged one (`Ordered`),
  the table has reached the files or a call is still to bring it (`Arrived`), and
  nginx has it or has been told (`Told`, `Floor`): from these `RunsTheTable` and
  `NeverGoesBack`.
* `SessionIndex` (`INDEX_TTL` is at least `cookie_expire`). `RecordedIsFindable`
  says nothing of how long the set will last, so the invariant adds that it
  outlives each session recorded in it (`Outlived`), which needs that no session
  outlives a renewal now (`UntilBound`: this is where the assumption is used), and
  that between the commands the key is still there (`AddedStays`).
* `SecondFactor` (a page holds at least one group, groups are finitely many). A
  call's history says whether the groups it read are the ones there are; while
  they are, a page as large as their count is all of them (`WholePage`, from the
  cardinality of a subset): that is what `may_reset_second_factor` is judged on,
  and from it `NeverAPrivilegedReset`. `OkMeansItIsGone` needs that what is listed
  and is no longer left to delete is gone (`CallOK`), and that an id is never used
  again. `NewFactorAlwaysStays` is an action property: what a step takes from a
  user's factors, a call at work on that user had listed.
* `Access` (slugs and names have an order, users have groups). The answer of two
  reads is one the tables gave: before any change the application is as it was
  read (`AsRead`), and what the reader would answer now was true when the rules last
  changed, or at the start (`PendingWasTrue`). That the query selects the rules the
  reference means is `ApplicableIsConcerns`.
  `PortalAlwaysAgrees`: in every answer the rows of one application are next to one
  another (`AnswersTogether`: names and slugs are ordered, and the slug is that of
  one application), so that each application is begun once and has, when it ends,
  the effects of all its rows (`GroupNew`, `GroupMore`, by induction over the
  answer). That there is an answer at all to count in needs that the tables are
  finite (`TablesFinite`), which is an invariant of its own: a call adds one row.
* `AuditTable` (at least a month of retention and a row in a page). What a pass is
  going to drop has expired, and what has expired and is in a partition it is
  going to drop (`ListIsExact`), whatever other passes create and drop, since no
  row is of a month to come (`MonthsPast`): from that `KeptLongEnough` and
  `PassCleans`. The rows shown are above the cursor (`ShownAbove`), and a page is
  all there is between its last row and the cursor (`PageFacts`, from the
  cardinality of what is above a row): from that `PagesExact`.
* `MCStores` (the four assumptions together). `StoresTypeCorrect`: a step of
  one part leaves the variables of the others, so the four invariants hold of the
  four side by side, and each has its type.
* `Policy`, the verdict. Whatever the readings are, `decide` asks all of them, and
  the first is the path that `explain` shows (`NormalisedIsAReading`). From that
  `GrantIsAlwaysShown`, and three facts for any rules and paths: the order of the
  rules and a rule that comes twice decide nothing (`OrderDecidesNothing`; the
  query of `rules_for` has no order), a deny more or a grant fewer lets nothing
  through (`NoRuleWidens`), and one live deny on one reading refuses
  (`DenyOverrides`).
* `Policy`, the paths (no assumption). `Split`, `Kept` and `Join` are folds over a
  sequence. A fold is a function on sets of indices that the library chooses by its
  recursion; `LeftFold` proves that there is one, that it starts where it should
  (`FoldEmpty`) and takes one step for each element (`FoldAppend`). Induction over
  sequences is a statement about sets (`Appending`: a set that has the empty
  sequence and is closed under `Append` has all of them), proved from the library's
  `WFMin`, so that no theorem with an operator for a parameter is needed. On
  these two stands the rest.
  `AlwaysAllowedEverywhere`: the code compares texts (a prefix, and then a slash or
  the end), the reference compares segments. `MatchesBySegment` says they agree for
  a path that begins with a slash; it needs that joining what a split made gives
  the text back (`JoinSplit`), and that a split of a text with a slash in it is the
  splits of its halves (`SplitConcat`). What an upstream would serve is a reading,
  and begins with a slash.
  `AlwaysOneReading`: where nothing decodes to a slash, a dot or a percent sign,
  decoding does not change which segments there are (`SplitDecode`), which of them
  are kept (`KeptDecode`), nor what is joined (`JoinDecode`), so that it may come
  before or after (`ResolveDecode`); with no `;` there is nothing to cut
  (`NoParameters`). `PlainPathsReadOneWay` has it over any set of characters.
  `AlwaysStoredRuleWorks`: a pattern that is stored is what `normalise` leaves
  alone, so it has no escape and no dot segment (`NormalFixed`), and the path right
  below it is resolved as it stands (`ResolveBelow`): the path is one of its own
  readings, which the pattern matches, and the only one unless it has a `;`
  (`StoredPath`, `StoredMatches`). The group is one of the labels between the commas (`Between`), and has
  nothing left to trim (`TrimTwice`).
* `Registration`, the labels. `SchemaAlwaysAgrees`: `labelled` splits at each
  separator and asks that each label is of small letters and digits, and not
  empty; the regular expression asks it of characters and their neighbours.
  `LabelledIsChecked` is by induction over the text, of the labels so far and the
  one that is not yet ended. `AlwaysAcceptedIsServed`: what is stored passes the
  same checks again because lowering and trimming twice change nothing more
  (`LowerTwice`, `NameTwice`, `HostTwice`), the table's because of
  `LabelledIsChecked` and, but for a dressed URL, of `ValidUpstream`, and
  `renderable` takes the one row there is
  (`RenderableOne`); a patch applies what `validate` applies (`PatchedServed`).

Some proofs changed the models. `ConfPublish` had no assumption that there is a
publisher, without which `RunsTheTableUnlessRaced` is false; a first `Phases` did
not say that a serving process still has all its tasks, and was not inductive;
`SecondFactor`'s type invariant had its condition on a call's progress named
(`UnderWay`); and `Access` had sorted the portal's rows by an operator that says
nothing of ties, where the query, too, leaves two rows of one application in any
order: now the property is about every answer the query may give. `Renderable`
was written as a fold, which is what `LeftFold` is about.

Only model-checked: liveness (`AnnouncedStops`, `DeadFades`, `DrainEnds`, `Settles`,
`StagedIsSettled`), which is out of the provers' reach. Every safety property that a
passing run checks is also proved.

## 6. Plan

Everything planned is modelled and checked, and proved as far as section 5 says.
What a next step could be: an abstract publisher, one writer and one reader, that
`ConfPublish` implements for as long as nothing has raced.

## 7. Not modelled

* What only reads and meets nobody: the lists of users and members, the list of
  sessions (`Index::live`), the filters of the audit list, `/healthz`, metrics.
* Which status, header or page a refusal is given as; cookies, hashes and session
  tokens as data; icons as pictures.
* `connect`'s migrations, which are done before anything is served.
* oauth2-proxy, Keycloak, Redis, Postgres and nginx themselves: they are what the
  code uses of them, and marked external in the map.
* The portal's pages, the release and compose scripts.
