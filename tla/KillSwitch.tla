------------------------------ MODULE KillSwitch ------------------------------
(***************************************************************************)
(* Cutting a signed-in user off, across every backend instance.            *)
(*                                                                         *)
(* Five parties share this state: oauth2-proxy's sessions and the          *)
(* user -> sessions index, both in Redis; the identity provider's own      *)
(* sign-on; each instance's decision cache; each instance's subscription   *)
(* to the invalidation channel; and the requests in flight, which are      *)
(* /decide misses, /api calls, kill switches and logouts.  A step below is *)
(* what one of them does between two awaits.                               *)
(*                                                                         *)
(* An instance's cache is seen here through what revocation can tell       *)
(* apart: whether an entry of a session is there, and whether the session  *)
(* was still alive when the entry was put in.  DecisionCache looks inside. *)
(***************************************************************************)
EXTENDS FiniteSets

CONSTANTS
  Instance,   \* backend processes
  User,       \* subjects
  Browser,    \* browsers, each with its own sign-on at the identity provider
  Session,    \* oauth2-proxy session keys, each created at most once
  UserOf,     \* the subject a session belongs to
  BrowserOf,  \* the browser that holds a session's cookie
  Kill,       \* POST /api/admin/kill calls
  Logout      \* POST /api/logout calls

ASSUME SessionAssumption ==
  /\ UserOf \in [Session -> User]
  /\ BrowserOf \in [Session -> Browser]

VARIABLES
  born,       \* sessions oauth2-proxy has created so far
  live,       \* sessions whose key is in Redis
  sso,        \* browsers the identity provider would sign in with no password
  index,      \* sessions some index set names; a session's set is its user's
  sub,        \* where each instance's subscriber task is
  wire,       \* is the subscriber's connection delivering
  inbox,      \* subjects published to an instance and not yet read by it
  subscribed, \* Cache::subscribed, the flag a hit needs
  cache,      \* what each instance holds of each session
  miss,       \* each instance's /decide miss for each session
  calling,    \* sessions with an /api call past nginx and not yet indexed
  kill,       \* the kill switch calls
  logout,     \* the logout calls
  granted,    \* history: sessions something was answered for
  announced,  \* history: sessions deleted and then published
  orphaned    \* history: sessions a kill's last step forgot without deleting

proxyVars   == <<born, live, sso>>
fleetVars   == <<sub, wire, inbox, subscribed>>
callVars    == <<kill, logout>>
historyVars == <<granted, announced, orphaned>>
vars == <<proxyVars, index, fleetVars, cache, miss, calling, callVars, historyVars>>

SessionsOf(u) == {s \in Session : UserOf[s] = u}

-----------------------------------------------------------------------------
(* A cache entry is "fresh" when its session was alive as it was inserted  *)
(* and "late" when the session had been deleted under the miss.            *)
Entries  == {"none", "fresh", "late"}
MissPc   == {"idle", "asked", "verified", "indexed"}
SubPc    == {"down", "joined", "flushed", "reading"}

\* How a call ends: it answered 200, or a 503 that names its publish or its
\* last step, or it stopped earlier on.
Ended    == {"ok", "unpublished", "unforgotten", "failed"}
Stopped  == {"idle"} \cup Ended
KillPc   == {"idle", "logout_all", "read", "delete", "publish", "drop", "forget"} \cup Ended
LogoutPc == {"idle", "verified", "sign_out", "delete", "publish", "drop", "forget"} \cup Ended

KillCall   == [pc : KillPc, user : User, at : Instance, read : SUBSET Session,
               heard : BOOLEAN, excused : SUBSET Session]
LogoutCall == [pc : LogoutPc, session : Session, at : Instance, heard : BOOLEAN]

TypeOK ==
  /\ born \subseteq Session
  /\ live \subseteq born
  /\ sso \subseteq Browser
  /\ index \subseteq Session
  /\ sub \in [Instance -> SubPc]
  /\ wire \in [Instance -> BOOLEAN]
  /\ inbox \in [Instance -> SUBSET User]
  /\ subscribed \in [Instance -> BOOLEAN]
  /\ cache \in [Instance -> [Session -> Entries]]
  /\ miss \in [Instance -> [Session -> MissPc]]
  /\ calling \subseteq Session
  /\ kill \in [Kill -> KillCall]
  /\ \A k \in Kill : kill[k].read \subseteq SessionsOf(kill[k].user)
  /\ logout \in [Logout -> LogoutCall]
  /\ granted \subseteq Session
  /\ announced \subseteq Session
  /\ orphaned \subseteq Session

Init ==
  /\ born = {} /\ live = {} /\ sso = {} /\ index = {}
  /\ sub = [i \in Instance |-> "down"]
  /\ wire = [i \in Instance |-> FALSE]
  /\ inbox = [i \in Instance |-> {}]
  /\ subscribed = [i \in Instance |-> FALSE]
  /\ cache = [i \in Instance |-> [s \in Session |-> "none"]]
  /\ miss = [i \in Instance |-> [s \in Session |-> "idle"]]
  /\ calling = {}
  /\ kill \in [Kill -> [pc : {"idle"}, user : User, at : Instance,
                        read : {{}}, heard : {FALSE}, excused : {{}}]]
  /\ logout \in [Logout -> [pc : {"idle"}, session : Session, at : Instance,
                            heard : {FALSE}]]
  /\ granted = {} /\ announced = {} /\ orphaned = {}

-----------------------------------------------------------------------------
(* oauth2-proxy and the identity provider.                                 *)

\* A sign-in with a password.  It also accounts for the later sessions of
\* that browser: no kill that has begun promised that they could not exist.
SignIn(s) ==
  /\ s \notin born
  /\ born' = born \cup {s}
  /\ live' = live \cup {s}
  /\ sso' = sso \cup {BrowserOf[s]}
  /\ kill' = [k \in Kill |-> IF kill[k].pc = "idle" THEN kill[k]
                ELSE [kill[k] EXCEPT !.excused = @ \cup
                        {t \in Session : BrowserOf[t] = BrowserOf[s]}]]
  /\ UNCHANGED <<index, fleetVars, cache, miss, calling, logout, historyVars>>

\* The redirect the identity provider answers by itself: its sign-on is live.
SilentSignIn(s) ==
  /\ s \notin born
  /\ BrowserOf[s] \in sso
  /\ born' = born \cup {s}
  /\ live' = live \cup {s}
  /\ UNCHANGED <<sso, index, fleetVars, cache, miss, calling, callVars, historyVars>>

\* cookie_expire, or a refresh the identity provider refused.
SessionEnds(s) ==
  /\ s \in live
  /\ live' = live \ {s}
  /\ UNCHANGED <<born, sso, index, fleetVars, cache, miss, calling, callVars, historyVars>>

-----------------------------------------------------------------------------
(* A /decide miss, single-flighted for its key, and the /api middleware.   *)

\* Cache::get serves only a subscribed instance.
Servable(i, s) == subscribed[i] /\ cache[i][s] # "none"

\* Index::record, under the session's own user.
Record(s) ==
  /\ index' = index \cup {s}
  /\ orphaned' = orphaned \ {s}

\* The cache had no hit, under the fill lock, and oauth2-proxy is asked.
MissStart(i, s) ==
  /\ miss[i][s] = "idle"
  /\ s \in born
  /\ ~Servable(i, s)
  /\ miss' = [miss EXCEPT ![i][s] = "asked"]
  /\ UNCHANGED <<proxyVars, index, fleetVars, cache, calling, callVars, historyVars>>

\* (Deviation: any answer of oauth2-proxy is taken for a session.)
MissVerifyAny(i, s) ==
  /\ miss[i][s] = "asked"
  /\ miss' = [miss EXCEPT ![i][s] = "verified"]
  /\ UNCHANGED <<proxyVars, index, fleetVars, cache, calling, callVars, historyVars>>

\* oauth2-proxy answered 2xx with a subject.
MissVerify(i, s) ==
  /\ miss[i][s] = "asked"
  /\ s \in live
  /\ miss' = [miss EXCEPT ![i][s] = "verified"]
  /\ UNCHANGED <<proxyVars, index, fleetVars, cache, calling, callVars, historyVars>>

MissRecord(i, s) ==
  /\ miss[i][s] = "verified"
  /\ Record(s)
  /\ miss' = [miss EXCEPT ![i][s] = "indexed"]
  /\ UNCHANGED <<proxyVars, fleetVars, cache, calling, callVars, granted, announced>>

\* The rules arrived: the entry goes in, and the answer goes out.
MissInsert(i, s) ==
  /\ miss[i][s] = "indexed"
  /\ cache' = [cache EXCEPT ![i][s] = IF s \in live THEN "fresh" ELSE "late"]
  /\ granted' = granted \cup {s}
  /\ miss' = [miss EXCEPT ![i][s] = "idle"]
  /\ UNCHANGED <<proxyVars, index, fleetVars, calling, callVars, announced, orphaned>>

\* A 401, an oauth2-proxy, Redis or Postgres that failed, or nginx gave up.
MissFails(i, s) ==
  /\ miss[i][s] # "idle"
  /\ miss' = [miss EXCEPT ![i][s] = "idle"]
  /\ UNCHANGED <<proxyVars, index, fleetVars, cache, calling, callVars, historyVars>>

\* The TTL sweep or the capacity bound.
EntryLeaves(i, s) ==
  /\ cache[i][s] # "none"
  /\ cache' = [cache EXCEPT ![i][s] = "none"]
  /\ UNCHANGED <<proxyVars, index, fleetVars, miss, calling, callVars, historyVars>>

\* nginx had oauth2-proxy verify the session and passed the call on.
ApiVerify(s) ==
  /\ s \in live
  /\ s \notin calling
  /\ calling' = calling \cup {s}
  /\ UNCHANGED <<proxyVars, index, fleetVars, cache, miss, callVars, historyVars>>

ApiRecord(s) ==
  /\ s \in calling
  /\ Record(s)
  /\ granted' = granted \cup {s}
  /\ calling' = calling \ {s}
  /\ UNCHANGED <<proxyVars, fleetVars, cache, miss, callVars, announced>>

ApiRefused(s) ==
  /\ s \in calling
  /\ calling' = calling \ {s}
  /\ UNCHANGED <<proxyVars, index, fleetVars, cache, miss, callVars, historyVars>>

-----------------------------------------------------------------------------
(* The subscriber task of one instance.                                    *)

\* Connected, and SUBSCRIBE was answered: from here on messages queue up.
Join(i) ==
  /\ sub[i] = "down"
  /\ sub' = [sub EXCEPT ![i] = "joined"]
  /\ wire' = [wire EXCEPT ![i] = TRUE]
  /\ UNCHANGED <<proxyVars, index, inbox, subscribed, cache, miss, calling, callVars, historyVars>>

\* (Deviation: nothing is flushed for the gap.)
FlushGapNot(i) ==
  /\ sub[i] = "joined"
  /\ sub' = [sub EXCEPT ![i] = "flushed"]
  /\ UNCHANGED <<proxyVars, index, wire, inbox, subscribed, cache, miss, calling, callVars,
                 historyVars>>

\* set_subscribed(true), first half: flush_all, when the flag is down.
FlushGap(i) ==
  /\ sub[i] = "joined"
  /\ sub' = [sub EXCEPT ![i] = "flushed"]
  /\ cache' = IF subscribed[i] THEN cache
              ELSE [cache EXCEPT ![i] = [s \in Session |-> "none"]]
  /\ UNCHANGED <<proxyVars, index, wire, inbox, subscribed, miss, calling, callVars, historyVars>>

\* set_subscribed(true), second half: the flag goes up.
RaiseFlag(i) ==
  /\ sub[i] = "flushed"
  /\ sub' = [sub EXCEPT ![i] = "reading"]
  /\ subscribed' = [subscribed EXCEPT ![i] = TRUE]
  /\ UNCHANGED <<proxyVars, index, wire, inbox, cache, miss, calling, callVars, historyVars>>

\* cache.drop_sub, on instance i.
Drop(i, u) == [cache EXCEPT ![i] = [s \in Session |->
                 IF UserOf[s] = u THEN "none" ELSE cache[i][s]]]

\* One invalidation is read off the stream.
Deliver(i, u) ==
  /\ sub[i] = "reading"
  /\ u \in inbox[i]
  /\ inbox' = [inbox EXCEPT ![i] = @ \ {u}]
  /\ cache' = Drop(i, u)
  /\ UNCHANGED <<proxyVars, index, sub, wire, subscribed, miss, calling, callVars, historyVars>>

\* Redis restarts, the connection is cut, or it stays up and goes quiet.
\* Only what had already arrived can still be read.
WireBreaks(i) ==
  /\ wire[i]
  /\ wire' = [wire EXCEPT ![i] = FALSE]
  /\ \E kept \in SUBSET inbox[i] : inbox' = [inbox EXCEPT ![i] = kept]
  /\ UNCHANGED <<proxyVars, index, sub, subscribed, cache, miss, calling, callVars, historyVars>>

\* (Deviation: a way out of the subscriber loop that leaves the flag up.)
NoticeLossFlagUp(i) ==
  /\ sub[i] = "reading"
  /\ ~wire[i]
  /\ sub' = [sub EXCEPT ![i] = "down"]
  /\ inbox' = [inbox EXCEPT ![i] = {}]
  /\ UNCHANGED <<proxyVars, index, wire, subscribed, cache, miss, calling, callVars, historyVars>>

\* The stream ended or the heartbeat got no answer: set_subscribed(false).
NoticeLoss(i) ==
  /\ sub[i] = "reading"
  /\ ~wire[i]
  /\ sub' = [sub EXCEPT ![i] = "down"]
  /\ inbox' = [inbox EXCEPT ![i] = {}]
  /\ subscribed' = [subscribed EXCEPT ![i] = FALSE]
  /\ UNCHANGED <<proxyVars, index, wire, cache, miss, calling, callVars, historyVars>>

-----------------------------------------------------------------------------
(* PUBLISH: every subscriber whose connection works is sent the subject.   *)
Broadcast(u, gone) ==
  /\ inbox' = [i \in Instance |-> IF wire[i] THEN inbox[i] \cup {u} ELSE inbox[i]]
  /\ announced' = announced \cup gone

Unheard == UNCHANGED <<inbox, announced>>

-----------------------------------------------------------------------------
(* POST /api/admin/kill/{sub}.  The guards have passed and the admin's own *)
(* session is indexed; each step is one await.                             *)

\* (Deviation: the sessions are deleted before the sign-on is ended.)
ThenKeycloak == [idle |-> "read", read |-> "delete", delete |-> "logout_all",
                 logout_all |-> "publish"]

\* The order of the first steps, which is "the whole design": the sign-on
\* ends before the sessions are looked for.
Then == [idle |-> "logout_all", logout_all |-> "read", read |-> "delete",
         delete |-> "publish"]

KillStart(k) ==
  /\ kill[k].pc = "idle"
  /\ kill' = [kill EXCEPT ![k].pc = Then.idle]
  /\ UNCHANGED <<proxyVars, index, fleetVars, cache, miss, calling, logout, historyVars>>

\* Keycloak ends every sign-on the user has.
KillLogoutAll(k) ==
  /\ kill[k].pc = "logout_all"
  /\ sso' = sso \ {BrowserOf[s] : s \in SessionsOf(kill[k].user)}
  /\ kill' = [kill EXCEPT ![k].pc = Then.logout_all]
  /\ UNCHANGED <<born, live, index, fleetVars, cache, miss, calling, logout, historyVars>>

\* A session that is alive and in no index is one no kill switch can find.
Hidden(u) == (live \cap SessionsOf(u)) \ index

\* (Deviation: every user's set is read.)
KillReadAll(k) ==
  /\ kill[k].pc = "read"
  /\ kill' = [kill EXCEPT ![k].pc = Then.read, ![k].read = index,
                          ![k].excused = @ \cup Hidden(kill[k].user)]
  /\ UNCHANGED <<proxyVars, index, fleetVars, cache, miss, calling, logout, historyVars>>

\* SMEMBERS, of the user's own set.
KillRead(k) ==
  /\ kill[k].pc = "read"
  /\ kill' = [kill EXCEPT ![k].pc = Then.read,
                          ![k].read = index \cap SessionsOf(kill[k].user),
                          ![k].excused = @ \cup Hidden(kill[k].user)]
  /\ UNCHANGED <<proxyVars, index, fleetVars, cache, miss, calling, logout, historyVars>>

\* DEL, of all of them in one command.
KillDelete(k) ==
  /\ kill[k].pc = "delete"
  /\ live' = live \ kill[k].read
  /\ kill' = [kill EXCEPT ![k].pc = Then.delete]
  /\ UNCHANGED <<born, sso, index, fleetVars, cache, miss, calling, logout, historyVars>>

\* The publish happened or not, and the call heard that it did, heard an
\* error, or was given up while it waited.
KillPublish(k) ==
  /\ kill[k].pc = "publish"
  /\ \/ /\ Broadcast(kill[k].user, kill[k].read)
        /\ \/ kill' = [kill EXCEPT ![k].pc = "drop", ![k].heard = TRUE]
           \/ kill' = [kill EXCEPT ![k].pc = "drop"]
           \/ kill' = [kill EXCEPT ![k].pc = "failed"]
     \/ Unheard /\ kill' = [kill EXCEPT ![k].pc = "drop"]
  /\ UNCHANGED <<proxyVars, index, sub, wire, subscribed, cache, miss, calling, logout,
                 granted, orphaned>>

\* (Deviation: the local drop waits for the publish to be heard.)
KillDropIfHeard(k) ==
  /\ kill[k].pc = "drop"
  /\ cache' = IF kill[k].heard THEN Drop(kill[k].at, kill[k].user) ELSE cache
  /\ kill' = [kill EXCEPT ![k].pc = IF kill[k].heard THEN "forget" ELSE "unpublished"]
  /\ UNCHANGED <<proxyVars, index, fleetVars, miss, calling, logout, historyVars>>

\* The local drop, whatever the publish answered.
KillDrop(k) ==
  /\ kill[k].pc = "drop"
  /\ cache' = Drop(kill[k].at, kill[k].user)
  /\ kill' = [kill EXCEPT ![k].pc = IF kill[k].heard THEN "forget" ELSE "unpublished"]
  /\ UNCHANGED <<proxyVars, index, fleetVars, miss, calling, logout, historyVars>>

\* DEL of the user's whole index set.
KillForget(k) ==
  /\ kill[k].pc = "forget"
  /\ index' = index \ SessionsOf(kill[k].user)
  /\ orphaned' = orphaned \cup ((index \cap SessionsOf(kill[k].user)) \ kill[k].read)
  /\ kill' = [kill EXCEPT ![k].pc = "ok"]
  /\ UNCHANGED <<proxyVars, fleetVars, cache, miss, calling, logout, granted, announced>>

\* A step answered an error, or the call was given up: the rest is not run.
KillStops(k) ==
  /\ kill[k].pc \notin Stopped \cup {"drop"}
  /\ kill' = [kill EXCEPT ![k].pc = IF @ = "forget" THEN "unforgotten" ELSE "failed"]
  /\ UNCHANGED <<proxyVars, index, fleetVars, cache, miss, calling, logout, historyVars>>

-----------------------------------------------------------------------------
(* POST /api/logout, from one browser, for the session in its cookie.      *)

\* nginx had the session verified.
LogoutStart(l) ==
  /\ logout[l].pc = "idle"
  /\ logout[l].session \in live
  /\ logout' = [logout EXCEPT ![l].pc = "verified"]
  /\ UNCHANGED <<proxyVars, index, fleetVars, cache, miss, calling, kill, historyVars>>

\* The /api middleware.
LogoutRecord(l) ==
  /\ logout[l].pc = "verified"
  /\ Record(logout[l].session)
  /\ logout' = [logout EXCEPT ![l].pc = "sign_out"]
  /\ UNCHANGED <<proxyVars, fleetVars, cache, miss, calling, kill, granted, announced>>

\* oauth2-proxy ends the browser's sign-on out of the session, if it is
\* still there, and deletes the session.
LogoutSignOut(l) ==
  LET s == logout[l].session IN
  /\ logout[l].pc = "sign_out"
  /\ sso' = IF s \in live THEN sso \ {BrowserOf[s]} ELSE sso
  /\ live' = live \ {s}
  /\ logout' = [logout EXCEPT ![l].pc = "delete"]
  /\ UNCHANGED <<born, index, fleetVars, cache, miss, calling, kill, historyVars>>

LogoutDelete(l) ==
  /\ logout[l].pc = "delete"
  /\ live' = live \ {logout[l].session}
  /\ logout' = [logout EXCEPT ![l].pc = "publish"]
  /\ UNCHANGED <<born, sso, index, fleetVars, cache, miss, calling, kill, historyVars>>

LogoutPublish(l) ==
  LET s == logout[l].session IN
  /\ logout[l].pc = "publish"
  /\ \/ /\ Broadcast(UserOf[s], {s})
        /\ \/ logout' = [logout EXCEPT ![l].pc = "drop", ![l].heard = TRUE]
           \/ logout' = [logout EXCEPT ![l].pc = "drop"]
           \/ logout' = [logout EXCEPT ![l].pc = "failed"]
     \/ Unheard /\ logout' = [logout EXCEPT ![l].pc = "drop"]
  /\ UNCHANGED <<proxyVars, index, sub, wire, subscribed, cache, miss, calling, kill,
                 granted, orphaned>>

LogoutDrop(l) ==
  /\ logout[l].pc = "drop"
  /\ cache' = Drop(logout[l].at, UserOf[logout[l].session])
  /\ logout' = [logout EXCEPT ![l].pc = IF logout[l].heard THEN "forget" ELSE "unpublished"]
  /\ UNCHANGED <<proxyVars, index, fleetVars, miss, calling, kill, historyVars>>

\* (Deviation: the logout forgets what a kill switch would.)
LogoutForgetAll(l) ==
  /\ logout[l].pc = "forget"
  /\ index' = index \ SessionsOf(UserOf[logout[l].session])
  /\ logout' = [logout EXCEPT ![l].pc = "ok"]
  /\ UNCHANGED <<proxyVars, fleetVars, cache, miss, calling, kill, historyVars>>

\* SREM: the user's other sessions stay in the index.
LogoutForget(l) ==
  /\ logout[l].pc = "forget"
  /\ index' = index \ {logout[l].session}
  /\ logout' = [logout EXCEPT ![l].pc = "ok"]
  /\ UNCHANGED <<proxyVars, fleetVars, cache, miss, calling, kill, historyVars>>

LogoutStops(l) ==
  /\ logout[l].pc \notin Stopped \cup {"drop"}
  /\ logout' = [logout EXCEPT ![l].pc = IF @ = "forget" THEN "unforgotten" ELSE "failed"]
  /\ UNCHANGED <<proxyVars, index, fleetVars, cache, miss, calling, kill, historyVars>>

-----------------------------------------------------------------------------
\* The process dies and comes back: its cache, its subscription and the
\* calls it was serving are gone, and what they had written to Redis is not.
Crash(i) ==
  /\ sub' = [sub EXCEPT ![i] = "down"]
  /\ wire' = [wire EXCEPT ![i] = FALSE]
  /\ inbox' = [inbox EXCEPT ![i] = {}]
  /\ subscribed' = [subscribed EXCEPT ![i] = FALSE]
  /\ cache' = [cache EXCEPT ![i] = [s \in Session |-> "none"]]
  /\ miss' = [miss EXCEPT ![i] = [s \in Session |-> "idle"]]
  /\ \E lost \in SUBSET calling : calling' = calling \ lost
  /\ kill' = [k \in Kill |-> IF kill[k].at = i /\ kill[k].pc \notin Stopped
                             THEN [kill[k] EXCEPT !.pc = "failed"] ELSE kill[k]]
  /\ logout' = [l \in Logout |-> IF logout[l].at = i /\ logout[l].pc \notin Stopped
                                 THEN [logout[l] EXCEPT !.pc = "failed"] ELSE logout[l]]
  /\ UNCHANGED <<proxyVars, index, historyVars>>

ProxyNext == \E s \in Session : SignIn(s) \/ SilentSignIn(s) \/ SessionEnds(s)

MissNext == \E i \in Instance, s \in Session :
  \/ MissStart(i, s) \/ MissVerify(i, s) \/ MissRecord(i, s) \/ MissInsert(i, s)
  \/ MissFails(i, s) \/ EntryLeaves(i, s)

ApiNext == \E s \in Session : ApiVerify(s) \/ ApiRecord(s) \/ ApiRefused(s)

SubscriberNext == \E i \in Instance :
  \/ Join(i) \/ FlushGap(i) \/ RaiseFlag(i) \/ WireBreaks(i) \/ NoticeLoss(i)
  \/ \E u \in User : Deliver(i, u)

KillNext == \E k \in Kill :
  \/ KillStart(k) \/ KillLogoutAll(k) \/ KillRead(k) \/ KillDelete(k)
  \/ KillPublish(k) \/ KillDrop(k) \/ KillForget(k) \/ KillStops(k)

LogoutNext == \E l \in Logout :
  \/ LogoutStart(l) \/ LogoutRecord(l) \/ LogoutSignOut(l) \/ LogoutDelete(l)
  \/ LogoutPublish(l) \/ LogoutDrop(l) \/ LogoutForget(l) \/ LogoutStops(l)

Next ==
  \/ ProxyNext \/ MissNext \/ ApiNext \/ SubscriberNext \/ KillNext \/ LogoutNext
  \/ \E i \in Instance : Crash(i)

Spec == Init /\ [][Next]_vars

-----------------------------------------------------------------------------
(* What revocation promises.                                               *)

\* Once the deletion of a session has been published, an instance that would
\* still serve an entry put in before the deletion has the message waiting,
\* or a dead connection its heartbeat has not reported yet.  This is what
\* subscribing before flushing, flushing before raising the flag, and lowering
\* the flag on every way out of the subscriber loop buy together
\* (session.rs subscribed, cache.rs set_subscribed).
AnnouncedIsCut ==
  \A i \in Instance, s \in announced :
    subscribed[i] /\ cache[i][s] = "fresh" => UserOf[s] \in inbox[i] \/ ~wire[i]

\* Once its local drop has run, the instance that serves a kill switch or a
\* logout holds nothing from before the deletion: with or without a
\* subscription, and whether the call goes on, answers 200, or answers a 503
\* because its publish or its last step failed.  "An instance that cannot
\* broadcast must still cut the access it can reach" (admin.rs kill, portal.rs
\* logout).
Dropped == {"forget", "ok", "unpublished", "unforgotten"}
LocalIsCut ==
  /\ \A k \in Kill : kill[k].pc \in Dropped =>
       \A s \in kill[k].read : cache[kill[k].at][s] # "fresh"
  /\ \A l \in Logout : logout[l].pc \in Dropped =>
       cache[logout[l].at][logout[l].session] # "fresh"

\* After a kill switch that answered 200, no session it had found is alive,
\* and a session of the user that is alive was in no index when it read them,
\* or somebody has typed its browser's password since the call began.  None
\* came of a sign-on that was there before: with the sessions deleted first,
\* or the sign-on left alone, the identity provider signs the user straight
\* back in, past a kill switch that has already walked by (admin.rs kill).
KilledStaysOut ==
  \A k \in Kill : kill[k].pc = "ok" =>
    /\ kill[k].read \cap live = {}
    /\ live \cap SessionsOf(kill[k].user) \subseteq kill[k].excused

\* A session that is alive and has ever been answered is in the index, so a
\* later kill switch finds it -- except one that was recorded between a kill
\* switch's SMEMBERS and its last step.  Covers the index write before the
\* answer (decide.rs, api.rs indexed) and a logout that forgets one session
\* and not the user's others (portal.rs).
GrantedIsFindable == (granted \cap live) \ orphaned \subseteq index

\* decide.rs:132 "A session the kill switch cannot find must not gain access",
\* with no exception.
EveryGrantedIsFindable == granted \cap live \subseteq index

\* A killed session's entry can be put back only by a miss that oauth2-proxy
\* had already answered: after the deletion, the places that hold or are
\* about to hold an answer for the session only become fewer.
Reaches(i, s) == cache[i][s] # "none" \/ miss[i][s] \in {"verified", "indexed"}

Revoked == INSTANCE Revocation WITH
  reach <- [s \in Session |-> {i \in Instance : Reaches(i, s)}]

DeadNeverSpreads == Revoked!Spec

-----------------------------------------------------------------------------
(* Liveness.  The subscriber loop is one task that always has its next      *)
(* read, heartbeat or retry; a miss is bounded by its own timeouts; an      *)
(* entry is bounded by its TTL and the 5 s sweep.  Nothing is assumed of    *)
(* users, of the kill switch's caller, or of Redis staying up.              *)

Delivery == \A i \in Instance :
  WF_vars(NoticeLoss(i)) /\ \A u \in User : WF_vars(Deliver(i, u))

Expiry == \A i \in Instance, s \in Session :
  /\ WF_vars(EntryLeaves(i, s))
  /\ WF_vars(MissInsert(i, s) \/ MissFails(i, s))


\* With no help from any TTL, a published deletion stops every instance from
\* serving what it had cached before it, for good.
AnnouncedStops ==
  Delivery => \A i \in Instance, s \in Session :
    s \in announced ~> [](~(subscribed[i] /\ cache[i][s] = "fresh"))

\* Whatever fails -- the publish, the index, the process -- a session that is
\* dead is out of every cache in the end, and stays out.
DeadFades ==
  Expiry => \A i \in Instance, s \in Session :
    s \in born \ live ~> [](cache[i][s] = "none")
=============================================================================
