----------------------------- MODULE SessionIndex -----------------------------
(***************************************************************************)
(* How long things live in Redis: the sessions oauth2-proxy keeps there    *)
(* (external) and the set of one user's session keys, the kill switch's    *)
(* only way to them.  record adds to the set and renews its life in two    *)
(* commands, either of which may fail.  KillSwitch has what the kill       *)
(* switch does with the set; there a set lives until it is deleted.        *)
(***************************************************************************)
EXTENDS Integers

CONSTANTS
  SessionKey,
  Miss,          \* requests at work on a cache miss
  INDEX_TTL,     \* ticks
  cookie_expire, \* ticks, of oauth2-proxy.cfg
  MaxClock       \* bound: ticks

\* The comment at INDEX_TTL: at least cookie_expire.
ASSUME IndexAssumption ==
  /\ cookie_expire \in Nat \ {0} /\ INDEX_TTL \in Nat /\ MaxClock \in Nat
  /\ INDEX_TTL >= cookie_expire

VARIABLES
  clock,
  until,     \* when each session ends; 0, when it is not there
  members,   \* the user's set
  setUntil,  \* when the set ends; Never, while it has been given no life
  miss,      \* the requests; cut (history), when the set ended between the commands
  behind     \* history: sessions stored since record last was done for them

indexVars == <<clock, until, members, setUntil, miss, behind>>

Never == MaxClock + INDEX_TTL + 1
NoMiss == [pc |-> "idle"]

IndexTypeOK ==
  /\ clock \in 0..MaxClock
  /\ until \in [SessionKey -> 0..(MaxClock + cookie_expire)]
  /\ members \subseteq SessionKey
  /\ setUntil \in 0..Never
  /\ miss \in [Miss -> {NoMiss} \cup [pc : {"sadd", "expire"}, key : SessionKey, cut : BOOLEAN]]
  /\ behind \subseteq SessionKey
  /\ \A k \in SessionKey : until[k] # 0 => until[k] > clock
  /\ members # {} => setUntil > clock

IndexInit ==
  /\ clock = 0
  /\ until = [k \in SessionKey |-> 0]
  /\ members = {} /\ setUntil = 0
  /\ miss = [m \in Miss |-> NoMiss]
  /\ behind = {}

-----------------------------------------------------------------------------
\* oauth2-proxy (external): a sign-in stores a session under a new key.
SignIn(k) ==
  /\ until[k] = 0 /\ k \notin members /\ \A m \in Miss : miss[m] # NoMiss => miss[m].key # k
  /\ until' = [until EXCEPT ![k] = clock + cookie_expire]
  /\ behind' = behind \cup {k}
  /\ UNCHANGED <<clock, members, setUntil, miss>>

\* authenticate: the session is there, and may be stored anew.
Authenticate(m, k) == \E renewed \in BOOLEAN :
  /\ miss[m] = NoMiss
  /\ until[k] # 0
  /\ until'  = IF renewed THEN [until EXCEPT ![k] = clock + cookie_expire] ELSE until
  /\ behind' = IF renewed THEN behind \cup {k} ELSE behind
  /\ miss'   = [miss EXCEPT ![m] = [pc |-> "sadd", key |-> k, cut |-> FALSE]]
  /\ UNCHANGED <<clock, members, setUntil>>

\* record, its first command.  A set that was not there has no life yet.
Sadd(m) ==
  /\ miss[m].pc = "sadd"
  /\ members'  = members \cup {miss[m].key}
  /\ setUntil' = IF members = {} THEN Never ELSE setUntil
  /\ miss'     = [miss EXCEPT ![m].pc = "expire"]
  /\ UNCHANGED <<clock, until, behind>>

\* (Deviation: EXPIRE NX.)
ExpireOnce(m) ==
  /\ miss[m].pc = "expire"
  /\ setUntil' = IF members = {} \/ setUntil # Never THEN setUntil ELSE clock + INDEX_TTL
  /\ behind'   = IF miss[m].cut THEN behind ELSE behind \ {miss[m].key}
  /\ miss'     = [miss EXCEPT ![m] = NoMiss]
  /\ UNCHANGED <<clock, until, members>>

\* And its second.  The request goes on to its answer.
Expire(m) ==
  /\ miss[m].pc = "expire"
  /\ setUntil' = IF members = {} THEN setUntil ELSE clock + INDEX_TTL
  /\ behind'   = IF miss[m].cut THEN behind ELSE behind \ {miss[m].key}
  /\ miss'     = [miss EXCEPT ![m] = NoMiss]
  /\ UNCHANGED <<clock, until, members>>

\* The request is refused; the command may have been done all the same.
RecordFails(m) ==
  /\ miss[m] # NoMiss
  /\ \/ UNCHANGED <<members, setUntil>>
     \/ /\ miss[m].pc = "sadd"
        /\ members'  = members \cup {miss[m].key}
        /\ setUntil' = IF members = {} THEN Never ELSE setUntil
     \/ /\ miss[m].pc = "expire" /\ members # {}
        /\ setUntil' = clock + INDEX_TTL
        /\ UNCHANGED members
  /\ miss' = [miss EXCEPT ![m] = NoMiss]
  /\ UNCHANGED <<clock, until, behind>>

\* The session is deleted, by a sign-out.
SignOut(k) ==
  /\ until[k] # 0
  /\ until' = [until EXCEPT ![k] = 0]
  /\ UNCHANGED <<clock, members, setUntil, miss, behind>>

\* forget_session, after it.
ForgetSession(k) ==
  /\ until[k] = 0 /\ k \in members
  /\ members' = members \ {k}
  /\ UNCHANGED <<clock, until, setUntil, miss, behind>>

\* What has come to its end is gone.
ClockTicks ==
  /\ clock < MaxClock
  /\ clock' = clock + 1
  /\ until' = [k \in SessionKey |-> IF until[k] <= clock + 1 THEN 0 ELSE until[k]]
  /\ IF members # {} /\ setUntil <= clock + 1
     THEN /\ members' = {}
          /\ miss' = [m \in Miss |-> IF miss[m].pc = "expire" THEN [miss[m] EXCEPT !.cut = TRUE]
                                                             ELSE miss[m]]
     ELSE UNCHANGED <<members, miss>>
  /\ UNCHANGED <<setUntil, behind>>

IndexNext ==
  \/ \E k \in SessionKey : SignIn(k) \/ SignOut(k) \/ ForgetSession(k)
  \/ \E m \in Miss : Sadd(m) \/ Expire(m) \/ RecordFails(m) \/ \E k \in SessionKey : Authenticate(m, k)
  \/ ClockTicks

IndexSpec == IndexInit /\ [][IndexNext]_indexVars
-----------------------------------------------------------------------------
\* The comment at INDEX_TTL, "A set that expires before its sessions is an index
\* that cannot find them".  A living session is in its user's set, however long it
\* lives on after its last request, once record was done after it was last stored
\* -- unless the set came to its end between record's two commands: EXPIRE's
\* result, which tells, is not read.
RecordedIsFindable ==
  \A k \in SessionKey : until[k] # 0 /\ k \notin behind => k \in members
=============================================================================
