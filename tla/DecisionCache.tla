----------------------------- MODULE DecisionCache -----------------------------
(***************************************************************************)
(* One instance's decision cache: entries under a mutex, sixteen fill      *)
(* locks that make the misses of a key single-flight, the reverse index    *)
(* from a subject to its keys, and the counters an entry carries, which    *)
(* become audit rows when the entry leaves.                                *)
(*                                                                         *)
(* Every removal but the two inside insert takes the keys in one critical  *)
(* section, removes them one by one in others, and writes the rows outside *)
(* all of them, while requests, the sweeper, the subscriber and the calls  *)
(* that drop a subject run on other threads.  A step below is one critical *)
(* section, or what a request does between two awaits.                     *)
(*                                                                         *)
(* Each request is decided at most once, so a counter is the set of the    *)
(* requests it counted.  Ages are kept up to the TTL, where they stop.     *)
(***************************************************************************)
EXTENDS Naturals, FiniteSets

CONSTANTS
  Request,    \* /decide calls with one session cookie
  Key,        \* digests of a cookie with an application's slug
  Sub,        \* subjects
  KeyOf,      \* the key of a request
  SubOf,      \* the subject whose session a key is of
  Shard,      \* the fill locks
  ShardOf,    \* the fill lock a key hashes to
  Dropper,    \* the calls that end in drop_sub
  CAPACITY, TTL

Job == {"sweeper", "subscriber"} \cup Dropper

ASSUME CacheAssumption ==
  /\ KeyOf \in [Request -> Key]
  /\ SubOf \in [Key -> Sub]
  /\ ShardOf \in [Key -> Shard]
  /\ Dropper \cap {"sweeper", "subscriber"} = {}
  /\ CAPACITY \in Nat \ {0}
  /\ TTL \in Nat \ {0}

VARIABLES
  pc,         \* where each request is
  holds,      \* requests that hold the fill lock of their key
  entries,    \* keys with an entry
  age,        \* how long ago an entry went in
  counted,    \* the requests an entry's counters stand for
  by_sub,     \* the keys of each subject
  subscribed, \* the flag
  job,        \* what the sweeper, the subscriber and the droppers are doing
  reported,   \* how many rows handed to the audit channel a request is in
  refills,    \* history: insertions of a key while an entry could be served
  before      \* history: entries a job started with that are still there

store   == <<entries, age, counted, by_sub>>
vars    == <<pc, holds, store, subscribed, job, reported, refills, before>>

Pc    == {"start", "waiting", "filling", "count", "answered", "refused", "gone"}
Ops   == {"idle", "sweep", "drop", "regain"}
Doing == [op : Ops, keys : SUBSET Key, hand : SUBSET Request]
Idle  == [op |-> "idle", keys |-> {}, hand |-> {}]

TypeOK ==
  /\ pc \in [Request -> Pc]
  /\ holds \subseteq Request
  /\ entries \subseteq Key /\ Cardinality(entries) <= CAPACITY
  /\ age \in [Key -> 0..TTL]
  /\ counted \in [Key -> SUBSET Request]
  /\ by_sub \in [Sub -> SUBSET Key]
  /\ subscribed \in BOOLEAN
  /\ job \in [Job -> Doing]
  /\ reported \in [Request -> 0..2]
  /\ refills \in [Key -> 0..2]
  /\ before \in [Job -> SUBSET Key]

Init ==
  /\ pc = [r \in Request |-> "start"]
  /\ holds = {}
  /\ entries = {}
  /\ age = [k \in Key |-> 0]
  /\ counted = [k \in Key |-> {}]
  /\ by_sub = [u \in Sub |-> {}]
  /\ subscribed = FALSE
  /\ job = [j \in Job |-> Idle]
  /\ reported = [r \in Request |-> 0]
  /\ refills = [k \in Key |-> 0]
  /\ before = [j \in Job |-> {}]

-----------------------------------------------------------------------------
Expired(k) == age[k] = TTL

\* Cache::get.
Hit(k) == subscribed /\ k \in entries /\ ~Expired(k)

\* flush: each request of the set is now in one more row.  Two is too many,
\* and is where the model stops counting.
Reported(R) == [r \in Request |-> IF r \in R /\ reported[r] < 2 THEN reported[r] + 1
                                                                 ELSE reported[r]]

\* The entries of K go, and nothing of theirs is kept in any structure.
Removed(K) ==
  /\ entries' = entries \ K
  /\ age' = [k \in Key |-> IF k \in K THEN 0 ELSE age[k]]
  /\ counted' = [k \in Key |-> IF k \in K THEN {} ELSE counted[k]]
  /\ by_sub' = [u \in Sub |-> by_sub[u] \ {k \in K : SubOf[k] = u}]
  /\ refills' = [k \in Key |-> IF k \in K THEN 0 ELSE refills[k]]
  /\ before' = [j \in Job |-> before[j] \ K]

LockFree(r) == \A q \in holds : ShardOf[KeyOf[q]] # ShardOf[KeyOf[r]]

-----------------------------------------------------------------------------
(* A request.                                                              *)

\* The first look, with no lock.
Arrive(r) ==
  /\ pc[r] = "start"
  /\ pc' = [pc EXCEPT ![r] = IF Hit(KeyOf[r]) THEN "count" ELSE "waiting"]
  /\ UNCHANGED <<holds, store, subscribed, job, reported, refills, before>>

\* (Deviation: no second look.)
AcquireBlind(r) ==
  /\ pc[r] = "waiting"
  /\ LockFree(r)
  /\ holds' = holds \cup {r}
  /\ pc' = [pc EXCEPT ![r] = "filling"]
  /\ UNCHANGED <<store, subscribed, job, reported, refills, before>>

\* The fill lock, and the second look: somebody may have filled the entry.
Acquire(r) ==
  /\ pc[r] = "waiting"
  /\ LockFree(r)
  /\ holds' = holds \cup {r}
  /\ pc' = [pc EXCEPT ![r] = IF Hit(KeyOf[r]) THEN "count" ELSE "filling"]
  /\ UNCHANGED <<store, subscribed, job, reported, refills, before>>

\* (Deviation: the replaced entry leaves the index after the new one came in.)
ReindexedEarly(k, out) ==
  [u \in Sub |-> ((by_sub[u] \cup {x \in {k} : SubOf[x] = u}) \ (entries \cap {k}))
                   \ {x \in out : SubOf[x] = u}]

\* The reverse index after an insertion of k that pushed out the keys of out.
\* The replaced entry leaves it first, so k is in it again at the end.
Reindexed(k, out) ==
  [u \in Sub |-> ({x \in by_sub[u] : x # k} \cup {x \in {k} : SubOf[x] = u})
                   \ {x \in out : SubOf[x] = u}]

\* (Deviation: the bound is off by one.)
OverLate(k) == Cardinality(entries \cup {k}) > CAPACITY + 1

\* Is the cache over its bound with k in it?
Over(k) == Cardinality(entries \cup {k}) > CAPACITY

\* The entries inserted longest ago, now that k's is new.
Oldest(k) == {x \in entries \ {k} : \A y \in entries \ {k} : age[y] <= age[x]}
             \cup {x \in {k} : \A y \in entries \ {k} : age[y] = 0}

\* Authenticated, indexed and loaded.  The entry that was there is flushed,
\* and so is the oldest one when the cache is over its bound.
Insert(r) ==
  LET k == KeyOf[r] IN
  /\ pc[r] = "filling"
  /\ pc' = [pc EXCEPT ![r] = "count"]
  /\ \E out \in IF Over(k) THEN {{x} : x \in Oldest(k)} ELSE {{}} :
       /\ entries' = (entries \cup {k}) \ out
       /\ age' = [x \in Key |-> IF x \in out \cup {k} THEN 0 ELSE age[x]]
       /\ counted' = [x \in Key |-> IF x \in out \cup {k} THEN {} ELSE counted[x]]
       /\ by_sub' = Reindexed(k, out)
       /\ reported' = Reported(UNION {counted[x] : x \in out \cup {k}})
       /\ refills' = [x \in Key |->
            IF x \in out THEN 0
            ELSE IF x = k /\ subscribed /\ refills[x] < 2 THEN refills[x] + 1 ELSE refills[x]]
       /\ before' = [j \in Job |-> before[j] \ (out \cup {k})]
  /\ UNCHANGED <<holds, subscribed, job>>

\* (Deviation: an error path that keeps the lock.)
FillFailsLocked(r) ==
  /\ pc[r] = "filling"
  /\ pc' = [pc EXCEPT ![r] = "refused"]
  /\ UNCHANGED <<holds, store, subscribed, job, reported, refills, before>>

\* A 401, or one of the three stores did not answer.
FillFails(r) ==
  /\ pc[r] = "filling"
  /\ pc' = [pc EXCEPT ![r] = "refused"]
  /\ holds' = holds \ {r}
  /\ UNCHANGED <<store, subscribed, job, reported, refills, before>>

\* (Deviation: the entry that was just filled is taken to be there.)
CountUnchecked(r) ==
  LET k == KeyOf[r] IN
  /\ pc[r] = "count"
  /\ pc' = [pc EXCEPT ![r] = "answered"]
  /\ holds' = holds \ {r}
  /\ counted' = IF k \in entries THEN [counted EXCEPT ![k] = @ \cup {r}] ELSE counted
  /\ UNCHANGED <<entries, age, by_sub, subscribed, job, reported, refills, before>>

\* The decision is counted on whatever entry the key has now, or on its own
\* row when it has none, and the lock goes with the answer.
Count(r) ==
  LET k == KeyOf[r] IN
  /\ pc[r] = "count"
  /\ pc' = [pc EXCEPT ![r] = "answered"]
  /\ holds' = holds \ {r}
  /\ IF k \in entries
     THEN counted' = [counted EXCEPT ![k] = @ \cup {r}] /\ UNCHANGED reported
     ELSE reported' = Reported({r}) /\ UNCHANGED counted
  /\ UNCHANGED <<entries, age, by_sub, subscribed, job, refills, before>>

\* nginx gave up: the future is dropped at the await it is in.
Cancel(r) ==
  /\ pc[r] \in {"waiting", "filling"}
  /\ pc' = [pc EXCEPT ![r] = "gone"]
  /\ holds' = holds \ {r}
  /\ UNCHANGED <<store, subscribed, job, reported, refills, before>>

-----------------------------------------------------------------------------
(* The sweeper, the subscriber, and the kill switch and logout calls.      *)

\* A job begins with a snapshot of some keys.  What it really started with
\* is noted beside it.
Begin(j, op, keys, there) ==
  /\ job[j].op = "idle"
  /\ job' = [job EXCEPT ![j] = [op |-> op, keys |-> keys, hand |-> {}]]
  /\ before' = [before EXCEPT ![j] = there]
  /\ UNCHANGED <<pc, holds, store, reported, refills>>

Sweep ==
  LET old == {k \in entries : Expired(k)} IN
  /\ Begin("sweeper", "sweep", old, old)
  /\ UNCHANGED subscribed

\* A kill switch or a logout, here; or one elsewhere, heard of.
DropSub(j, u) ==
  /\ j # "sweeper"
  /\ j = "subscriber" => subscribed
  /\ Begin(j, "drop", by_sub[u], {k \in entries : SubOf[k] = u})
  /\ UNCHANGED subscribed

\* set_subscribed(true): everything goes before the flag comes up.
Regain ==
  /\ ~subscribed
  /\ Begin("subscriber", "regain", entries, entries)
  /\ UNCHANGED subscribed

\* set_subscribed(false).
LoseSubscription ==
  /\ subscribed
  /\ job["subscriber"].op = "idle"
  /\ subscribed' = FALSE
  /\ refills' = [k \in Key |-> 0]
  /\ UNCHANGED <<pc, holds, store, job, reported, before>>

\* evict, inside the mutex: the entry of a snapshot key may be another by now.
Evict(j, k) ==
  /\ k \in job[j].keys
  /\ job[j].hand = {}
  /\ job' = [job EXCEPT ![j].keys = @ \ {k}, ![j].hand = counted[k]]
  /\ Removed({k})
  /\ UNCHANGED <<pc, holds, subscribed, reported>>

\* evict, after the mutex.
Flush(j) ==
  /\ job[j].hand # {}
  /\ reported' = Reported(job[j].hand)
  /\ job' = [job EXCEPT ![j].hand = {}]
  /\ UNCHANGED <<pc, holds, store, subscribed, refills, before>>

Finish(j) ==
  /\ job[j].op # "idle"
  /\ job[j].keys = {} /\ job[j].hand = {}
  /\ job' = [job EXCEPT ![j] = Idle]
  /\ IF job[j].op = "regain"
     THEN subscribed' = TRUE /\ refills' = [k \in Key |-> 0]
     ELSE UNCHANGED <<subscribed, refills>>
  /\ before' = [before EXCEPT ![j] = {}]
  /\ UNCHANGED <<pc, holds, store, reported>>

\* Time passes, up to the TTL.
Tick ==
  /\ \E k \in entries : ~Expired(k)
  /\ age' = [k \in Key |-> IF k \in entries /\ ~Expired(k) THEN age[k] + 1 ELSE age[k]]
  /\ refills' = [k \in Key |-> IF k \in entries /\ age[k] + 1 = TTL THEN 0 ELSE refills[k]]
  /\ UNCHANGED <<pc, holds, entries, counted, by_sub, subscribed, job, reported, before>>

RequestNext == \E r \in Request :
  Arrive(r) \/ Acquire(r) \/ Insert(r) \/ FillFails(r) \/ Count(r) \/ Cancel(r)

JobNext ==
  \/ Sweep \/ Regain \/ LoseSubscription
  \/ \E j \in Job : \/ Flush(j) \/ Finish(j)
                    \/ \E u \in Sub : DropSub(j, u)
                    \/ \E k \in Key : Evict(j, k)

Next == RequestNext \/ JobNext \/ Tick

Spec == Init /\ [][Next]_vars

-----------------------------------------------------------------------------
\* cache.rs tracked: an entry that has left has left every structure, and one
\* that is there can be found by its subject.  A key missing from by_sub is
\* an entry no kill switch can drop.
BySubExact == \A u \in Sub : by_sub[u] = {k \in entries : SubOf[k] = u}

\* Every answered request is in exactly one place: the counters of one entry,
\* one removed entry about to be flushed, or one row.  docs/02, "count
\* decisions, summarise rows"; dropping an entry without writing its counters
\* deletes audit silently, and writing them twice invents it.
Places(r) ==
  Cardinality({k \in entries : r \in counted[k]}) +
  Cardinality({j \in Job : r \in job[j].hand}) + reported[r]

CountedOnce == \A r \in Request : Places(r) = IF pc[r] = "answered" THEN 1 ELSE 0

\* Requests that arrive together on a missing or expired entry refresh it
\* once: a second insertion would mean that somebody did not look again.
OneRefresh == \A k \in Key : refills[k] <= 1

\* drop_sub, flush_all and the sweep remove, by the time they return, every
\* entry that was there when they began -- whatever is inserted, replaced or
\* removed by others meanwhile.  This is the atomic drop of KillSwitch.
DropsWhatWasThere == \A j \in Job : before[j] \subseteq job[j].keys

\* decide.rs decided: a fill lock is held over three remote calls by one request
\* of its shard at a time, and by none that has failed, been cancelled or been
\* answered: whoever waits for it waits for somebody at work.
HeldAtWork ==
  \A r \in holds :
    /\ pc[r] \in {"filling", "count"}
    /\ \A q \in holds : ShardOf[KeyOf[q]] = ShardOf[KeyOf[r]] => q = r
=============================================================================
