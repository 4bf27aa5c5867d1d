-------------------------- MODULE DecisionCacheProofs --------------------------
(***************************************************************************)
(* Proofs about DecisionCache, for every number of requests, keys,         *)
(* subjects, locks and calls, every bound and every TTL: the structures    *)
(* agree, every decision is counted once, misses are single-flight, drops  *)
(* are complete and locks come back.                                       *)
(***************************************************************************)
EXTENDS DecisionCache, FiniteSetTheorems, TLAPS

USE CacheAssumption

\* A fill has its lock.
FillsHold == \A r \in Request : pc[r] = "filling" => r \in holds

\* What was inserted while it could be served, still can be; so whoever is at
\* work on a key looked when it could not.
RefillsServe ==
  /\ \A k \in Key : refills[k] # 0 => refills[k] = 1 /\ Hit(k)
  /\ \A r \in Request : pc[r] = "filling" => refills[KeyOf[r]] = 0

\* A job that is not at work has nothing left to remove or to write.
IdleIsEmpty == \A j \in Job : job[j].op = "idle" => job[j].keys = {} /\ job[j].hand = {}

\* Counters are of entries that are there, and of requests for their key.
CountedHere == \A k \in Key : \A r \in counted[k] : k \in entries /\ KeyOf[r] = k

\* CountedOnce, as the place a request's decision is in.
InEntry(r) == r \in counted[KeyOf[r]]
InHand(r)  == \E j \in Job : r \in job[j].hand
OneHand    == \A i, j \in Job : \A r \in Request : r \in job[i].hand /\ r \in job[j].hand => i = j
OnePlace(r) ==
  IF pc[r] = "answered"
  THEN \/ InEntry(r)  /\ ~InHand(r) /\ reported[r] = 0
       \/ ~InEntry(r) /\ InHand(r)  /\ reported[r] = 0
       \/ ~InEntry(r) /\ ~InHand(r) /\ reported[r] = 1
  ELSE ~InEntry(r) /\ ~InHand(r) /\ reported[r] = 0

Placed == OneHand /\ CountedHere /\ \A r \in Request : OnePlace(r)

IInv ==
  /\ TypeOK /\ IsFiniteSet(entries)
  /\ BySubExact /\ IdleIsEmpty /\ DropsWhatWasThere
  /\ FillsHold /\ HeldAtWork /\ RefillsServe
  /\ Placed

\* What a job may be, piece by piece.
LEMMA DoingType ==
  /\ Idle \in Doing
  /\ \A op \in Ops, keys \in SUBSET Key, hand \in SUBSET Request :
       [op |-> op, keys |-> keys, hand |-> hand] \in Doing
  /\ \A d \in Doing, keys \in SUBSET Key, hand \in SUBSET Request :
       [d EXCEPT !.keys = keys, !.hand = hand] \in Doing /\ [d EXCEPT !.hand = hand] \in Doing
  BY DEF Doing, Idle, Ops

LEMMA InitCache == Init => IInv
  <1> SUFFICES ASSUME Init PROVE IInv
    OBVIOUS
  <1>1. IsFiniteSet({}) /\ Cardinality({}) = 0
    BY FS_EmptySet
  <1>2. TypeOK /\ IsFiniteSet(entries)
    <2>1. job \in [Job -> Doing]
      BY DoingType DEF Init
    <2>2. age \in [Key -> 0..TTL]
      BY DEF Init
    <2>3. entries \subseteq Key /\ Cardinality(entries) <= CAPACITY /\ IsFiniteSet(entries)
      BY <1>1 DEF Init
    <2>4. /\ pc \in [Request -> Pc] /\ holds \subseteq Request
          /\ counted \in [Key -> SUBSET Request] /\ by_sub \in [Sub -> SUBSET Key]
          /\ subscribed \in BOOLEAN /\ before \in [Job -> SUBSET Key]
      BY DEF Init, Pc
    <2>5. reported \in [Request -> 0..2] /\ refills \in [Key -> 0..2]
      BY DEF Init
    <2> QED
      BY <2>1, <2>2, <2>3, <2>4, <2>5 DEF TypeOK
  <1>3. BySubExact /\ IdleIsEmpty /\ DropsWhatWasThere
    BY DEF Init, BySubExact, IdleIsEmpty, DropsWhatWasThere, Idle
  <1>4. FillsHold /\ HeldAtWork /\ RefillsServe
    BY DEF Init, FillsHold, HeldAtWork, RefillsServe
  <1>5. Placed
    BY DEF Init, Placed, OneHand, CountedHere, OnePlace, InEntry, InHand, Idle
  <1> QED
    BY <1>2, <1>3, <1>4, <1>5 DEF IInv

-----------------------------------------------------------------------------
(* Types, and the bound.                                                   *)

LEMMA ReportedType ==
  ASSUME TypeOK, NEW R
  PROVE  /\ Reported(R) \in [Request -> 0..2]
         /\ \A r \in Request : r \notin R => Reported(R)[r] = reported[r]
         /\ \A r \in Request : r \in R /\ reported[r] = 0 => Reported(R)[r] = 1
  BY DEF TypeOK, Reported

\* Oldest(k) of an insertion that is over the bound is one that is there.
LEMMA Bounded ==
  ASSUME IsFiniteSet(entries), Cardinality(entries) <= CAPACITY, NEW k, NEW out,
         out \in IF Over(k) THEN {{x} : x \in Oldest(k)} ELSE {{}}
  PROVE  IsFiniteSet((entries \cup {k}) \ out) /\ Cardinality((entries \cup {k}) \ out) <= CAPACITY
  <1> DEFINE with == entries \cup {k}
  <1>1. IsFiniteSet(with) /\ Cardinality(with) \in Nat /\ Cardinality(entries) \in Nat
    BY FS_AddElement, FS_CardinalityType
  <1>2. Cardinality(with) <= CAPACITY + 1
    BY FS_AddElement, <1>1
  <1>3. CASE ~Over(k)
    <2>1. out = {} /\ with \ out = with
      BY <1>3
    <2> QED
      BY <1>1, <1>3, <2>1 DEF Over
  <1>4. CASE Over(k)
    <2>1. PICK x \in with : out = {x}
      BY <1>4 DEF Oldest
    <2> HIDE DEF with
    <2>2. IsFiniteSet(with \ {x}) /\ Cardinality(with \ {x}) = Cardinality(with) - 1
      BY <1>1, FS_RemoveElement
    <2>3. with \ out = with \ {x}
      BY <2>1
    <2>4. IsFiniteSet(with \ out) /\ Cardinality(with \ out) <= CAPACITY
      BY <1>1, <1>2, <2>2, <2>3
    <2> QED
      BY <2>4 DEF with
  <1> QED
    BY <1>3, <1>4

\* The bound, when entries only leave.
LEMMA FewerEntries ==
  ASSUME IsFiniteSet(entries), Cardinality(entries) <= CAPACITY, NEW T \in SUBSET entries
  PROVE  IsFiniteSet(T) /\ Cardinality(T) <= CAPACITY
  <1>1. /\ IsFiniteSet(T) /\ Cardinality(T) <= Cardinality(entries)
        /\ Cardinality(T) \in Nat /\ Cardinality(entries) \in Nat
    BY FS_Subset, FS_CardinalityType
  <1> QED
    BY <1>1

\* What Insert does to the store, with the keys it pushed out.
Inserted(k, out) ==
  /\ entries' = (entries \cup {k}) \ out
  /\ age' = [x \in Key |-> IF x \in out \cup {k} THEN 0 ELSE age[x]]
  /\ counted' = [x \in Key |-> IF x \in out \cup {k} THEN {} ELSE counted[x]]
  /\ by_sub' = Reindexed(k, out)
  /\ reported' = Reported(UNION {counted[x] : x \in out \cup {k}})
  /\ refills' = [x \in Key |->
       IF x \in out THEN 0
       ELSE IF x = k /\ subscribed /\ refills[x] < 2 THEN refills[x] + 1 ELSE refills[x]]
  /\ before' = [j \in Job |-> before[j] \ (out \cup {k})]

LEMMA TypeStep ==
  ASSUME TypeOK, IsFiniteSet(entries), Next PROVE TypeOK' /\ IsFiniteSet(entries)'
  <1> USE DEF TypeOK
  <1>1. ASSUME NEW r \in Request, Arrive(r) PROVE TypeOK' /\ IsFiniteSet(entries)'
    BY <1>1 DEF Arrive, Pc, store
  <1>2. ASSUME NEW r \in Request, Acquire(r) PROVE TypeOK' /\ IsFiniteSet(entries)'
    BY <1>2 DEF Acquire, Pc, store
  <1>3. ASSUME NEW r \in Request, Insert(r) PROVE TypeOK' /\ IsFiniteSet(entries)'
    <2>1. KeyOf[r] \in Key
      OBVIOUS
    <2> DEFINE k == KeyOf[r]
    <2> HIDE DEF k
    <2>2. PICK out \in IF Over(k) THEN {{x} : x \in Oldest(k)} ELSE {{}} : Inserted(k, out)
      BY <1>3 DEF Insert, Inserted, k
    <2>3. IsFiniteSet(entries') /\ Cardinality(entries') <= CAPACITY
      BY <2>2, Bounded DEF Inserted
    <2>4. reported' \in [Request -> 0..2]
      BY <2>2, ReportedType DEF Inserted
    <2>5. by_sub' \in [Sub -> SUBSET Key] /\ entries' \subseteq Key
      BY <2>1, <2>2 DEF Inserted, Reindexed, k
    <2>6. age' \in [Key -> 0..TTL] /\ counted' \in [Key -> SUBSET Request]
      BY <2>2 DEF Inserted
    <2>7. refills' \in [Key -> 0..2]
      BY <2>2 DEF Inserted
    <2>8. before' \in [Job -> SUBSET Key]
      BY <2>2 DEF Inserted
    <2>9. pc' \in [Request -> Pc] /\ UNCHANGED <<holds, subscribed, job>>
      BY <1>3 DEF Insert, Pc
    <2> QED
      BY <2>3, <2>4, <2>5, <2>6, <2>7, <2>8, <2>9
  <1>4. ASSUME NEW r \in Request, FillFails(r) PROVE TypeOK' /\ IsFiniteSet(entries)'
    BY <1>4 DEF FillFails, Pc, store
  <1>5. ASSUME NEW r \in Request, Count(r) PROVE TypeOK' /\ IsFiniteSet(entries)'
    <2>1. reported' \in [Request -> 0..2]
      BY <1>5, ReportedType DEF Count
    <2>2. counted' \in [Key -> SUBSET Request]
      BY <1>5 DEF Count
    <2> QED
      BY <1>5, <2>1, <2>2 DEF Count, Pc
  <1>6. ASSUME NEW r \in Request, Cancel(r) PROVE TypeOK' /\ IsFiniteSet(entries)'
    BY <1>6 DEF Cancel, Pc, store
  <1>7. ASSUME NEW j \in Job, NEW op \in Ops, NEW keys \in SUBSET Key, NEW there \in SUBSET Key,
               Begin(j, op, keys, there), UNCHANGED subscribed
        PROVE  TypeOK' /\ IsFiniteSet(entries)'
    BY <1>7, DoingType DEF Begin, store
  <1>8. CASE Sweep
    <2>1. "sweeper" \in Job /\ "sweep" \in Ops /\ {k \in entries : Expired(k)} \in SUBSET Key
      BY DEF Job, Ops
    <2>2. /\ Begin("sweeper", "sweep", {k \in entries : Expired(k)}, {k \in entries : Expired(k)})
          /\ UNCHANGED subscribed
      BY <1>8 DEF Sweep
    <2> QED
      BY <1>7, <2>1, <2>2
  <1>9. ASSUME NEW j \in Job, NEW u \in Sub, DropSub(j, u) PROVE TypeOK' /\ IsFiniteSet(entries)'
    <2>1. "drop" \in Ops /\ by_sub[u] \in SUBSET Key /\ {k \in entries : SubOf[k] = u} \in SUBSET Key
      BY DEF Ops
    <2>2. /\ Begin(j, "drop", by_sub[u], {k \in entries : SubOf[k] = u})
          /\ UNCHANGED subscribed
      BY <1>9 DEF DropSub
    <2> QED
      BY <1>7, <2>1, <2>2
  <1>10. CASE Regain
    <2>1. "subscriber" \in Job /\ "regain" \in Ops
      BY DEF Job, Ops
    <2> QED
      BY <1>7, <1>10, <2>1 DEF Regain
  <1>11. CASE LoseSubscription
    <2>1. /\ subscribed' = FALSE /\ refills' = [k \in Key |-> 0]
          /\ UNCHANGED <<pc, holds, store, job, reported, before>>
      BY <1>11 DEF LoseSubscription
    <2>2. refills' \in [Key -> 0..2]
      BY <2>1
    <2> QED
      BY <2>1, <2>2 DEF store
  <1>12. ASSUME NEW j \in Job, NEW k \in Key, Evict(j, k) PROVE TypeOK' /\ IsFiniteSet(entries)'
    <2>1. IsFiniteSet(entries') /\ Cardinality(entries') <= CAPACITY
      BY <1>12, FewerEntries DEF Evict, Removed
    <2>2. job' \in [Job -> Doing]
      <3>1. job[j] \in Doing /\ job[j].keys \ {k} \in SUBSET Key /\ counted[k] \in SUBSET Request
        BY DEF Doing
      <3>2. job' = [job EXCEPT ![j] = [job[j] EXCEPT !.keys = job[j].keys \ {k}, !.hand = counted[k]]]
        BY <1>12 DEF Evict
      <3> QED
        BY <3>1, <3>2, DoingType
    <2> QED
      BY <1>12, <2>1, <2>2 DEF Evict, Removed
  <1>13. ASSUME NEW j \in Job, Flush(j) PROVE TypeOK' /\ IsFiniteSet(entries)'
    <2>1. reported' \in [Request -> 0..2]
      BY <1>13, ReportedType DEF Flush
    <2>2. job' = [job EXCEPT ![j] = [job[j] EXCEPT !.hand = {}]]
      BY <1>13 DEF Flush
    <2>3. job' \in [Job -> Doing]
      BY <2>2, DoingType
    <2>4. UNCHANGED <<pc, holds, store, subscribed, refills, before>>
      BY <1>13 DEF Flush
    <2> QED
      BY <2>1, <2>3, <2>4 DEF store
  <1>14. ASSUME NEW j \in Job, Finish(j) PROVE TypeOK' /\ IsFiniteSet(entries)'
    <2>1. /\ job' = [job EXCEPT ![j] = Idle] /\ before' = [before EXCEPT ![j] = {}]
          /\ UNCHANGED <<pc, holds, store, reported>>
      BY <1>14 DEF Finish
    <2>2. \/ subscribed' = TRUE /\ refills' = [k \in Key |-> 0]
          \/ UNCHANGED <<subscribed, refills>>
      BY <1>14 DEF Finish
    <2>4. subscribed' \in BOOLEAN
      BY <2>2
    <2>5. refills' \in [Key -> 0..2]
      BY <2>2
    <2>3. job' \in [Job -> Doing] /\ before' \in [Job -> SUBSET Key]
      BY <2>1, DoingType
    <2> QED
      BY <2>1, <2>3, <2>4, <2>5 DEF store
  <1>15. CASE Tick
    <2>1. age' \in [Key -> 0..TTL]
      <3>1. ASSUME NEW k \in Key PROVE (IF k \in entries /\ ~Expired(k) THEN age[k] + 1 ELSE age[k]) \in 0..TTL
        <4>1. age[k] \in 0..TTL /\ TTL \in Nat
          OBVIOUS
        <4>2. ~Expired(k) => age[k] + 1 \in 0..TTL
          BY <4>1 DEF Expired
        <4> QED
          BY <4>1, <4>2
      <3>2. age' = [k \in Key |-> IF k \in entries /\ ~Expired(k) THEN age[k] + 1 ELSE age[k]]
        BY <1>15 DEF Tick
      <3> QED
        BY <3>1, <3>2
    <2>2. refills' \in [Key -> 0..2]
      BY <1>15 DEF Tick
    <2> QED
      BY <1>15, <2>1, <2>2 DEF Tick
  <1> QED
    BY <1>1, <1>2, <1>3, <1>4, <1>5, <1>6, <1>8, <1>9, <1>10, <1>11, <1>12, <1>13, <1>14, <1>15
       DEF Next, RequestNext, JobNext

-----------------------------------------------------------------------------
(* The reverse index and the jobs.                                         *)

\* What a step does to the jobs.
LEMMA EvictJobs ==
  ASSUME TypeOK, NEW j \in Job, NEW k, Evict(j, k)
  PROVE  /\ job'[j].keys = job[j].keys \ {k} /\ job'[j].hand = counted[k] /\ job'[j].op = job[j].op
         /\ \A i \in Job \ {j} : job'[i] = job[i]
  BY DEF Evict, TypeOK, Doing

LEMMA FlushJobs ==
  ASSUME TypeOK, NEW j \in Job, Flush(j)
  PROVE  /\ job'[j].keys = job[j].keys /\ job'[j].hand = {} /\ job'[j].op = job[j].op
         /\ \A i \in Job \ {j} : job'[i] = job[i]
  BY DEF Flush, TypeOK, Doing

StoreOK == BySubExact /\ IdleIsEmpty /\ DropsWhatWasThere

LEMMA StoreStep ==
  ASSUME TypeOK, StoreOK, Next PROVE StoreOK'
  <1> USE DEF StoreOK
  <1>1. ASSUME UNCHANGED <<entries, by_sub, job, before>> PROVE StoreOK'
    BY <1>1 DEF BySubExact, IdleIsEmpty, DropsWhatWasThere
  <1>2. ASSUME NEW r \in Request, Arrive(r) \/ Acquire(r) \/ FillFails(r) \/ Count(r) \/ Cancel(r)
        PROVE  StoreOK'
    BY <1>1, <1>2 DEF Arrive, Acquire, FillFails, Count, Cancel, store
  <1>3. ASSUME NEW r \in Request, Insert(r) PROVE StoreOK'
    <2> DEFINE k == KeyOf[r]
    <2> HIDE DEF k
    <2>1. PICK out : Inserted(k, out)
      BY <1>3 DEF Insert, Inserted, k
    <2>2. UNCHANGED job
      BY <1>3 DEF Insert
    <2>3. BySubExact'
      BY <2>1 DEF Inserted, Reindexed, BySubExact
    <2>4. IdleIsEmpty' /\ DropsWhatWasThere'
      BY <2>1, <2>2 DEF Inserted, IdleIsEmpty, DropsWhatWasThere
    <2> QED
      BY <2>3, <2>4
  <1>4. ASSUME NEW j \in Job, NEW op, NEW keys, NEW there, there \subseteq keys, op # "idle",
               Begin(j, op, keys, there)
        PROVE  StoreOK'
    <2>1. BySubExact'
      BY <1>4 DEF Begin, store, BySubExact
    <2>2. /\ job'[j] = [op |-> op, keys |-> keys, hand |-> {}] /\ before'[j] = there
          /\ \A i \in Job \ {j} : job'[i] = job[i] /\ before'[i] = before[i]
      BY <1>4 DEF Begin, TypeOK
    <2>3. IdleIsEmpty' /\ DropsWhatWasThere'
      BY <1>4, <2>2 DEF IdleIsEmpty, DropsWhatWasThere
    <2> QED
      BY <2>1, <2>3
  <1>5. CASE Sweep
    BY <1>4, <1>5 DEF Sweep, Job
  <1>6. ASSUME NEW j \in Job, NEW u \in Sub, DropSub(j, u) PROVE StoreOK'
    <2>1. {k \in entries : SubOf[k] = u} \subseteq by_sub[u]
      BY DEF BySubExact
    <2> QED
      BY <1>4, <1>6, <2>1 DEF DropSub
  <1>7. CASE Regain
    BY <1>4, <1>7 DEF Regain, Job
  <1>8. CASE LoseSubscription
    BY <1>1, <1>8 DEF LoseSubscription, store
  <1>9. ASSUME NEW j \in Job, NEW k \in Key, Evict(j, k) PROVE StoreOK'
    <2>1. BySubExact'
      BY <1>9 DEF Evict, Removed, BySubExact
    <2>2. k \in job[j].keys /\ \A i \in Job : before'[i] = before[i] \ {k}
      BY <1>9 DEF Evict, Removed
    <2>3. IdleIsEmpty' /\ DropsWhatWasThere'
      BY <1>9, <2>2, EvictJobs DEF IdleIsEmpty, DropsWhatWasThere
    <2> QED
      BY <2>1, <2>3
  <1>10. ASSUME NEW j \in Job, Flush(j) PROVE StoreOK'
    <2>1. BySubExact'
      BY <1>10 DEF Flush, store, BySubExact
    <2>2. IdleIsEmpty' /\ DropsWhatWasThere'
      BY <1>10, FlushJobs DEF Flush, IdleIsEmpty, DropsWhatWasThere
    <2> QED
      BY <2>1, <2>2
  <1>11. ASSUME NEW j \in Job, Finish(j) PROVE StoreOK'
    <2>1. BySubExact'
      BY <1>11 DEF Finish, store, BySubExact
    <2>2. IdleIsEmpty' /\ DropsWhatWasThere'
      BY <1>11 DEF Finish, Idle, IdleIsEmpty, DropsWhatWasThere, TypeOK
    <2> QED
      BY <2>1, <2>2
  <1>12. CASE Tick
    BY <1>1, <1>12 DEF Tick
  <1> QED
    BY <1>2, <1>3, <1>5, <1>6, <1>7, <1>8, <1>9, <1>10, <1>11, <1>12 DEF Next, RequestNext, JobNext

-----------------------------------------------------------------------------
(* The fill locks.                                                         *)

LockOK == FillsHold /\ HeldAtWork /\ RefillsServe

LEMMA LockStep ==
  ASSUME TypeOK, LockOK, Next PROVE LockOK'
  <1> USE DEF LockOK
  <1>1. ASSUME UNCHANGED <<pc, holds, entries, age, subscribed, refills>> PROVE LockOK'
    BY <1>1 DEF FillsHold, HeldAtWork, RefillsServe, Hit, Expired
  <1>2. ASSUME NEW r \in Request, Arrive(r) PROVE LockOK'
    <2>1. FillsHold' /\ HeldAtWork'
      BY <1>2 DEF Arrive, FillsHold, HeldAtWork, TypeOK
    <2>2. RefillsServe'
      BY <1>2 DEF Arrive, RefillsServe, Hit, Expired, TypeOK, store
    <2> QED
      BY <2>1, <2>2
  <1>3. ASSUME NEW r \in Request, Acquire(r) PROVE LockOK'
    <2>1. FillsHold' /\ HeldAtWork'
      BY <1>3 DEF Acquire, LockFree, FillsHold, HeldAtWork, TypeOK
    <2>2. ~Hit(KeyOf[r]) => refills[KeyOf[r]] = 0
      BY DEF RefillsServe
    <2>3. ASSUME NEW q \in Request, pc'[q] = "filling"
          PROVE  pc[q] = "filling" \/ (q = r /\ ~Hit(KeyOf[r]))
      <3>1. pc \in [Request -> Pc]
        BY DEF TypeOK
      <3>2. CASE Hit(KeyOf[r])
        <4>1. pc' = [pc EXCEPT ![r] = "count"]
          BY <1>3, <3>2 DEF Acquire
        <4> QED
          BY <2>3, <3>1, <4>1
      <3>3. CASE ~Hit(KeyOf[r])
        BY <1>3, <2>3, <3>1, <3>3 DEF Acquire
      <3> QED
        BY <3>2, <3>3
    <2>4. RefillsServe'
      BY <1>3, <2>2, <2>3 DEF Acquire, RefillsServe, Hit, Expired, store
    <2> QED
      BY <2>1, <2>4
  <1>4. ASSUME NEW r \in Request, Insert(r) PROVE LockOK'
    <2> DEFINE k == KeyOf[r]
    <2>1. k \in Key /\ refills[k] = 0 /\ r \in holds
      BY <1>4 DEF Insert, RefillsServe, FillsHold
    <2>2. pc' = [pc EXCEPT ![r] = "count"] /\ UNCHANGED <<holds, subscribed>>
      BY <1>4 DEF Insert
    <2>3. FillsHold' /\ HeldAtWork'
      BY <2>2 DEF FillsHold, HeldAtWork, TypeOK
    <2>4. ASSUME NEW q \in Request, pc'[q] = "filling" PROVE KeyOf[q] # k /\ pc[q] = "filling"
      <3>1. q # r /\ pc[q] = "filling" /\ q \in holds
        BY <2>2, <2>4 DEF FillsHold, TypeOK
      <3> QED
        BY <2>1, <3>1 DEF HeldAtWork
    <2>5. PICK out : Inserted(k, out)
      BY <1>4 DEF Insert, Inserted
    <2> HIDE DEF k
    <2>6. ASSUME NEW x \in Key, refills'[x] # 0 PROVE refills'[x] = 1 /\ Hit(x)'
      <3>1. x \notin out /\ refills'[x] = (IF x = k /\ subscribed /\ refills[x] < 2 THEN refills[x] + 1 ELSE refills[x])
        BY <2>5, <2>6 DEF Inserted
      <3>2. CASE x = k
        <4>1. subscribed /\ refills'[x] = 1
          BY <2>1, <2>6, <3>1, <3>2
        <4>2. x \in entries' /\ age'[x] = 0
          BY <2>5, <3>1, <3>2 DEF Inserted
        <4> QED
          BY <2>2, <4>1, <4>2 DEF Hit, Expired
      <3>3. CASE x # k
        <4>1. refills'[x] = refills[x] /\ age'[x] = age[x] /\ (x \in entries => x \in entries')
          BY <2>5, <3>1, <3>3 DEF Inserted
        <4> QED
          BY <2>2, <2>6, <4>1 DEF Hit, Expired, RefillsServe
      <3> QED
        BY <3>2, <3>3
    <2>7. ASSUME NEW q \in Request, pc'[q] = "filling" PROVE refills'[KeyOf[q]] = 0
      <3>1. KeyOf[q] \in Key /\ KeyOf[q] # k /\ refills[KeyOf[q]] = 0
        BY <2>4, <2>7 DEF RefillsServe
      <3> QED
        BY <2>5, <3>1 DEF Inserted
    <2> QED
      BY <2>3, <2>6, <2>7 DEF RefillsServe
  <1>5. ASSUME NEW r \in Request, FillFails(r) \/ Count(r) \/ Cancel(r) PROVE LockOK'
    <2>1. /\ UNCHANGED <<entries, age, subscribed, refills>> /\ holds' = holds \ {r}
          /\ \A q \in Request : q # r => pc'[q] = pc[q]
          /\ pc'[r] # "filling"
      BY <1>5 DEF FillFails, Count, Cancel, TypeOK, store
    <2>2. FillsHold' /\ HeldAtWork'
      BY <2>1 DEF FillsHold, HeldAtWork, TypeOK
    <2>3. RefillsServe'
      BY <2>1 DEF RefillsServe, Hit, Expired
    <2> QED
      BY <2>2, <2>3
  <1>6. ASSUME NEW j \in Job, NEW op, NEW keys, NEW there,
               Begin(j, op, keys, there), UNCHANGED subscribed
        PROVE  LockOK'
    BY <1>1, <1>6 DEF Begin, store
  <1>7. CASE Sweep \/ Regain
    BY <1>6, <1>7 DEF Sweep, Regain, Job
  <1>8. ASSUME NEW j \in Job, NEW u \in Sub, DropSub(j, u) PROVE LockOK'
    BY <1>6, <1>8 DEF DropSub
  <1>9. ASSUME UNCHANGED <<pc, holds>>, refills' = [k \in Key |-> 0] PROVE LockOK'
    BY <1>9 DEF FillsHold, HeldAtWork, RefillsServe
  <1>10. CASE LoseSubscription
    BY <1>9, <1>10 DEF LoseSubscription
  <1>11. ASSUME NEW j \in Job, NEW k \in Key, Evict(j, k) PROVE LockOK'
    <2>1. FillsHold' /\ HeldAtWork'
      BY <1>11 DEF Evict, FillsHold, HeldAtWork
    <2>2. RefillsServe'
      BY <1>11 DEF Evict, Removed, RefillsServe, Hit, Expired
    <2> QED
      BY <2>1, <2>2
  <1>12. ASSUME NEW j \in Job, Flush(j) PROVE LockOK'
    BY <1>1, <1>12 DEF Flush, store
  <1>13. ASSUME NEW j \in Job, Finish(j) PROVE LockOK'
    BY <1>1, <1>9, <1>13 DEF Finish, store
  <1>14. CASE Tick
    <2>1. FillsHold' /\ HeldAtWork'
      BY <1>14 DEF Tick, FillsHold, HeldAtWork
    <2>2. ASSUME NEW k \in Key, refills'[k] # 0 PROVE refills'[k] = 1 /\ Hit(k)'
      <3>1. refills'[k] = refills[k] /\ ~(k \in entries /\ age[k] + 1 = TTL)
        BY <1>14, <2>2 DEF Tick
      <3>2. refills[k] = 1 /\ subscribed /\ k \in entries /\ age[k] # TTL
        BY <2>2, <3>1 DEF RefillsServe, Hit, Expired
      <3>3. age'[k] = age[k] + 1 /\ entries' = entries /\ subscribed' = subscribed
        BY <1>14, <3>2 DEF Tick, Expired
      <3> QED
        BY <3>1, <3>2, <3>3 DEF Hit, Expired
    <2>3. \A r \in Request : pc'[r] = "filling" => refills'[KeyOf[r]] = 0
      BY <1>14 DEF Tick, RefillsServe
    <2> QED
      BY <2>1, <2>2, <2>3 DEF RefillsServe
  <1> QED
    BY <1>2, <1>3, <1>4, <1>5, <1>7, <1>8, <1>10, <1>11, <1>12, <1>13, <1>14
       DEF Next, RequestNext, JobNext

-----------------------------------------------------------------------------
(* Every decision in one place.                                            *)

LEMMA PlacedStep ==
  ASSUME TypeOK, IdleIsEmpty, Placed, Next PROVE Placed'
  <1>1. ASSUME \A r \in Request : (pc'[r] = "answered") = (pc[r] = "answered"),
               \A k \in entries : k \in entries', \A j \in Job : job'[j].hand = job[j].hand,
               UNCHANGED <<counted, reported>>
        PROVE  Placed'
    <2>1. OneHand'
      BY <1>1 DEF Placed, OneHand
    <2>2. CountedHere'
      BY <1>1 DEF Placed, CountedHere
    <2>3. ASSUME NEW r \in Request PROVE OnePlace(r)'
      BY <1>1, <2>3 DEF Placed, OnePlace, InEntry, InHand
    <2> QED
      BY <2>1, <2>2, <2>3 DEF Placed
  <1>2. ASSUME NEW r \in Request, Arrive(r) \/ Acquire(r) \/ FillFails(r) \/ Cancel(r) PROVE Placed'
    <2>1. \A q \in Request : (pc'[q] = "answered") = (pc[q] = "answered")
      BY <1>2 DEF Arrive, Acquire, FillFails, Cancel, TypeOK
    <2>2. UNCHANGED <<entries, counted, reported, job>>
      BY <1>2 DEF Arrive, Acquire, FillFails, Cancel, store
    <2> QED
      BY <1>1, <2>1, <2>2
  <1>3. ASSUME NEW r \in Request, Insert(r) PROVE Placed'
    <2> DEFINE k == KeyOf[r]
    <2> HIDE DEF k
    <2>1. PICK out : Inserted(k, out) /\ \A x \in out : x \in Key
      <3>1. PICK out \in IF Over(k) THEN {{x} : x \in Oldest(k)} ELSE {{}} : Inserted(k, out)
        BY <1>3 DEF Insert, Inserted, k
      <3>2. k \in Key /\ entries \subseteq Key
        BY DEF k, TypeOK
      <3>3. \A x \in out : x \in Oldest(k)
        BY <3>1
      <3> QED
        BY <3>1, <3>2, <3>3 DEF Oldest
    <2>2. k \in Key
      BY DEF k
    <2>3. /\ UNCHANGED job
          /\ \A q \in Request : (pc'[q] = "answered") = (pc[q] = "answered")
      BY <1>3 DEF Insert, TypeOK
    <2> DEFINE gone == UNION {counted[x] : x \in out \cup {k}}
    <2>4. \A q \in Request : q \in gone <=> InEntry(q) /\ KeyOf[q] \in out \cup {k}
      BY <2>1, <2>2 DEF Placed, CountedHere, InEntry, TypeOK
    <2>5. reported' = Reported(gone)
      BY <2>1 DEF Inserted
    <2> HIDE DEF gone
    <2>6. \A q \in Request : InEntry(q)' <=> InEntry(q) /\ KeyOf[q] \notin out \cup {k}
      BY <2>1 DEF Inserted, InEntry
    <2>7. \A q \in Request : InHand(q)' <=> InHand(q)
      BY <2>3 DEF InHand
    <2>8. ASSUME NEW q \in Request PROVE OnePlace(q)'
      <3>1. OnePlace(q)
        BY DEF Placed
      <3>2. q \in gone /\ reported[q] = 0 => reported'[q] = 1
        BY <2>5, ReportedType
      <3>3. q \notin gone => reported'[q] = reported[q]
        BY <2>5, ReportedType
      <3>4. InEntry(q) => pc[q] = "answered" /\ reported[q] = 0 /\ ~InHand(q)
        BY <3>1 DEF OnePlace
      <3>5. CASE q \in gone
        BY <2>3, <2>4, <2>6, <2>7, <3>2, <3>4, <3>5 DEF OnePlace
      <3>6. CASE q \notin gone
        BY <2>3, <2>4, <2>6, <2>7, <3>1, <3>3, <3>6 DEF OnePlace
      <3> QED
        BY <3>5, <3>6
    <2>9. OneHand' /\ CountedHere'
      BY <2>1, <2>3 DEF Placed, OneHand, CountedHere, Inserted
    <2> QED
      BY <2>8, <2>9 DEF Placed
  <1>4. ASSUME NEW r \in Request, Count(r) PROVE Placed'
    <2>1. /\ ~InEntry(r) /\ ~InHand(r) /\ reported[r] = 0
          /\ pc[r] = "count" /\ pc'[r] = "answered"
          /\ \A q \in Request \ {r} : pc'[q] = pc[q]
          /\ UNCHANGED <<entries, job>>
      BY <1>4 DEF Count, Placed, OnePlace, TypeOK
    <2>2. OneHand' /\ \A q \in Request : InHand(q)' = InHand(q)
      BY <2>1 DEF Placed, OneHand, InHand
    <2>3. CASE KeyOf[r] \in entries
      <3>1. counted' = [counted EXCEPT ![KeyOf[r]] = @ \cup {r}] /\ UNCHANGED reported
        BY <1>4, <2>3 DEF Count
      <3>2. CountedHere' /\ InEntry(r)' /\ \A q \in Request \ {r} : InEntry(q)' <=> InEntry(q)
        BY <2>1, <2>3, <3>1 DEF Placed, CountedHere, InEntry, TypeOK
      <3>3. ASSUME NEW q \in Request PROVE OnePlace(q)'
        BY <2>1, <2>2, <3>1, <3>2 DEF Placed, OnePlace
      <3> QED
        BY <2>2, <3>2, <3>3 DEF Placed
    <2>4. CASE KeyOf[r] \notin entries
      <3>1. reported' = Reported({r}) /\ UNCHANGED counted
        BY <1>4, <2>4 DEF Count
      <3>2. CountedHere' /\ \A q \in Request : InEntry(q)' = InEntry(q)
        BY <2>1, <3>1 DEF Placed, CountedHere, InEntry
      <3>3. reported'[r] = 1 /\ \A q \in Request \ {r} : reported'[q] = reported[q]
        BY <2>1, <3>1, ReportedType
      <3>4. ASSUME NEW q \in Request PROVE OnePlace(q)'
        BY <2>1, <2>2, <3>2, <3>3 DEF Placed, OnePlace
      <3> QED
        BY <2>2, <3>2, <3>4 DEF Placed
    <2> QED
      BY <2>3, <2>4
  <1>5. ASSUME NEW j \in Job, NEW op, NEW keys, NEW there, Begin(j, op, keys, there)
        PROVE  Placed'
    <2>1. \A i \in Job : job'[i].hand = job[i].hand
      BY <1>5 DEF Begin, IdleIsEmpty, TypeOK
    <2> QED
      BY <1>1, <1>5, <2>1 DEF Begin, store
  <1>6. CASE Sweep \/ Regain
    BY <1>5, <1>6 DEF Sweep, Regain, Job
  <1>7. ASSUME NEW j \in Job, NEW u \in Sub, DropSub(j, u) PROVE Placed'
    BY <1>5, <1>7 DEF DropSub
  <1>8. CASE LoseSubscription \/ Tick
    BY <1>1, <1>8 DEF LoseSubscription, Tick, store
  <1>9. ASSUME NEW j \in Job, NEW k \in Key, Evict(j, k) PROVE Placed'
    <2>1. /\ entries' = entries \ {k} /\ UNCHANGED <<pc, reported>>
          /\ counted' = [x \in Key |-> IF x = k THEN {} ELSE counted[x]]
          /\ job[j].hand = {}
      BY <1>9 DEF Evict, Removed
    <2>2. job'[j].hand = counted[k] /\ \A i \in Job \ {j} : job'[i] = job[i]
      BY <1>9, EvictJobs
    <2>3. \A q \in Request : q \in counted[k] <=> InEntry(q) /\ KeyOf[q] = k
      BY DEF Placed, CountedHere, InEntry
    <2>4. \A q \in Request : InEntry(q)' <=> InEntry(q) /\ KeyOf[q] # k
      BY <2>1 DEF InEntry
    <2>5. \A q \in Request : InHand(q)' <=> InHand(q) \/ q \in counted[k]
      BY <2>1, <2>2 DEF InHand
    <2>6. \A q \in Request : InEntry(q) => ~InHand(q)
      BY DEF Placed, OnePlace
    <2>7. OneHand'
      BY <2>1, <2>2, <2>3, <2>6 DEF Placed, OneHand, InHand
    <2>8. CountedHere'
      BY <2>1 DEF Placed, CountedHere
    <2>9. ASSUME NEW q \in Request PROVE OnePlace(q)'
      BY <2>1, <2>3, <2>4, <2>5 DEF Placed, OnePlace
    <2> QED
      BY <2>7, <2>8, <2>9 DEF Placed
  <1>10. ASSUME NEW j \in Job, Flush(j) PROVE Placed'
    <2>1. reported' = Reported(job[j].hand) /\ UNCHANGED <<pc, entries, counted>>
      BY <1>10 DEF Flush, store
    <2>2. job'[j].hand = {} /\ \A i \in Job \ {j} : job'[i] = job[i]
      BY <1>10, FlushJobs
    <2>3. \A q \in Request : q \in job[j].hand => InHand(q) /\ reported[q] = 0 /\ reported'[q] = 1
      BY <2>1, ReportedType DEF Placed, OnePlace, InHand
    <2>4. \A q \in Request : q \notin job[j].hand => reported'[q] = reported[q]
      BY <2>1, ReportedType
    <2>5. \A q \in Request : InHand(q)' <=> InHand(q) /\ q \notin job[j].hand
      BY <2>2 DEF Placed, OneHand, InHand
    <2>6. \A q \in Request : InEntry(q)' <=> InEntry(q)
      BY <2>1 DEF InEntry
    <2>7. OneHand' /\ CountedHere'
      BY <2>1, <2>2 DEF Placed, OneHand, CountedHere
    <2>8. ASSUME NEW q \in Request PROVE OnePlace(q)'
      <3>1. OnePlace(q)
        BY DEF Placed
      <3> QED
        BY <2>1, <2>3, <2>4, <2>5, <2>6, <3>1 DEF OnePlace
    <2> QED
      BY <2>7, <2>8 DEF Placed
  <1>11. ASSUME NEW j \in Job, Finish(j) PROVE Placed'
    <2>1. \A i \in Job : job'[i].hand = job[i].hand
      BY <1>11 DEF Finish, Idle, TypeOK
    <2> QED
      BY <1>1, <1>11, <2>1 DEF Finish, store
  <1> QED
    BY <1>2, <1>3, <1>4, <1>6, <1>7, <1>8, <1>9, <1>10, <1>11 DEF Next, RequestNext, JobNext

\* One place, counted.
LEMMA PlacedIsCountedOnce ==
  ASSUME TypeOK, Placed PROVE CountedOnce
  <1> SUFFICES ASSUME NEW r \in Request PROVE Places(r) = IF pc[r] = "answered" THEN 1 ELSE 0
    BY DEF CountedOnce
  <1> DEFINE in   == {k \in entries : r \in counted[k]}
             hand == {j \in Job : r \in job[j].hand}
  <1>1. Cardinality(in) = IF InEntry(r) THEN 1 ELSE 0
    <2>1. in = IF InEntry(r) THEN {KeyOf[r]} ELSE {}
      BY DEF Placed, CountedHere, InEntry, TypeOK
    <2> HIDE DEF in
    <2> QED
      BY <2>1, FS_EmptySet, FS_Singleton
  <1>2. Cardinality(hand) = IF InHand(r) THEN 1 ELSE 0
    <2>1. CASE InHand(r)
      <3>1. PICK j \in Job : r \in job[j].hand
        BY <2>1 DEF InHand
      <3>2. hand = {j}
        BY <3>1 DEF Placed, OneHand
      <3> HIDE DEF hand
      <3> QED
        BY <2>1, <3>2, FS_Singleton
    <2>2. CASE ~InHand(r)
      <3>1. hand = {}
        BY <2>2 DEF InHand
      <3> HIDE DEF hand
      <3> QED
        BY <2>2, <3>1, FS_EmptySet
    <2> QED
      BY <2>1, <2>2
  <1>3. Places(r) = Cardinality(in) + Cardinality(hand) + reported[r]
    BY DEF Places
  <1>4. OnePlace(r) /\ reported[r] \in Nat
    BY DEF Placed, TypeOK
  <1> HIDE DEF in, hand
  <1> QED
    BY <1>1, <1>2, <1>3, <1>4 DEF OnePlace

-----------------------------------------------------------------------------
LEMMA CacheStep == IInv /\ [Next]_vars => IInv'
  <1> SUFFICES ASSUME IInv, [Next]_vars PROVE IInv'
    OBVIOUS
  <1>1. CASE Next
    BY <1>1, TypeStep, StoreStep, LockStep, PlacedStep DEF IInv, StoreOK, LockOK
  <1>2. CASE UNCHANGED vars
    BY <1>2 DEF vars, store, IInv, TypeOK, BySubExact, IdleIsEmpty, DropsWhatWasThere, FillsHold,
                HeldAtWork, RefillsServe, Hit, Expired, Placed, OneHand, CountedHere, OnePlace,
                InEntry, InHand
  <1> QED
    BY <1>1, <1>2

\* The inductive invariant of one instance's cache.
THEOREM CacheInvariance == Spec => []IInv
  BY InitCache, CacheStep, PTL DEF Spec

\* The bound holds after every insert (cache.rs insert), and every structure
\* keeps its type, however many entries, requests and jobs there are.
THEOREM CacheTypeCorrect == Spec => []TypeOK
  BY CacheInvariance, PTL DEF IInv

\* cache.rs tracked: the reverse index is exactly what is there, so no entry is
\* hidden from drop_sub.
THEOREM BySubAlwaysExact == Spec => []BySubExact
  BY CacheInvariance, PTL DEF IInv

\* cache.rs evict: an answered request is in one entry's counters, one flush or
\* one row, whatever removes the entry meanwhile.
THEOREM AlwaysCountedOnce == Spec => []CountedOnce
  <1>1. IInv => CountedOnce
    BY PlacedIsCountedOnce DEF IInv
  <1> QED
    BY <1>1, CacheInvariance, PTL

\* decide.rs decided, the second look under the fill lock: an entry that can be
\* served is not filled again.
THEOREM AlwaysOneRefresh == Spec => []OneRefresh
  <1>1. IInv => OneRefresh
    BY DEF IInv, RefillsServe, OneRefresh, TypeOK
  <1> QED
    BY <1>1, CacheInvariance, PTL

\* drop_sub, flush_all and sweep end with nothing left of what they began with:
\* what allows KillSwitch to take a drop for one step.
THEOREM DropsAreComplete == Spec => []DropsWhatWasThere
  BY CacheInvariance, PTL DEF IInv

\* A fill lock is held by one request at work, and given back on every way out
\* of decide.rs decided.
THEOREM LocksAreHeldAtWork == Spec => []HeldAtWork
  BY CacheInvariance, PTL DEF IInv
=============================================================================
