-------------------------- MODULE ExternalStoreProofs --------------------------
(***************************************************************************)
(* Proofs about the two parts whose state is in another program's store,   *)
(* SessionIndex in Redis and SecondFactor in Keycloak; and about all four  *)
(* of MCStores, with those PostgresProofs has.                             *)
(***************************************************************************)
EXTENDS MCStores, PostgresProofs

-----------------------------------------------------------------------------
(***************************************************************************)
(* SessionIndex, for every number of sessions and requests, every          *)
(* INDEX_TTL that is at least cookie_expire, and every bound of the clock: *)
(* the set a session was recorded in lives as long as the session.         *)
(***************************************************************************)
HIDE TableAssumption
USE IndexAssumption

\* No session outlives a renewal now.
UntilBound == \A k \in SessionKey : until[k] <= clock + cookie_expire

\* RecordedIsFindable, and that it will stay so without another request.
Outlived ==
  \A k \in SessionKey : until[k] # 0 /\ k \notin behind => k \in members /\ setUntil >= until[k]

\* Between its commands record has its key in the set, unless the set came to
\* its end or a sign-out has taken the key.
AddedStays ==
  \A m \in Miss : miss[m].pc = "expire" /\ ~miss[m].cut =>
    miss[m].key \in members \/ until[miss[m].key] = 0

IndexInv == IndexTypeOK /\ UntilBound /\ Outlived /\ AddedStays

LEMMA NoMissPc == \A m \in Miss : IndexTypeOK =>
                    /\ miss[m] = NoMiss <=> miss[m].pc = "idle"
                    /\ miss[m].pc \in {"sadd", "expire"} =>
                         miss[m] \in [pc : {"sadd", "expire"}, key : SessionKey, cut : BOOLEAN]
  BY DEF IndexTypeOK, NoMiss

LEMMA InitIndex == IndexInit => IndexInv
  BY DEF IndexInit, IndexInv, IndexTypeOK, UntilBound, Outlived, AddedStays, NoMiss, Never

LEMMA SignInInv == ASSUME IndexInv, NEW k \in SessionKey, SignIn(k) PROVE IndexInv'
  <1> USE DEF IndexInv, SignIn
  <1>1. IndexTypeOK'
    BY DEF IndexTypeOK
  <1>2. UntilBound' /\ Outlived'
    BY DEF IndexTypeOK, UntilBound, Outlived
  <1>3. AddedStays'
    BY NoMissPc DEF IndexTypeOK, AddedStays
  <1> QED
    BY <1>1, <1>2, <1>3

LEMMA AuthenticateInv ==
  ASSUME IndexInv, NEW m \in Miss, NEW k \in SessionKey, Authenticate(m, k) PROVE IndexInv'
  <1> USE DEF IndexInv
  <1> PICK renewed \in BOOLEAN :
        /\ miss[m] = NoMiss /\ until[k] # 0
        /\ until' = IF renewed THEN [until EXCEPT ![k] = clock + cookie_expire] ELSE until
        /\ behind' = IF renewed THEN behind \cup {k} ELSE behind
        /\ miss' = [miss EXCEPT ![m] = [pc |-> "sadd", key |-> k, cut |-> FALSE]]
        /\ UNCHANGED <<clock, members, setUntil>>
    BY DEF Authenticate
  <1>1. IndexTypeOK'
    BY DEF IndexTypeOK
  <1>2. UntilBound' /\ Outlived'
    BY DEF IndexTypeOK, UntilBound, Outlived
  <1>3. AddedStays'
    <2> SUFFICES ASSUME NEW n \in Miss, miss'[n].pc = "expire", ~miss'[n].cut
                 PROVE  miss'[n].key \in members' \/ until'[miss'[n].key] = 0
      BY DEF AddedStays
    <2>1. n # m /\ miss'[n] = miss[n]
      BY DEF IndexTypeOK
    <2>2. miss[n].key \in SessionKey
      BY <2>1, NoMissPc
    <2> QED
      BY <2>1, <2>2, <1>1 DEF AddedStays, IndexTypeOK
  <1> QED
    BY <1>1, <1>2, <1>3

\* The first command, done: it only adds, and to a set of no life it gives the
\* longest one.
LEMMA SaddInv ==
  ASSUME IndexInv, NEW m \in Miss, miss[m].pc = "sadd",
         members' = members \cup {miss[m].key},
         setUntil' = IF members = {} THEN Never ELSE setUntil,
         miss' = [miss EXCEPT ![m].pc = "expire"] \/ miss' = [miss EXCEPT ![m] = NoMiss],
         UNCHANGED <<clock, until, behind>>
  PROVE  IndexInv'
  <1> USE DEF IndexInv
  <1>1. miss[m].key \in SessionKey
    BY NoMissPc
  <1>2. miss' \in [Miss -> {NoMiss} \cup [pc : {"sadd", "expire"}, key : SessionKey, cut : BOOLEAN]]
    BY NoMissPc DEF IndexTypeOK
  <1>3. IndexTypeOK'
    BY <1>1, <1>2 DEF IndexTypeOK, Never
  <1>4. UntilBound' /\ Outlived'
    BY <1>1 DEF IndexTypeOK, UntilBound, Outlived, Never
  <1>5. AddedStays'
    <2> SUFFICES ASSUME NEW n \in Miss, miss'[n].pc = "expire", ~miss'[n].cut
                 PROVE  miss'[n].key \in members' \/ until'[miss'[n].key] = 0
      BY DEF AddedStays
    <2>1. CASE n = m
      BY <2>1, <1>1 DEF IndexTypeOK, NoMiss
    <2>2. CASE n # m
      BY <2>2 DEF IndexTypeOK, AddedStays
    <2> QED
      BY <2>1, <2>2
  <1> QED
    BY <1>3, <1>4, <1>5

\* The second command, done: the set outlives every session there can be.
LEMMA ExpireInv ==
  ASSUME IndexInv, NEW m \in Miss, miss[m].pc = "expire",
         setUntil' = IF members = {} THEN setUntil ELSE clock + INDEX_TTL,
         behind' = behind \/ behind' = IF miss[m].cut THEN behind ELSE behind \ {miss[m].key},
         miss' = [miss EXCEPT ![m] = NoMiss],
         UNCHANGED <<clock, until, members>>
  PROVE  IndexInv'
  <1> USE DEF IndexInv
  <1>1. miss[m].key \in SessionKey
    BY NoMissPc
  <1>2. IndexTypeOK'
    <2>1. setUntil' \in 0..Never /\ (members # {} => setUntil' > clock)
      BY DEF IndexTypeOK, Never
    <2>2. behind' \subseteq SessionKey
      BY DEF IndexTypeOK
    <2> QED
      BY <2>1, <2>2 DEF IndexTypeOK
  <1>3. ASSUME NEW k \in SessionKey, until[k] # 0, k \notin behind'
        PROVE  k \in members /\ setUntil' >= until[k]
    <2>1. k \in members
      BY <1>3 DEF Outlived, AddedStays
    <2>2. setUntil' = clock + INDEX_TTL
      BY <2>1
    <2>3. until[k] <= clock + cookie_expire
      BY DEF UntilBound
    <2> QED
      BY <2>1, <2>2, <2>3 DEF IndexTypeOK
  <1>4. AddedStays'
    BY DEF IndexTypeOK, AddedStays, NoMiss
  <1> QED
    BY <1>2, <1>3, <1>4 DEF UntilBound, Outlived

LEMMA RecordFailsInv == ASSUME IndexInv, NEW m \in Miss, RecordFails(m) PROVE IndexInv'
  <1>1. CASE UNCHANGED <<members, setUntil>>
    BY <1>1 DEF RecordFails, IndexInv, IndexTypeOK, UntilBound, Outlived, AddedStays, NoMiss
  <1>2. CASE miss[m].pc = "sadd" /\ members' = members \cup {miss[m].key}
             /\ setUntil' = IF members = {} THEN Never ELSE setUntil
    BY <1>2, SaddInv DEF RecordFails
  <1>3. CASE miss[m].pc = "expire" /\ members # {} /\ setUntil' = clock + INDEX_TTL
             /\ UNCHANGED members
    BY <1>3, ExpireInv DEF RecordFails
  <1> QED
    BY <1>1, <1>2, <1>3 DEF RecordFails

LEMMA SignOutInv ==
  ASSUME IndexInv, NEW k \in SessionKey, SignOut(k) \/ ForgetSession(k) PROVE IndexInv'
  <1>1. CASE SignOut(k)
    BY <1>1, NoMissPc DEF SignOut, IndexInv, IndexTypeOK, UntilBound, Outlived, AddedStays
  <1>2. CASE ForgetSession(k)
    BY <1>2, NoMissPc DEF ForgetSession, IndexInv, IndexTypeOK, UntilBound, Outlived, AddedStays
  <1> QED
    BY <1>1, <1>2

\* A set that ends has no living session in it that was recorded.
LEMMA ClockTicksInv == ASSUME IndexInv, ClockTicks PROVE IndexInv'
  <1> USE DEF IndexInv
  <1>1. /\ clock < MaxClock /\ clock' = clock + 1 /\ UNCHANGED <<setUntil, behind>>
        /\ until' = [k \in SessionKey |-> IF until[k] <= clock + 1 THEN 0 ELSE until[k]]
    BY DEF ClockTicks
  <1>2. UntilBound'
    BY <1>1 DEF IndexTypeOK, UntilBound
  <1>3. CASE members # {} /\ setUntil <= clock + 1
    <2>1. /\ members' = {}
          /\ miss' = [m \in Miss |-> IF miss[m].pc = "expire" THEN [miss[m] EXCEPT !.cut = TRUE]
                                                             ELSE miss[m]]
      BY <1>3 DEF ClockTicks
    <2>2. \A m \in Miss :
            miss'[m] \in {NoMiss} \cup [pc : {"sadd", "expire"}, key : SessionKey, cut : BOOLEAN]
      BY <2>1, NoMissPc DEF IndexTypeOK
    <2>3. IndexTypeOK'
      BY <1>1, <2>1, <2>2 DEF IndexTypeOK
    <2>4. Outlived'
      BY <1>1, <1>3 DEF IndexTypeOK, Outlived
    <2>5. AddedStays'
      <3> SUFFICES ASSUME NEW m \in Miss, miss'[m].pc = "expire" PROVE miss'[m].cut
        BY DEF AddedStays
      <3>1. miss[m].pc = "expire"
        BY <2>1
      <3> QED
        BY <2>1, <3>1, NoMissPc
    <2> QED
      BY <1>2, <2>3, <2>4, <2>5
  <1>4. CASE ~(members # {} /\ setUntil <= clock + 1)
    <2>1. UNCHANGED <<members, miss>>
      BY <1>4 DEF ClockTicks
    <2>2. IndexTypeOK'
      BY <1>1, <1>4, <2>1 DEF IndexTypeOK
    <2>3. Outlived'
      BY <1>1, <2>1 DEF IndexTypeOK, Outlived
    <2>4. AddedStays'
      BY <1>1, <2>1, NoMissPc DEF IndexTypeOK, AddedStays
    <2> QED
      BY <1>2, <2>2, <2>3, <2>4
  <1> QED
    BY <1>3, <1>4

LEMMA IndexStep == IndexInv /\ [IndexNext]_indexVars => IndexInv'
  <1> SUFFICES ASSUME IndexInv, [IndexNext]_indexVars PROVE IndexInv'
    OBVIOUS
  <1>1. ASSUME NEW k \in SessionKey, SignIn(k) \/ SignOut(k) \/ ForgetSession(k) PROVE IndexInv'
    BY <1>1, SignInInv, SignOutInv
  <1>2. ASSUME NEW m \in Miss, Sadd(m) PROVE IndexInv'
    BY <1>2, SaddInv DEF Sadd
  <1>3. ASSUME NEW m \in Miss, Expire(m) PROVE IndexInv'
    BY <1>3, ExpireInv DEF Expire
  <1>4. CASE UNCHANGED indexVars
    BY <1>4 DEF indexVars, IndexInv, IndexTypeOK, UntilBound, Outlived, AddedStays
  <1> QED
    BY <1>1, <1>2, <1>3, <1>4, AuthenticateInv, RecordFailsInv, ClockTicksInv DEF IndexNext

\* The inductive invariant of the two-command record: what is recorded is in a
\* set that will outlive it, and between the commands the key stays.
THEOREM IndexInvariance == IndexSpec => []IndexInv
  BY InitIndex, IndexStep, PTL DEF IndexSpec

\* RecordedIsFindable, for every INDEX_TTL of at least cookie_expire: record
\* (session.rs) renews the whole set, so no session recorded in it is left over.
THEOREM RecordedIsAlwaysFindable == IndexSpec => []RecordedIsFindable
  <1>1. IndexInv => RecordedIsFindable
    BY DEF IndexInv, Outlived, RecordedIsFindable
  <1> QED
    BY <1>1, IndexInvariance, PTL

-----------------------------------------------------------------------------
(***************************************************************************)
(* SecondFactor, for any users, groups, calls and sizes of a page: nobody  *)
(* privileged is reset, "ok" means gone, and what is newer stays.          *)
(***************************************************************************)
HIDE IndexAssumption
USE ResetAssumption

\* A page that is as large as the whole is the whole.
LEMMA WholePage ==
  ASSUME NEW page, NEW all \in SUBSET KGroup, page \subseteq all,
         Cardinality(all) = Cardinality(page)
  PROVE  page = all
  <1>1. IsFiniteSet(all)
    BY FS_Subset
  <1> QED
    BY <1>1, FS_Subset

\* What is so of one call: what it read of the groups is of them, unless they
\* changed since; what it listed and has not left, is gone; and past the count
\* it is nobody's it may not be.
CallOK(c) ==
  /\ reset[c] = NoReset("idle") \/ reset[c] \in UnderWay
  /\ reset[c].pc = "count" /\ ~reset[c].moved =>
       /\ reset[c].groups \subseteq memberOf[reset[c].target]
       /\ reset[c].privileged = Privileged(memberOf[reset[c].target])
  /\ reset[c].pc \in {"delete", "ok"} =>
       /\ reset[c].left \subseteq reset[c].listed
       /\ (reset[c].listed \ reset[c].left) \cap otp[reset[c].target] = {}
       /\ reset[c].pc = "ok" => reset[c].left = {}
  /\ reset[c].pc \in {"list", "delete", "ok"} =>
       /\ reset[c].sub # reset[c].target
       /\ reset[c].privileged => reset[c].moved

\* And of the directory.
DirectoryOK ==
  /\ DOMAIN reset = ResetCall /\ reset = [c \in ResetCall |-> reset[c]]
  /\ memberOf \in [User -> SUBSET KGroup]
  /\ otp \in [User -> SUBSET (1..lastOtp)]
  /\ lastOtp \in 0..MaxOtp
  /\ \A u, v \in User : u # v => otp[u] \cap otp[v] = {}

ResetInv == DirectoryOK /\ \A c \in ResetCall : CallOK(c)

LEMMA InitReset == ResetInit => ResetInv
  BY DEF ResetInit, ResetInv, DirectoryOK, CallOK, NoReset

\* A call that has stopped, or that another one's step finds where it was.
LEMMA IdleOK == ASSUME NEW c \in ResetCall, reset[c] = NoReset("idle") PROVE CallOK(c)
  BY DEF CallOK, NoReset

LEMMA OtherOK ==
  ASSUME NEW c \in ResetCall, CallOK(c), reset'[c] = reset[c],
         UNCHANGED <<memberOf, lastOtp>>, \A u \in User : otp'[u] \subseteq otp[u]
  PROVE  CallOK(c)'
  BY DEF CallOK, UnderWay, NoReset

\* A step of one call, that may delete.
\* A step of one call, that may delete.
LEMMA OneCall ==
  ASSUME DirectoryOK, \A d \in ResetCall : CallOK(d), NEW c \in ResetCall, CallOK(c)', NEW x,
         reset' = [reset EXCEPT ![c] = x],
         UNCHANGED <<memberOf, lastOtp>>, otp' \in [User -> SUBSET (1..lastOtp)],
         \A u \in User : otp'[u] \subseteq otp[u]
  PROVE  DirectoryOK' /\ \A d \in ResetCall : CallOK(d)'
  <1>1. DirectoryOK'
    BY DEF DirectoryOK
  <1>2. ASSUME NEW d \in ResetCall PROVE CallOK(d)'
    <2>1. CASE d = c
      BY <2>1
    <2>2. CASE d # c
      BY <2>2, OtherOK
    <2> QED
      BY <2>1, <2>2
  <1> QED
    BY <1>1, <1>2

LEMMA ResolveOK ==
  ASSUME DirectoryOK, NEW c \in ResetCall, NEW r \in Request, NEW u \in User, Resolve(c, r, u)
  PROVE  CallOK(c)'
  <1>1. reset'[c] = [NoReset("groups") EXCEPT !.sub = r.sub, !.target = u]
    BY DEF Resolve, DirectoryOK
  <1>2. r.sub \in User
    OBVIOUS
  <1>3. reset'[c] \in UnderWay'
    BY <1>1, <1>2 DEF NoReset, UnderWay
  <1>4. reset'[c].pc = "groups"
    BY <1>1 DEF NoReset
  <1> QED
    BY <1>3, <1>4 DEF CallOK

LEMMA ReadGroupsOK ==
  ASSUME DirectoryOK, NEW c \in ResetCall, CallOK(c), ReadGroups(c) PROVE CallOK(c)'
  <1> DEFINE all == memberOf[reset[c].target]
  <1>1. reset[c] \in UnderWay
    BY DEF ReadGroups, CallOK, NoReset
  <1>2. all \in SUBSET KGroup
    BY <1>1 DEF UnderWay, DirectoryOK
  <1>3. PICK page \in SUBSET all :
          reset' = [reset EXCEPT ![c].pc = "count", ![c].groups = page, ![c].privileged = Privileged(all)]
    BY DEF ReadGroups
  <1> HIDE DEF all
  <1>4. reset'[c] = [reset[c] EXCEPT !.pc = "count", !.groups = page, !.privileged = Privileged(all)]
    BY <1>3 DEF DirectoryOK
  <1>5. Privileged(all) \in BOOLEAN
    BY DEF Privileged, InGroup
  <1>6. reset'[c] \in UnderWay' /\ reset'[c].pc = "count" /\ reset'[c].target = reset[c].target
        /\ reset'[c].groups = page /\ reset'[c].privileged = Privileged(all)
    BY <1>1, <1>2, <1>4, <1>5 DEF UnderWay, ReadGroups
  <1>7. memberOf'[reset'[c].target] = all
    BY <1>6 DEF ReadGroups, all
  <1> QED
    BY <1>6, <1>7 DEF CallOK

LEMMA JudgeOK ==
  ASSUME DirectoryOK, NEW c \in ResetCall, CallOK(c), Judge(c) PROVE CallOK(c)'
  <1> DEFINE all == memberOf[reset[c].target]
             passes == /\ Cardinality(all) = Cardinality(reset[c].groups)
                       /\ MayResetSecondFactor(reset[c].sub, reset[c].target, reset[c].groups)
  <1>1. reset[c] \in UnderWay
    BY DEF Judge, CallOK, NoReset
  <1>2. all \in SUBSET KGroup
    BY <1>1 DEF UnderWay, DirectoryOK
  <1>3. CASE ~passes
    <2>1. reset'[c] = NoReset("idle")
      BY <1>3 DEF Judge, DirectoryOK
    <2> QED
      BY <2>1 DEF CallOK, NoReset
  <1>4. CASE passes
    <2>1. reset'[c] = [reset[c] EXCEPT !.pc = "list"]
      BY <1>4 DEF Judge, DirectoryOK
    <2>2. reset'[c] \in UnderWay'
      BY <1>1, <2>1 DEF UnderWay, Judge
    <2>3. /\ reset'[c].pc = "list" /\ reset'[c].sub = reset[c].sub /\ reset'[c].target = reset[c].target
          /\ reset'[c].privileged = reset[c].privileged /\ reset'[c].moved = reset[c].moved
      BY <1>1, <2>1 DEF UnderWay
    <2>4. reset[c].sub # reset[c].target /\ ~Privileged(reset[c].groups)
      BY <1>4 DEF MayResetSecondFactor
    <2>5. ASSUME ~reset[c].moved PROVE ~reset[c].privileged
      <3>1. reset[c].groups \subseteq all /\ reset[c].privileged = Privileged(all)
        BY <2>5 DEF CallOK, Judge
      <3>2. reset[c].groups = all
        <4> HIDE DEF all
        <4> QED
          BY <1>2, <1>4, <3>1, WholePage
      <3> QED
        BY <2>4, <3>1, <3>2
    <2> QED
      BY <2>2, <2>3, <2>4, <2>5 DEF CallOK
  <1> QED
    BY <1>3, <1>4

LEMMA ListOtpOK ==
  ASSUME DirectoryOK, NEW c \in ResetCall, CallOK(c), ListOtp(c) PROVE CallOK(c)'
  <1> DEFINE theirs == otp[reset[c].target]
  <1>1. reset[c] \in UnderWay /\ reset[c].pc = "list"
    BY DEF ListOtp, CallOK, NoReset
  <1>2. theirs \in SUBSET (1..lastOtp)
    BY <1>1 DEF UnderWay, DirectoryOK
  <1>3. reset'[c] = [reset[c] EXCEPT !.pc = "delete", !.listed = theirs, !.left = theirs]
    BY DEF ListOtp, DirectoryOK
  <1> HIDE DEF theirs
  <1>4. reset'[c] \in UnderWay'
    <2>1. reset'[c] \in UnderWay
      BY <1>1, <1>2, <1>3 DEF UnderWay
    <2> QED
      BY <2>1 DEF UnderWay, ListOtp
  <1>5. /\ reset'[c].pc = "delete" /\ reset'[c].listed = theirs /\ reset'[c].left = theirs
        /\ reset'[c].sub = reset[c].sub /\ reset'[c].target = reset[c].target
        /\ reset'[c].privileged = reset[c].privileged /\ reset'[c].moved = reset[c].moved
    BY <1>1, <1>3 DEF UnderWay
  <1> QED
    BY <1>1, <1>4, <1>5 DEF CallOK

\* One credential of the target is gone, and left no more.
LEMMA DeleteOtpOK ==
  ASSUME DirectoryOK, NEW c \in ResetCall, CallOK(c), DeleteOtp(c)
  PROVE  /\ CallOK(c)'
         /\ \A u \in User : otp'[u] \subseteq otp[u] /\ (u # reset[c].target => otp'[u] = otp[u])
         /\ otp[reset[c].target] \ otp'[reset[c].target] \subseteq reset[c].listed
         /\ otp' \in [User -> SUBSET (1..lastOtp)]
  <1>1. reset[c] \in UnderWay /\ reset[c].pc = "delete"
    BY DEF DeleteOtp, CallOK, NoReset
  <1>2. reset[c].target \in User /\ otp \in [User -> SUBSET (1..lastOtp)]
    BY <1>1 DEF UnderWay, DirectoryOK
  <1>3. PICK k \in reset[c].left :
          /\ otp' = [otp EXCEPT ![reset[c].target] = @ \ {k}]
          /\ reset' = [reset EXCEPT ![c].left = @ \ {k}]
          /\ UNCHANGED <<memberOf, lastOtp>>
    BY DEF DeleteOtp
  <1>4. reset'[c] = [reset[c] EXCEPT !.left = @ \ {k}]
    BY <1>3 DEF DirectoryOK
  <1>5. reset'[c] \in UnderWay'
    BY <1>1, <1>3, <1>4 DEF UnderWay
  <1>6. /\ reset'[c].pc = "delete" /\ reset'[c].listed = reset[c].listed
        /\ reset'[c].left = reset[c].left \ {k}
        /\ reset'[c].sub = reset[c].sub /\ reset'[c].target = reset[c].target
        /\ reset'[c].privileged = reset[c].privileged /\ reset'[c].moved = reset[c].moved
    BY <1>1, <1>4 DEF UnderWay
  <1>7. otp'[reset[c].target] = otp[reset[c].target] \ {k}
    BY <1>2, <1>3
  <1>8. reset[c].left \subseteq reset[c].listed
    BY <1>1 DEF CallOK
  <1>9. CallOK(c)'
    BY <1>1, <1>5, <1>6, <1>7 DEF CallOK
  <1> QED
    BY <1>2, <1>3, <1>7, <1>8, <1>9

LEMMA ResetStopsOK ==
  ASSUME DirectoryOK, NEW c \in ResetCall, CallOK(c), ResetStops(c)
  PROVE  /\ CallOK(c)'
         /\ \A u \in User : otp'[u] \subseteq otp[u] /\ (u # reset[c].target => otp'[u] = otp[u])
         /\ otp[reset[c].target] \ otp'[reset[c].target] \subseteq reset[c].listed
         /\ otp' \in [User -> SUBSET (1..lastOtp)]
  <1>1. CallOK(c)'
    <2>1. reset'[c] = NoReset("idle")
      BY DEF ResetStops, DirectoryOK
    <2> QED
      BY <2>1 DEF CallOK, NoReset
  <1>2. reset[c] \in UnderWay
    BY DEF ResetStops, CallOK, NoReset
  <1>3. reset[c].target \in User /\ otp \in [User -> SUBSET (1..lastOtp)]
    BY <1>2 DEF UnderWay, DirectoryOK
  <1>4. CASE UNCHANGED otp
    BY <1>1, <1>3, <1>4
  <1>5. CASE reset[c].pc = "delete"
             /\ \E k \in reset[c].left : otp' = [otp EXCEPT ![reset[c].target] = @ \ {k}]
    <2>1. reset[c].left \subseteq reset[c].listed
      BY <1>5 DEF CallOK
    <2> QED
      BY <1>1, <1>3, <1>5, <2>1
  <1> QED
    BY <1>4, <1>5 DEF ResetStops

LEMMA ResetOkOK ==
  ASSUME DirectoryOK, NEW c \in ResetCall, CallOK(c), ResetOk(c) PROVE CallOK(c)'
  <1>1. reset[c] \in UnderWay /\ reset[c].pc = "delete" /\ reset[c].left = {}
    BY DEF ResetOk, CallOK, NoReset
  <1>2. reset'[c] = [reset[c] EXCEPT !.pc = "ok"]
    BY DEF ResetOk, DirectoryOK
  <1>3. reset'[c] \in UnderWay'
    BY <1>1, <1>2 DEF UnderWay, ResetOk
  <1>4. /\ reset'[c].pc = "ok" /\ reset'[c].listed = reset[c].listed /\ reset'[c].left = reset[c].left
        /\ reset'[c].sub = reset[c].sub /\ reset'[c].target = reset[c].target
        /\ reset'[c].privileged = reset[c].privileged /\ reset'[c].moved = reset[c].moved
    BY <1>1, <1>2 DEF UnderWay
  <1> QED
    BY <1>1, <1>3, <1>4 DEF CallOK, ResetOk

\* The directory changes: a call that had read the groups and not counted them
\* is the only one that notices.
LEMMA RegroupOK ==
  ASSUME DirectoryOK, \A c \in ResetCall : CallOK(c),
         NEW u \in User, NEW groups \in SUBSET KGroup, Regroup(u, groups)
  PROVE  DirectoryOK' /\ \A c \in ResetCall : CallOK(c)'
  <1>1. DirectoryOK'
    BY DEF DirectoryOK, Regroup, Moved
  <1>2. ASSUME NEW c \in ResetCall PROVE CallOK(c)'
    <2>1. UNCHANGED <<otp, lastOtp>> /\ memberOf' = [memberOf EXCEPT ![u] = groups]
      BY DEF Regroup
    <2>2. CASE reset[c].target = u /\ reset[c].pc = "count"
      <3>1. reset'[c] = [reset[c] EXCEPT !.moved = TRUE]
        BY <2>2 DEF Regroup, Moved
      <3>2. reset[c] \in UnderWay
        BY <2>2 DEF CallOK, NoReset
      <3>3. reset'[c] \in UnderWay' /\ reset'[c].pc = "count" /\ reset'[c].moved
        BY <2>1, <2>2, <3>1, <3>2 DEF UnderWay
      <3> QED
        BY <3>3 DEF CallOK
    <2>3. CASE ~(reset[c].target = u /\ reset[c].pc = "count")
      <3>1. reset'[c] = reset[c]
        BY <2>3 DEF Regroup, Moved
      <3>2. reset[c].pc = "count" => memberOf'[reset[c].target] = memberOf[reset[c].target]
        BY <2>1, <2>3 DEF DirectoryOK
      <3> QED
        BY <2>1, <3>1, <3>2 DEF CallOK, UnderWay, NoReset
    <2> QED
      BY <2>2, <2>3
  <1> QED
    BY <1>1, <1>2

\* A new credential is in no call's list.
LEMMA EnrolOK ==
  ASSUME DirectoryOK, \A c \in ResetCall : CallOK(c), NEW u \in User, Enrol(u)
  PROVE  DirectoryOK' /\ \A c \in ResetCall : CallOK(c)'
  <1>1. lastOtp \in Nat /\ lastOtp' = lastOtp + 1 /\ lastOtp' \in 0..MaxOtp
    BY DEF DirectoryOK, Enrol
  <1>2. otp \in [User -> SUBSET (1..lastOtp)] /\ otp' = [otp EXCEPT ![u] = @ \cup {lastOtp'}]
    BY <1>1 DEF DirectoryOK, Enrol
  <1>3. 1..lastOtp \subseteq 1..lastOtp' /\ lastOtp' \in 1..lastOtp' /\ lastOtp' \notin 1..lastOtp
    BY <1>1
  <1>4. DirectoryOK'
    <2>1. otp' \in [User -> SUBSET (1..lastOtp')]
      BY <1>2, <1>3
    <2>2. \A v, w \in User : v # w => otp'[v] \cap otp'[w] = {}
      BY <1>2, <1>3 DEF DirectoryOK
    <2> QED
      BY <1>1, <2>1, <2>2 DEF DirectoryOK, Enrol
  <1>5. ASSUME NEW c \in ResetCall PROVE CallOK(c)'
    <2>1. reset'[c] = reset[c] /\ memberOf' = memberOf
      BY DEF Enrol
    <2>2. reset[c] \in UnderWay => reset[c] \in UnderWay'
      BY <1>3 DEF UnderWay
    <2>3. reset[c].pc \in {"delete", "ok"} =>
            (reset[c].listed \ reset[c].left) \cap otp'[reset[c].target] = {}
      BY <1>2, <1>3 DEF CallOK, UnderWay, NoReset
    <2> QED
      BY <2>1, <2>2, <2>3 DEF CallOK, NoReset
  <1> QED
    BY <1>4, <1>5

LEMMA ResetStep == ResetInv /\ [ResetNext]_resetVars => ResetInv'
  <1> SUFFICES ASSUME DirectoryOK, \A c \in ResetCall : CallOK(c), [ResetNext]_resetVars
               PROVE  DirectoryOK' /\ \A c \in ResetCall : CallOK(c)'
    BY DEF ResetInv
  <1>1. ASSUME NEW c \in ResetCall, NEW r \in Request, NEW u \in User, Resolve(c, r, u)
        PROVE  DirectoryOK' /\ \A d \in ResetCall : CallOK(d)'
    <2>1. CallOK(c)'
      BY <1>1, ResolveOK
    <2> QED
      BY <1>1, <2>1, OneCall DEF Resolve, DirectoryOK
  <1>2. ASSUME NEW c \in ResetCall, ReadGroups(c) \/ Judge(c) \/ ListOtp(c) \/ ResetOk(c)
        PROVE  DirectoryOK' /\ \A d \in ResetCall : CallOK(d)'
    <2>1. CallOK(c)'
      BY <1>2, ReadGroupsOK, JudgeOK, ListOtpOK, ResetOkOK
    <2>2. \E x : reset' = [reset EXCEPT ![c] = x]
      BY <1>2 DEF ReadGroups, Judge, ListOtp, ResetOk
    <2>3. UNCHANGED <<memberOf, lastOtp, otp>>
      BY <1>2 DEF ReadGroups, Judge, ListOtp, ResetOk
    <2> QED
      BY <2>1, <2>2, <2>3, OneCall DEF DirectoryOK
  <1>3. ASSUME NEW c \in ResetCall, DeleteOtp(c) \/ ResetStops(c)
        PROVE  DirectoryOK' /\ \A d \in ResetCall : CallOK(d)'
    <2>1. CallOK(c)' /\ otp' \in [User -> SUBSET (1..lastOtp)] /\ \A u \in User : otp'[u] \subseteq otp[u]
      BY <1>3, DeleteOtpOK, ResetStopsOK
    <2>2. \E x : reset' = [reset EXCEPT ![c] = x]
      BY <1>3 DEF DeleteOtp, ResetStops
    <2>3. UNCHANGED <<memberOf, lastOtp>>
      BY <1>3 DEF DeleteOtp, ResetStops
    <2> QED
      BY <2>1, <2>2, <2>3, OneCall
  <1>4. CASE UNCHANGED resetVars
    BY <1>4 DEF resetVars, DirectoryOK, CallOK, UnderWay
  <1> QED
    BY <1>1, <1>2, <1>3, <1>4, RegroupOK, EnrolOK DEF ResetNext

\* The inductive invariant of a reset: what was read is of the groups, what is
\* listed and not left is gone, and who may not is not reset.
THEOREM ResetInvariance == ResetSpec => []ResetInv
  BY InitReset, ResetStep, PTL DEF ResetSpec

\* And the types; of the second factors, that no two users have one.
THEOREM ResetTypeCorrect == ResetSpec => []ResetTypeOK
  <1>1. ResetInv => ResetTypeOK
    BY DEF ResetInv, DirectoryOK, CallOK, ResetTypeOK
  <1> QED
    BY <1>1, ResetInvariance, PTL

\* may_reset (admin.rs): no call gets to the credentials of the caller or of a
\* target that was privileged when its groups were read, unless the groups moved
\* before they were counted -- for a page of any size, since one that is as
\* large as the whole is the whole.
THEOREM NeverAPrivilegedReset == ResetSpec => []NoPrivilegedReset
  <1>1. ResetInv => NoPrivilegedReset
    BY DEF ResetInv, CallOK, NoPrivilegedReset
  <1> QED
    BY <1>1, ResetInvariance, PTL

\* reset_second_factor (keycloak.rs) says ok when every credential it had listed
\* is gone, whatever other calls, enrolments and lost answers come between.
THEOREM OkMeansItIsGone == ResetSpec => []OkMeansGone
  <1>1. ResetInv => OkMeansGone
    BY DEF ResetInv, CallOK, OkMeansGone
  <1> QED
    BY <1>1, ResetInvariance, PTL

\* And no step of any call takes a credential that its call had not listed of
\* its target, so one enrolled meanwhile stays.
THEOREM NewFactorAlwaysStays == ResetSpec => NewFactorStays
  <1>1. ASSUME ResetInv, [ResetNext]_resetVars
        PROVE  [\A u \in User : \A k \in otp[u] \ otp'[u] :
                  \E c \in ResetCall : reset[c].target = u /\ k \in reset[c].listed]_resetVars
    <2> SUFFICES ASSUME ResetNext, NEW u \in User, NEW k \in otp[u] \ otp'[u]
                 PROVE  \E c \in ResetCall : reset[c].target = u /\ k \in reset[c].listed
      BY <1>1
    <2> USE <1>1 DEF ResetInv
    <2>1. CASE otp' = otp
      BY <2>1
    <2>2. CASE \E v \in User : Enrol(v)
      BY <2>2 DEF Enrol, DirectoryOK
    <2>3. ASSUME NEW c \in ResetCall, DeleteOtp(c) \/ ResetStops(c)
          PROVE  reset[c].target = u /\ k \in reset[c].listed
      BY <2>3, DeleteOtpOK, ResetStopsOK
    <2> QED
      BY <2>1, <2>2, <2>3 DEF ResetNext, Resolve, ReadGroups, Judge, ListOtp, ResetOk, Regroup
  <1> QED
    BY <1>1, ResetInvariance, PTL DEF ResetSpec, NewFactorStays

-----------------------------------------------------------------------------
(***************************************************************************)
(* The four together: each keeps its own invariant, and is left alone by    *)
(* the steps of the others.                                                *)
(***************************************************************************)
HIDE ResetAssumption

StoresInv == AccessInv /\ TableInv /\ IndexInv /\ ResetInv

\* A part whose variables stay keeps its invariant.
LEMMA StoresStay ==
  /\ AccessInv /\ UNCHANGED accessVars => AccessInv'
  /\ TableInv /\ UNCHANGED tableVars => TableInv'
  /\ IndexInv /\ UNCHANGED indexVars => IndexInv'
  /\ ResetInv /\ UNCHANGED resetVars => ResetInv'
  BY AccessStep, TableStep, IndexStep, ResetStep

LEMMA StoresStep == StoresInv /\ [Next]_vars => StoresInv'
  <1> SUFFICES ASSUME StoresInv, [Next]_vars PROVE StoresInv'
    OBVIOUS
  <1>1. CASE UNCHANGED vars
    BY <1>1, StoresStay DEF StoresInv, vars
  <1>2. CASE part = "access" /\ AccessNext /\ UNCHANGED <<tableVars, indexVars, resetVars>>
    BY <1>2, StoresStay, AccessStep DEF StoresInv
  <1>3. CASE part = "audit" /\ TableNext /\ UNCHANGED <<accessVars, indexVars, resetVars>>
    BY <1>3, StoresStay, TableStep DEF StoresInv
  <1>4. CASE part = "index" /\ IndexNext /\ UNCHANGED <<accessVars, tableVars, resetVars>>
    BY <1>4, StoresStay, IndexStep DEF StoresInv
  <1>5. CASE part = "reset" /\ ResetNext /\ UNCHANGED <<accessVars, tableVars, indexVars>>
    BY <1>5, StoresStay, ResetStep DEF StoresInv
  <1> QED
    BY <1>1, <1>2, <1>3, <1>4, <1>5 DEF Next

\* The types of all four, whichever of them moves: the foreign key of the rules,
\* the partition of every row, the keys of the index, and that no two users have
\* one second factor.
THEOREM StoresTypeCorrect == Spec => []TypeOK
  <1>1. Init => StoresInv
    BY InitAccess, InitTable, InitIndex, InitReset DEF Init, StoresInv
  <1>2. ResetInv => ResetTypeOK
    BY DEF ResetInv, DirectoryOK, CallOK, ResetTypeOK
  <1>3. StoresInv => TypeOK
    BY <1>2 DEF StoresInv, AccessInv, TableInv, IndexInv, TypeOK
  <1> QED
    BY <1>1, <1>3, StoresStep, PTL DEF Spec
=============================================================================
