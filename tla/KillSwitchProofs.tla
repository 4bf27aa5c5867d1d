--------------------------- MODULE KillSwitchProofs ---------------------------
(* Proofs about KillSwitch, for every fleet, user, session and call: its     *)
(* types, that it implements Revocation, and its safety properties.          *)
EXTENDS KillSwitch, TLAPS

USE SessionAssumption

LEMMA InitTypeOK == Init => TypeOK
  <1> SUFFICES ASSUME Init PROVE TypeOK
    OBVIOUS
  <1>1. kill \in [Kill -> KillCall]
    <2>1. [pc : {"idle"}, user : User, at : Instance, read : {{}}, heard : {FALSE},
           excused : {{}}] \subseteq KillCall
      BY DEF KillCall, KillPc, Ended
    <2> QED
      BY <2>1 DEF Init
  <1>3. \A k \in Kill : kill[k].read \subseteq SessionsOf(kill[k].user)
    BY DEF Init
  <1>2. logout \in [Logout -> LogoutCall]
    <2>1. [pc : {"idle"}, session : Session, at : Instance, heard : {FALSE}]
            \subseteq LogoutCall
      BY DEF LogoutCall, LogoutPc, Ended
    <2> QED
      BY <2>1 DEF Init
  <1> QED
    BY <1>1, <1>2, <1>3 DEF Init, TypeOK, SubPc, Entries, MissPc

\* Whatever a call is excused for, it is still a call.
LEMMA ExcusedType ==
  ASSUME NEW c \in KillCall, NEW e \in SUBSET Session
  PROVE  /\ [c EXCEPT !.excused = e] \in KillCall
         /\ [c EXCEPT !.excused = e].read = c.read
         /\ [c EXCEPT !.excused = e].user = c.user
  <1>1. [c EXCEPT !.excused = e] =
          [pc |-> c.pc, user |-> c.user, at |-> c.at, read |-> c.read, heard |-> c.heard,
           excused |-> e]
    BY DEF KillCall
  <1>2. /\ c.pc \in KillPc /\ c.user \in User /\ c.at \in Instance
        /\ c.read \in SUBSET Session /\ c.heard \in BOOLEAN
    BY DEF KillCall
  <1> QED
    BY <1>1, <1>2 DEF KillCall

LEMMA ProxyTypeOK == TypeOK /\ ProxyNext => TypeOK'
  <1> SUFFICES ASSUME TypeOK, NEW s \in Session,
                      SignIn(s) \/ SilentSignIn(s) \/ SessionEnds(s)
               PROVE  TypeOK'
    BY DEF ProxyNext
  <1>1. CASE SignIn(s)
    <2> DEFINE more(k) == kill[k].excused \cup {t \in Session : BrowserOf[t] = BrowserOf[s]}
    <2>0. \A k \in Kill : kill[k] \in KillCall /\ kill[k].excused \in SUBSET Session
      BY DEF TypeOK, KillCall
    <2>1. ASSUME NEW k \in Kill
          PROVE  /\ [kill[k] EXCEPT !.excused = more(k)] \in KillCall
                 /\ [kill[k] EXCEPT !.excused = more(k)].read = kill[k].read
                 /\ [kill[k] EXCEPT !.excused = more(k)].user = kill[k].user
      <3>1. kill[k] \in KillCall /\ more(k) \in SUBSET Session
        BY <2>0
      <3> HIDE DEF more
      <3> QED
        BY <3>1, ExcusedType
    <2>2. kill' = [k \in Kill |-> IF kill[k].pc = "idle" THEN kill[k]
                                  ELSE [kill[k] EXCEPT !.excused = more(k)]]
      BY <1>1 DEF SignIn
    <2> HIDE DEF more
    <2>3. kill' \in [Kill -> KillCall]
      BY <2>0, <2>1, <2>2
    <2>5. \A k \in Kill : kill'[k].read \subseteq SessionsOf(kill'[k].user)
      BY <2>1, <2>2 DEF TypeOK
    <2>4. born' \subseteq Session /\ live' \subseteq born' /\ sso' \subseteq Browser
      BY <1>1 DEF SignIn, TypeOK
    <2> QED
      BY <1>1, <2>3, <2>4, <2>5 DEF SignIn, TypeOK, fleetVars, historyVars
  <1>2. CASE SilentSignIn(s)
    BY <1>2 DEF SilentSignIn, TypeOK, fleetVars, callVars, historyVars
  <1>3. CASE SessionEnds(s)
    BY <1>3 DEF SessionEnds, TypeOK, fleetVars, callVars, historyVars
  <1> QED
    BY <1>1, <1>2, <1>3

LEMMA MissTypeOK == TypeOK /\ MissNext => TypeOK'
  <1> SUFFICES ASSUME TypeOK, NEW i \in Instance, NEW s \in Session,
                      \/ MissStart(i, s) \/ MissVerify(i, s) \/ MissRecord(i, s)
                      \/ MissInsert(i, s) \/ MissFails(i, s) \/ EntryLeaves(i, s)
               PROVE  TypeOK'
    BY DEF MissNext
  <1> USE DEF TypeOK, proxyVars, fleetVars, callVars, historyVars, MissPc, Entries
  <1>1. CASE MissStart(i, s)
    BY <1>1 DEF MissStart
  <1>2. CASE MissVerify(i, s)
    BY <1>2 DEF MissVerify
  <1>3. CASE MissRecord(i, s)
    BY <1>3 DEF MissRecord, Record
  <1>4. CASE MissInsert(i, s)
    BY <1>4 DEF MissInsert
  <1>5. CASE MissFails(i, s)
    BY <1>5 DEF MissFails
  <1>6. CASE EntryLeaves(i, s)
    BY <1>6 DEF EntryLeaves
  <1> QED
    BY <1>1, <1>2, <1>3, <1>4, <1>5, <1>6

LEMMA ApiTypeOK == TypeOK /\ ApiNext => TypeOK'
  BY DEF ApiNext, ApiVerify, ApiRecord, ApiRefused, Record, TypeOK,
         proxyVars, fleetVars, callVars, historyVars

LEMMA SubscriberTypeOK == TypeOK /\ SubscriberNext => TypeOK'
  <1> SUFFICES ASSUME TypeOK, NEW i \in Instance,
                      \/ Join(i) \/ FlushGap(i) \/ RaiseFlag(i) \/ WireBreaks(i) \/ NoticeLoss(i)
                      \/ \E u \in User : Deliver(i, u)
               PROVE  TypeOK'
    BY DEF SubscriberNext
  <1> USE DEF TypeOK, proxyVars, fleetVars, callVars, historyVars, SubPc, Entries
  <1>1. CASE Join(i)
    BY <1>1 DEF Join
  <1>2. CASE FlushGap(i)
    BY <1>2 DEF FlushGap
  <1>3. CASE RaiseFlag(i)
    BY <1>3 DEF RaiseFlag
  <1>4. CASE WireBreaks(i)
    BY <1>4 DEF WireBreaks
  <1>5. CASE NoticeLoss(i)
    BY <1>5 DEF NoticeLoss
  <1>6. CASE \E u \in User : Deliver(i, u)
    BY <1>6 DEF Deliver, Drop
  <1> QED
    BY <1>1, <1>2, <1>3, <1>4, <1>5, <1>6

\* A drop on one instance leaves a cache.
LEMMA DropType ==
  ASSUME TypeOK, NEW i \in Instance, NEW u
  PROVE  Drop(i, u) \in [Instance -> [Session -> Entries]]
  BY DEF TypeOK, Drop, Entries

\* A publish leaves inboxes.
LEMMA BroadcastType ==
  ASSUME TypeOK, NEW u \in User, NEW gone \in SUBSET Session, Broadcast(u, gone)
  PROVE  /\ inbox' \in [Instance -> SUBSET User]
         /\ announced' \subseteq Session
  BY DEF TypeOK, Broadcast

\* A call that only moves on is still a call.
LEMMA KillPcType ==
  ASSUME NEW f \in [Kill -> KillCall], NEW k \in Kill, NEW pc \in KillPc
  PROVE  [f EXCEPT ![k].pc = pc] \in [Kill -> KillCall]
  <1>1. [f[k] EXCEPT !.pc = pc] \in KillCall
    BY DEF KillCall
  <1> QED
    BY <1>1

LEMMA LogoutPcType ==
  ASSUME NEW f \in [Logout -> LogoutCall], NEW l \in Logout, NEW pc \in LogoutPc
  PROVE  [f EXCEPT ![l].pc = pc] \in [Logout -> LogoutCall]
  <1>1. [f[l] EXCEPT !.pc = pc] \in LogoutCall
    BY DEF LogoutCall
  <1> QED
    BY <1>1

\* So is one that also learns something.
LEMMA KillCallType ==
  ASSUME NEW f \in [Kill -> KillCall], NEW k \in Kill,
         NEW pc \in KillPc, NEW read \in SUBSET Session, NEW heard \in BOOLEAN,
         NEW excused \in SUBSET Session
  PROVE  /\ [f EXCEPT ![k].pc = pc, ![k].heard = heard] \in [Kill -> KillCall]
         /\ [f EXCEPT ![k].pc = pc, ![k].read = read, ![k].excused = excused]
              \in [Kill -> KillCall]
  <1>2. [f[k] EXCEPT !.pc = pc, !.heard = heard] \in KillCall
    BY DEF KillCall
  <1>3. [f[k] EXCEPT !.pc = pc, !.read = read, !.excused = excused] \in KillCall
    BY DEF KillCall
  <1> QED
    BY <1>2, <1>3

LEMMA LogoutCallType ==
  ASSUME NEW f \in [Logout -> LogoutCall], NEW l \in Logout,
         NEW pc \in LogoutPc, NEW heard \in BOOLEAN
  PROVE  [f EXCEPT ![l].pc = pc, ![l].heard = heard] \in [Logout -> LogoutCall]
  <1>1. [f[l] EXCEPT !.pc = pc, !.heard = heard] \in LogoutCall
    BY DEF LogoutCall
  <1> QED
    BY <1>1

LEMMA ThenIs ==
  /\ Then.idle = "logout_all" /\ Then.logout_all = "read"
  /\ Then.read = "delete" /\ Then.delete = "publish"
  BY DEF Then

\* How far a kill switch has come: past its Keycloak step, past its SMEMBERS,
\* and, a logout likewise, past its deletion.
SignedOff == {"read", "delete", "publish", "drop", "forget", "ok"}
PastRead  == SignedOff \ {"read"}
Deleted   == {"publish", "drop", "forget", "ok", "unpublished", "unforgotten"}

\* What a step of a kill switch does to the calls: only its own record, and
\* how it got to where it is.
LEMMA KillEffect ==
  ASSUME TypeOK, NEW k \in Kill,
         \/ KillStart(k) \/ KillLogoutAll(k) \/ KillRead(k) \/ KillDelete(k)
         \/ KillPublish(k) \/ KillDrop(k) \/ KillForget(k) \/ KillStops(k)
  PROVE  /\ \A j \in Kill \ {k} : kill'[j] = kill[j]
         /\ kill'[k].user = kill[k].user
         /\ kill'[k].at = kill[k].at
         /\ \/ /\ kill'[k].read = kill[k].read
               /\ kill'[k].excused = kill[k].excused
               /\ kill'[k].pc \in PastRead => kill[k].pc \in PastRead
            \/ /\ kill'[k].pc = "delete"
               /\ kill[k].pc = "read"
               /\ kill'[k].read = index \cap SessionsOf(kill[k].user)
               /\ kill'[k].excused = kill[k].excused \cup Hidden(kill[k].user)
         /\ kill'[k].pc \in Deleted => KillDelete(k) \/ kill[k].pc \in Deleted
         /\ kill'[k].pc \in Dropped => KillDrop(k) \/ kill[k].pc \in Dropped
         /\ kill'[k].pc \in SignedOff => KillLogoutAll(k) \/ kill[k].pc \in SignedOff
  <1>0. kill \in [Kill -> KillCall]
    BY DEF TypeOK
  <1> USE <1>0, ThenIs DEF KillCall, SignedOff, PastRead, Deleted, Dropped
  <1>1. CASE KillStart(k)
    BY <1>1 DEF KillStart
  <1>2. CASE KillLogoutAll(k)
    BY <1>2 DEF KillLogoutAll
  <1>3. CASE KillRead(k)
    BY <1>3 DEF KillRead
  <1>4. CASE KillDelete(k)
    BY <1>4 DEF KillDelete
  <1>5. CASE KillPublish(k)
    <2>1. \/ kill' = [kill EXCEPT ![k].pc = "drop", ![k].heard = TRUE]
          \/ kill' = [kill EXCEPT ![k].pc = "drop"]
          \/ kill' = [kill EXCEPT ![k].pc = "failed"]
      BY <1>5, Zenon DEF KillPublish
    <2>2. kill[k].pc = "publish"
      BY <1>5 DEF KillPublish
    <2>3. CASE kill' = [kill EXCEPT ![k].pc = "drop", ![k].heard = TRUE]
      BY <2>2, <2>3
    <2>4. CASE kill' = [kill EXCEPT ![k].pc = "drop"]
      BY <2>2, <2>4
    <2>5. CASE kill' = [kill EXCEPT ![k].pc = "failed"]
      BY <2>2, <2>5
    <2> QED
      BY <2>1, <2>3, <2>4, <2>5
  <1>6. CASE KillDrop(k)
    BY <1>6 DEF KillDrop
  <1>7. CASE KillForget(k)
    BY <1>7 DEF KillForget
  <1>8. CASE KillStops(k)
    BY <1>8 DEF KillStops
  <1> QED
    BY <1>1, <1>2, <1>3, <1>4, <1>5, <1>6, <1>7, <1>8

LEMMA KillTypeOK == TypeOK /\ KillNext => TypeOK'
  <1> SUFFICES ASSUME TypeOK, NEW k \in Kill,
                      \/ KillStart(k) \/ KillLogoutAll(k) \/ KillRead(k) \/ KillDelete(k)
                      \/ KillPublish(k) \/ KillDrop(k) \/ KillForget(k) \/ KillStops(k)
               PROVE  TypeOK'
    BY DEF KillNext
  <1> USE ThenIs DEF KillPc, Ended
  <1>0. /\ kill \in [Kill -> KillCall]
        /\ kill[k].user \in User /\ kill[k].at \in Instance
        /\ kill[k].read \in SUBSET Session
        /\ kill[k].excused \in SUBSET Session
        /\ born \in SUBSET Session /\ index \in SUBSET Session
    BY DEF TypeOK, KillCall
  <1>9. \A j \in Kill : kill'[j].read \subseteq SessionsOf(kill'[j].user)
    <2>1. \A j \in Kill : kill[j].read \subseteq SessionsOf(kill[j].user)
      BY DEF TypeOK
    <2>2. index \cap SessionsOf(kill[k].user) \subseteq SessionsOf(kill[k].user)
      OBVIOUS
    <2> QED
      BY <2>1, <2>2, KillEffect
  <1>1. CASE KillStart(k)
    BY <1>0, <1>1, <1>9, KillPcType DEF KillStart, TypeOK, proxyVars, fleetVars, historyVars
  <1>2. CASE KillLogoutAll(k)
    <2>1. kill' = [kill EXCEPT ![k].pc = "read"]
      BY <1>2 DEF KillLogoutAll
    <2>2. "read" \in KillPc
      OBVIOUS
    <2> HIDE DEF KillPc
    <2>3. kill' \in [Kill -> KillCall]
      BY <1>0, <2>1, <2>2, KillPcType
    <2> QED
      BY <1>2, <1>9, <2>3 DEF KillLogoutAll, TypeOK, fleetVars, historyVars
  <1>3. CASE KillRead(k)
    <2> DEFINE found == index \cap SessionsOf(kill[k].user)
               more  == kill[k].excused \cup Hidden(kill[k].user)
    <2>1. kill' = [kill EXCEPT ![k].pc = "delete", ![k].read = found, ![k].excused = more]
      BY <1>3 DEF KillRead
    <2>2. "delete" \in KillPc /\ found \in SUBSET Session /\ more \in SUBSET Session
      BY <1>0 DEF Hidden, SessionsOf
    <2> HIDE DEF KillPc, found, more
    <2>3. kill' \in [Kill -> KillCall]
      BY <1>0, <2>1, <2>2, KillCallType
    <2> QED
      BY <1>3, <1>9, <2>3 DEF KillRead, TypeOK, proxyVars, fleetVars, historyVars
  <1>4. CASE KillDelete(k)
    BY <1>0, <1>4, <1>9, KillPcType DEF KillDelete, TypeOK, fleetVars, historyVars
  <1>5. CASE KillPublish(k)
    <2>1. kill' \in [Kill -> KillCall]
      <3>1. \/ kill' = [kill EXCEPT ![k].pc = "drop", ![k].heard = TRUE]
            \/ kill' = [kill EXCEPT ![k].pc = "drop"]
            \/ kill' = [kill EXCEPT ![k].pc = "failed"]
        BY <1>5, Zenon DEF KillPublish
      <3>2. [kill EXCEPT ![k].pc = "drop", ![k].heard = TRUE] \in [Kill -> KillCall]
        BY <1>0, KillCallType
      <3>3. /\ [kill EXCEPT ![k].pc = "drop"] \in [Kill -> KillCall]
            /\ [kill EXCEPT ![k].pc = "failed"] \in [Kill -> KillCall]
        BY <1>0, KillPcType
      <3> QED
        BY <3>1, <3>2, <3>3, Zenon
    <2>2. inbox' \in [Instance -> SUBSET User] /\ announced' \subseteq Session
      <3>1. CASE Unheard
        BY <3>1 DEF Unheard, TypeOK
      <3>2. CASE Broadcast(kill[k].user, kill[k].read)
        BY <1>0, <3>2, BroadcastType
      <3> QED
        BY <1>5, <3>1, <3>2 DEF KillPublish
    <2> QED
      BY <1>5, <1>9, <2>1, <2>2 DEF KillPublish, TypeOK, proxyVars
  <1>6. CASE KillDrop(k)
    <2>1. kill' \in [Kill -> KillCall]
      <3>1. (IF kill[k].heard THEN "forget" ELSE "unpublished") \in KillPc
        OBVIOUS
      <3> QED
        BY <1>0, <1>6, <3>1, KillPcType DEF KillDrop
    <2>2. cache' \in [Instance -> [Session -> Entries]]
      BY <1>0, <1>6, DropType DEF KillDrop
    <2> QED
      BY <1>6, <1>9, <2>1, <2>2 DEF KillDrop, TypeOK, proxyVars, fleetVars, historyVars
  <1>7. CASE KillForget(k)
    BY <1>0, <1>7, <1>9, KillPcType DEF KillForget, TypeOK, proxyVars, fleetVars
  <1>8. CASE KillStops(k)
    <2>1. (IF kill[k].pc = "forget" THEN "unforgotten" ELSE "failed") \in KillPc
      OBVIOUS
    <2>2. kill' \in [Kill -> KillCall]
      BY <1>0, <1>8, <2>1, KillPcType DEF KillStops
    <2> QED
      BY <1>8, <1>9, <2>2 DEF KillStops, TypeOK, proxyVars, fleetVars, historyVars
  <1> QED
    BY <1>1, <1>2, <1>3, <1>4, <1>5, <1>6, <1>7, <1>8

LEMMA LogoutTypeOK == TypeOK /\ LogoutNext => TypeOK'
  <1> SUFFICES ASSUME TypeOK, NEW l \in Logout,
                      \/ LogoutStart(l) \/ LogoutRecord(l) \/ LogoutSignOut(l)
                      \/ LogoutDelete(l) \/ LogoutPublish(l) \/ LogoutDrop(l)
                      \/ LogoutForget(l) \/ LogoutStops(l)
               PROVE  TypeOK'
    BY DEF LogoutNext
  <1> USE DEF LogoutPc, Ended
  <1>0. /\ logout \in [Logout -> LogoutCall]
        /\ logout[l].session \in Session /\ logout[l].at \in Instance
        /\ UserOf[logout[l].session] \in User
        /\ {logout[l].session} \in SUBSET Session
    BY DEF TypeOK, LogoutCall
  <1>1. CASE LogoutStart(l)
    BY <1>0, <1>1, LogoutPcType DEF LogoutStart, TypeOK, proxyVars, fleetVars, historyVars
  <1>2. CASE LogoutRecord(l)
    BY <1>0, <1>2, LogoutPcType DEF LogoutRecord, Record, TypeOK, proxyVars, fleetVars
  <1>3. CASE LogoutSignOut(l)
    BY <1>0, <1>3, LogoutPcType DEF LogoutSignOut, TypeOK, fleetVars, historyVars
  <1>4. CASE LogoutDelete(l)
    BY <1>0, <1>4, LogoutPcType DEF LogoutDelete, TypeOK, fleetVars, historyVars
  <1>5. CASE LogoutPublish(l)
    <2>1. logout' \in [Logout -> LogoutCall]
      <3>1. \/ logout' = [logout EXCEPT ![l].pc = "drop", ![l].heard = TRUE]
            \/ logout' = [logout EXCEPT ![l].pc = "drop"]
            \/ logout' = [logout EXCEPT ![l].pc = "failed"]
        BY <1>5, Zenon DEF LogoutPublish
      <3>2. [logout EXCEPT ![l].pc = "drop", ![l].heard = TRUE] \in [Logout -> LogoutCall]
        BY <1>0, LogoutCallType
      <3>3. /\ [logout EXCEPT ![l].pc = "drop"] \in [Logout -> LogoutCall]
            /\ [logout EXCEPT ![l].pc = "failed"] \in [Logout -> LogoutCall]
        BY <1>0, LogoutPcType
      <3> QED
        BY <3>1, <3>2, <3>3, Zenon
    <2>2. inbox' \in [Instance -> SUBSET User] /\ announced' \subseteq Session
      <3>1. CASE Unheard
        BY <3>1 DEF Unheard, TypeOK
      <3>2. CASE Broadcast(UserOf[logout[l].session], {logout[l].session})
        BY <1>0, <3>2, BroadcastType
      <3> QED
        BY <1>5, <3>1, <3>2 DEF LogoutPublish
    <2> QED
      BY <1>5, <2>1, <2>2 DEF LogoutPublish, TypeOK, proxyVars
  <1>6. CASE LogoutDrop(l)
    <2>1. logout' \in [Logout -> LogoutCall]
      BY <1>0, <1>6, LogoutPcType DEF LogoutDrop
    <2>2. cache' \in [Instance -> [Session -> Entries]]
      BY <1>0, <1>6, DropType DEF LogoutDrop
    <2> QED
      BY <1>6, <2>1, <2>2 DEF LogoutDrop, TypeOK, proxyVars, fleetVars, historyVars
  <1>7. CASE LogoutForget(l)
    BY <1>0, <1>7, LogoutPcType DEF LogoutForget, TypeOK, proxyVars, fleetVars, historyVars
  <1>8. CASE LogoutStops(l)
    <2>1. (IF logout[l].pc = "forget" THEN "unforgotten" ELSE "failed") \in LogoutPc
      OBVIOUS
    <2>2. logout' \in [Logout -> LogoutCall]
      BY <1>0, <1>8, <2>1, LogoutPcType DEF LogoutStops
    <2> QED
      BY <1>8, <2>2 DEF LogoutStops, TypeOK, proxyVars, fleetVars, historyVars
  <1> QED
    BY <1>1, <1>2, <1>3, <1>4, <1>5, <1>6, <1>7, <1>8

LEMMA CrashTypeOK == ASSUME TypeOK, NEW i \in Instance, Crash(i) PROVE TypeOK'
  <1>1. kill' \in [Kill -> KillCall]
    <2>1. ASSUME NEW c \in KillCall PROVE [c EXCEPT !.pc = "failed"] \in KillCall
      BY DEF KillCall, KillPc, Ended
    <2> QED
      BY <2>1 DEF Crash, TypeOK
  <1>2. logout' \in [Logout -> LogoutCall]
    <2>1. ASSUME NEW c \in LogoutCall PROVE [c EXCEPT !.pc = "failed"] \in LogoutCall
      BY DEF LogoutCall, LogoutPc, Ended
    <2> QED
      BY <2>1 DEF Crash, TypeOK
  <1>3. /\ sub' \in [Instance -> SubPc] /\ wire' \in [Instance -> BOOLEAN]
        /\ inbox' \in [Instance -> SUBSET User] /\ subscribed' \in [Instance -> BOOLEAN]
    BY DEF Crash, TypeOK, SubPc
  <1>4. cache' \in [Instance -> [Session -> Entries]]
    BY DEF Crash, TypeOK, Entries
  <1>5. miss' \in [Instance -> [Session -> MissPc]]
    BY DEF Crash, TypeOK, MissPc
  <1>6. calling' \subseteq Session
    BY DEF Crash, TypeOK
  <1>7. \A k \in Kill : kill'[k].read \subseteq SessionsOf(kill'[k].user)
    <2>1. ASSUME NEW k \in Kill
          PROVE  kill'[k].read = kill[k].read /\ kill'[k].user = kill[k].user
      BY DEF Crash, TypeOK, KillCall
    <2> QED
      BY <2>1 DEF TypeOK
  <1> QED
    BY <1>1, <1>2, <1>3, <1>4, <1>5, <1>6, <1>7 DEF Crash, TypeOK, proxyVars, historyVars

LEMMA StepTypeOK == TypeOK /\ [Next]_vars => TypeOK'
  <1>1. TypeOK /\ UNCHANGED vars => TypeOK'
    BY DEF TypeOK, vars, proxyVars, fleetVars, callVars, historyVars
  <1> QED
    BY <1>1, ProxyTypeOK, MissTypeOK, ApiTypeOK, SubscriberTypeOK, KillTypeOK,
       LogoutTypeOK, CrashTypeOK DEF Next

\* Every variable keeps its type.
THEOREM TypeCorrect == Spec => []TypeOK
  BY InitTypeOK, StepTypeOK, PTL DEF Spec

-----------------------------------------------------------------------------
(***************************************************************************)
(* KillSwitch implements Revocation: every step that adds an instance to   *)
(* those a session reaches is oauth2-proxy vouching for a living session,  *)
(* and every other step opens one, closes some, or only loses ground.      *)
(***************************************************************************)
ReachOf == [s \in Session |-> {i \in Instance : Reaches(i, s)}]

\* No pair of an instance and a session is new.
NoneNew == \A i \in Instance, s \in Session : Reaches(i, s)' => Reaches(i, s)

LEMMA NoneNewIsLose ==
  ASSUME NoneNew, UNCHANGED <<born, live>>
  PROVE  Revoked!Lose
  BY DEF NoneNew, Revoked!Lose

LEMMA SameReach ==
  ASSUME UNCHANGED <<cache, miss>>
  PROVE  ReachOf' = ReachOf
  BY DEF ReachOf, Reaches

LEMMA ReachProxy == ProxyNext => Revoked!Next
  <1> SUFFICES ASSUME NEW s \in Session, SignIn(s) \/ SilentSignIn(s) \/ SessionEnds(s)
               PROVE  Revoked!Next
    BY DEF ProxyNext
  <1>1. ReachOf' = ReachOf
    BY SameReach DEF SignIn, SilentSignIn, SessionEnds
  <1>2. CASE SignIn(s) \/ SilentSignIn(s)
    <2>1. Revoked!Open(s)
      BY <1>1, <1>2 DEF Revoked!Open, ReachOf, SignIn, SilentSignIn
    <2> QED
      BY <2>1 DEF Revoked!Next
  <1>3. CASE SessionEnds(s)
    <2>1. Revoked!Close({s})
      BY <1>1, <1>3 DEF Revoked!Close, ReachOf, SessionEnds
    <2> QED
      BY <2>1 DEF Revoked!Next
  <1> QED
    BY <1>2, <1>3

LEMMA ReachMiss == TypeOK /\ MissNext => Revoked!Next
  <1> SUFFICES ASSUME TypeOK, NEW i \in Instance, NEW s \in Session,
                      \/ MissStart(i, s) \/ MissVerify(i, s) \/ MissRecord(i, s)
                      \/ MissInsert(i, s) \/ MissFails(i, s) \/ EntryLeaves(i, s)
               PROVE  Revoked!Next
    BY DEF MissNext
  <1>1. UNCHANGED <<born, live>>
    BY DEF MissStart, MissVerify, MissRecord, MissInsert, MissFails, EntryLeaves, proxyVars
  <1>2. CASE MissVerify(i, s)
    <2>1. \A j \in Instance, t \in Session :
            Reaches(j, t)' <=> Reaches(j, t) \/ (j = i /\ t = s)
      BY <1>2 DEF MissVerify, Reaches, TypeOK
    <2>2. ReachOf' = [ReachOf EXCEPT ![s] = @ \cup {i}]
      BY <2>1 DEF ReachOf
    <2>3. Revoked!Reach(s, i)
      BY <1>1, <1>2, <2>2 DEF Revoked!Reach, ReachOf, MissVerify
    <2> QED
      BY <2>3 DEF Revoked!Next
  <1>3. CASE \/ MissStart(i, s) \/ MissRecord(i, s) \/ MissInsert(i, s)
             \/ MissFails(i, s) \/ EntryLeaves(i, s)
    <2>1. NoneNew
      <3> USE DEF NoneNew, Reaches, TypeOK
      <3>1. CASE MissStart(i, s)
        BY <3>1 DEF MissStart
      <3>2. CASE MissRecord(i, s)
        BY <3>2 DEF MissRecord
      <3>3. CASE MissInsert(i, s)
        BY <3>3 DEF MissInsert
      <3>4. CASE MissFails(i, s)
        BY <3>4 DEF MissFails
      <3>5. CASE EntryLeaves(i, s)
        BY <3>5 DEF EntryLeaves
      <3> QED
        BY <1>3, <3>1, <3>2, <3>3, <3>4, <3>5
    <2> QED
      BY <1>1, <2>1, NoneNewIsLose DEF Revoked!Next
  <1> QED
    BY <1>2, <1>3

LEMMA ReachApi == ApiNext => Revoked!Next
  <1> SUFFICES ASSUME ApiNext PROVE Revoked!Lose
    BY DEF Revoked!Next
  <1>1. UNCHANGED <<born, live, cache, miss>>
    BY DEF ApiNext, ApiVerify, ApiRecord, ApiRefused, proxyVars
  <1> QED
    BY <1>1, NoneNewIsLose DEF NoneNew, Reaches

LEMMA ReachSubscriber == TypeOK /\ SubscriberNext => Revoked!Next
  <1> SUFFICES ASSUME TypeOK, SubscriberNext PROVE Revoked!Lose
    BY DEF Revoked!Next
  <1>1. UNCHANGED <<born, live, miss>>
    BY DEF SubscriberNext, Join, FlushGap, RaiseFlag, WireBreaks, NoticeLoss, Deliver,
           proxyVars
  <1>2. \A i \in Instance, s \in Session : cache'[i][s] # "none" => cache[i][s] # "none"
    <2>1. CASE \E j \in Instance, u \in User : Deliver(j, u)
      BY <2>1 DEF Deliver, Drop, TypeOK
    <2>2. CASE \E j \in Instance : FlushGap(j)
      BY <2>2 DEF FlushGap, TypeOK
    <2>3. CASE cache' = cache
      BY <2>3
    <2> QED
      BY <2>1, <2>2, <2>3 DEF SubscriberNext, Join, RaiseFlag, WireBreaks, NoticeLoss
  <1> QED
    BY <1>1, <1>2, NoneNewIsLose DEF NoneNew, Reaches

LEMMA ReachKill == TypeOK /\ KillNext => Revoked!Next
  <1> SUFFICES ASSUME TypeOK, NEW k \in Kill,
                      \/ KillStart(k) \/ KillLogoutAll(k) \/ KillRead(k) \/ KillDelete(k)
                      \/ KillPublish(k) \/ KillDrop(k) \/ KillForget(k) \/ KillStops(k)
               PROVE  Revoked!Next
    BY DEF KillNext
  <1>1. CASE KillDelete(k)
    <2>1. ReachOf' = ReachOf
      BY <1>1, SameReach DEF KillDelete
    <2>2. Revoked!Close(kill[k].read) /\ kill[k].read \in SUBSET Session
      BY <1>1, <2>1 DEF KillDelete, Revoked!Close, ReachOf, TypeOK, KillCall
    <2> QED
      BY <2>2 DEF Revoked!Next
  <1>2. CASE KillDrop(k)
    <2>1. \A i \in Instance, s \in Session : cache'[i][s] # "none" => cache[i][s] # "none"
      BY <1>2 DEF KillDrop, Drop, TypeOK, KillCall
    <2>2. NoneNew /\ UNCHANGED <<born, live>>
      BY <1>2, <2>1 DEF KillDrop, NoneNew, Reaches, proxyVars
    <2> QED
      BY <2>2, NoneNewIsLose DEF Revoked!Next
  <1>3. CASE \/ KillStart(k) \/ KillLogoutAll(k) \/ KillRead(k) \/ KillPublish(k)
             \/ KillForget(k) \/ KillStops(k)
    <2>1. UNCHANGED <<born, live, cache, miss>>
      BY <1>3 DEF KillStart, KillLogoutAll, KillRead, KillPublish, KillForget, KillStops,
                  proxyVars
    <2> QED
      BY <2>1, NoneNewIsLose DEF NoneNew, Reaches, Revoked!Next
  <1> QED
    BY <1>1, <1>2, <1>3

LEMMA ReachLogout == TypeOK /\ LogoutNext => Revoked!Next
  <1> SUFFICES ASSUME TypeOK, NEW l \in Logout,
                      \/ LogoutStart(l) \/ LogoutRecord(l) \/ LogoutSignOut(l)
                      \/ LogoutDelete(l) \/ LogoutPublish(l) \/ LogoutDrop(l)
                      \/ LogoutForget(l) \/ LogoutStops(l)
               PROVE  Revoked!Next
    BY DEF LogoutNext
  <1>1. CASE LogoutSignOut(l) \/ LogoutDelete(l)
    <2>1. ReachOf' = ReachOf
      BY <1>1, SameReach DEF LogoutSignOut, LogoutDelete
    <2>2. /\ Revoked!Close({logout[l].session})
          /\ {logout[l].session} \in SUBSET Session
      BY <1>1, <2>1 DEF LogoutSignOut, LogoutDelete, Revoked!Close, ReachOf, TypeOK,
                        LogoutCall
    <2> QED
      BY <2>2 DEF Revoked!Next
  <1>2. CASE LogoutDrop(l)
    <2>1. \A i \in Instance, s \in Session : cache'[i][s] # "none" => cache[i][s] # "none"
      BY <1>2 DEF LogoutDrop, Drop, TypeOK, LogoutCall
    <2>2. NoneNew /\ UNCHANGED <<born, live>>
      BY <1>2, <2>1 DEF LogoutDrop, NoneNew, Reaches, proxyVars
    <2> QED
      BY <2>2, NoneNewIsLose DEF Revoked!Next
  <1>3. CASE \/ LogoutStart(l) \/ LogoutRecord(l) \/ LogoutPublish(l) \/ LogoutForget(l)
             \/ LogoutStops(l)
    <2>1. UNCHANGED <<born, live, cache, miss>>
      BY <1>3 DEF LogoutStart, LogoutRecord, LogoutPublish, LogoutForget, LogoutStops,
                  proxyVars
    <2> QED
      BY <2>1, NoneNewIsLose DEF NoneNew, Reaches, Revoked!Next
  <1> QED
    BY <1>1, <1>2, <1>3

LEMMA ReachCrash == ASSUME TypeOK, NEW j \in Instance, Crash(j) PROVE Revoked!Next
  <1>1. UNCHANGED <<born, live>>
    BY DEF Crash, proxyVars
  <1>2. NoneNew
    BY DEF Crash, NoneNew, Reaches, TypeOK
  <1> QED
    BY <1>1, <1>2, NoneNewIsLose DEF Revoked!Next

\* After its deletion, a session reaches fewer and fewer instances: whatever
\* crashes, races or goes unheard, an answer for it is never obtained again.
THEOREM Refines == Spec => DeadNeverSpreads
  <1>1. Init => Revoked!Init
    <2> SUFFICES ASSUME Init PROVE Revoked!Init
      OBVIOUS
    <2>1. \A i \in Instance, s \in Session : ~Reaches(i, s)
      BY DEF Init, Reaches
    <2>2. ReachOf = [s \in Session |-> {}]
      BY <2>1 DEF ReachOf
    <2> QED
      BY <2>2 DEF Init, Revoked!Init, ReachOf
  <1>2. TypeOK /\ [Next]_vars => [Revoked!Next]_<<born, live, ReachOf>>
    <2> SUFFICES ASSUME TypeOK, [Next]_vars PROVE [Revoked!Next]_<<born, live, ReachOf>>
      OBVIOUS
    <2>1. CASE UNCHANGED vars
      BY <2>1, SameReach DEF vars, proxyVars
    <2>2. CASE Next
      BY <2>2, ReachProxy, ReachMiss, ReachApi, ReachSubscriber, ReachKill, ReachLogout,
         ReachCrash DEF Next
    <2> QED
      BY <2>1, <2>2
  <1> QED
    BY <1>1, <1>2, TypeCorrect, PTL DEF Spec, DeadNeverSpreads, Revoked!Spec, ReachOf
-----------------------------------------------------------------------------
(***************************************************************************)
(* The inductive invariant behind the safety properties.                   *)
(*                                                                         *)
(* AnnouncedIsCut and LocalIsCut say that an instance holds no entry put   *)
(* in while the session was alive.  They hold because such an entry cannot *)
(* come back: a deleted session is never alive again (Dead), since a       *)
(* session key is created once and everything the calls carry around was   *)
(* created before (Known); and an instance that still holds one is about   *)
(* to hear of it (Cut).                                                    *)
(*                                                                         *)
(* GrantedIsFindable needs that a request past its index write has been    *)
(* found there too (Found).  KilledStaysOut needs that no sign-on is left  *)
(* from before the Keycloak step that a browser could use after it, and    *)
(* that what the SMEMBERS misses was already hidden from it (Excused).     *)
(***************************************************************************)

\* Every session that anybody remembers has been created.
Known ==
  /\ index \subseteq born
  /\ calling \subseteq born
  /\ \A i \in Instance, s \in Session : miss[i][s] # "idle" => s \in born
  /\ \A k \in Kill : kill[k].read \subseteq born \cap SessionsOf(kill[k].user)
  /\ \A l \in Logout : logout[l].pc # "idle" => logout[l].session \in born

\* What a call has deleted, and what was announced, is not alive.
Dead ==
  /\ announced \subseteq born \ live
  /\ \A k \in Kill : kill[k].pc \in Deleted => kill[k].read \cap live = {}
  /\ \A l \in Logout : logout[l].pc \in Deleted => logout[l].session \notin live

\* The flag is up only while the task reads; from the flush on, an instance
\* with an entry from before a published deletion is going to hear of it.
Cut ==
  /\ \A i \in Instance : subscribed[i] => sub[i] = "reading"
  /\ \A i \in Instance, s \in announced :
       sub[i] \in {"flushed", "reading"} /\ cache[i][s] = "fresh" =>
         UserOf[s] \in inbox[i] \/ ~wire[i]

\* Whoever is answered for a session, or is past its index write, has it found.
Found ==
  /\ granted \subseteq born
  /\ \A s \in live : s \in granted \/ (\E i \in Instance : miss[i][s] = "indexed") =>
       s \in index \cup orphaned

\* From its Keycloak step on a kill switch excuses every session a browser
\* could still be given with no password; from its SMEMBERS on, every living
\* session of the user that it has not read.
Excused ==
  \A k \in Kill :
    /\ kill[k].pc \in SignedOff => \A s \in SessionsOf(kill[k].user) :
         s \notin born /\ BrowserOf[s] \in sso => s \in kill[k].excused
    /\ kill[k].pc \in PastRead =>
         live \cap SessionsOf(kill[k].user) \subseteq kill[k].excused \cup kill[k].read

-----------------------------------------------------------------------------
\* And a step of a logout.
LEMMA LogoutEffect ==
  ASSUME TypeOK, NEW l \in Logout,
         \/ LogoutStart(l) \/ LogoutRecord(l) \/ LogoutSignOut(l) \/ LogoutDelete(l)
         \/ LogoutPublish(l) \/ LogoutDrop(l) \/ LogoutForget(l) \/ LogoutStops(l)
  PROVE  /\ \A m \in Logout \ {l} : logout'[m] = logout[m]
         /\ logout'[l].session = logout[l].session
         /\ logout'[l].at = logout[l].at
         /\ logout[l].pc = "idle" => LogoutStart(l)
         /\ logout'[l].pc \in Deleted => LogoutDelete(l) \/ logout[l].pc \in Deleted
         /\ logout'[l].pc \in Dropped => LogoutDrop(l) \/ logout[l].pc \in Dropped
  <1>0. logout \in [Logout -> LogoutCall]
    BY DEF TypeOK
  <1> USE <1>0 DEF LogoutCall, Deleted, Dropped
  <1>1. CASE LogoutStart(l)
    BY <1>1 DEF LogoutStart
  <1>2. CASE LogoutRecord(l)
    BY <1>2 DEF LogoutRecord
  <1>3. CASE LogoutSignOut(l)
    BY <1>3 DEF LogoutSignOut
  <1>4. CASE LogoutDelete(l)
    BY <1>4 DEF LogoutDelete
  <1>5. CASE LogoutPublish(l)
    <2>1. \/ logout' = [logout EXCEPT ![l].pc = "drop", ![l].heard = TRUE]
          \/ logout' = [logout EXCEPT ![l].pc = "drop"]
          \/ logout' = [logout EXCEPT ![l].pc = "failed"]
      BY <1>5, Zenon DEF LogoutPublish
    <2>2. logout[l].pc = "publish"
      BY <1>5 DEF LogoutPublish
    <2>3. CASE logout' = [logout EXCEPT ![l].pc = "drop", ![l].heard = TRUE]
      BY <2>2, <2>3
    <2>4. CASE logout' = [logout EXCEPT ![l].pc = "drop"]
      BY <2>2, <2>4
    <2>5. CASE logout' = [logout EXCEPT ![l].pc = "failed"]
      BY <2>2, <2>5
    <2> QED
      BY <2>1, <2>3, <2>4, <2>5
  <1>6. CASE LogoutDrop(l)
    BY <1>6 DEF LogoutDrop
  <1>7. CASE LogoutForget(l)
    BY <1>7 DEF LogoutForget
  <1>8. CASE LogoutStops(l)
    BY <1>8 DEF LogoutStops, Stopped
  <1> QED
    BY <1>1, <1>2, <1>3, <1>4, <1>5, <1>6, <1>7, <1>8

LEMMA InitKnown == Init => Known
  <1> SUFFICES ASSUME Init PROVE Known
    OBVIOUS
  <1>1. \A k \in Kill : kill[k].read = {}
    BY DEF Init
  <1>2. \A l \in Logout : logout[l].pc = "idle"
    BY DEF Init
  <1>3. \A i \in Instance, s \in Session : miss[i][s] = "idle"
    BY DEF Init
  <1> QED
    BY <1>1, <1>2, <1>3 DEF Init, Known

LEMMA ProxyKnown == TypeOK /\ Known /\ ProxyNext => Known'
  <1> SUFFICES ASSUME TypeOK, Known, NEW s \in Session,
                      SignIn(s) \/ SilentSignIn(s) \/ SessionEnds(s)
               PROVE  Known'
    BY DEF ProxyNext
  <1>1. CASE SignIn(s)
    <2>1. ASSUME NEW k \in Kill
          PROVE  kill'[k].read = kill[k].read /\ kill'[k].user = kill[k].user
      BY <1>1 DEF SignIn, TypeOK, KillCall
    <2> QED
      BY <1>1, <2>1 DEF SignIn, Known, SessionsOf
  <1>2. CASE SilentSignIn(s)
    BY <1>2 DEF SilentSignIn, Known, SessionsOf, callVars
  <1>3. CASE SessionEnds(s)
    BY <1>3 DEF SessionEnds, Known, SessionsOf, callVars
  <1> QED
    BY <1>1, <1>2, <1>3

LEMMA MissKnown == TypeOK /\ Known /\ MissNext => Known'
  <1> SUFFICES ASSUME TypeOK, Known, NEW i \in Instance, NEW s \in Session,
                      \/ MissStart(i, s) \/ MissVerify(i, s) \/ MissRecord(i, s)
                      \/ MissInsert(i, s) \/ MissFails(i, s) \/ EntryLeaves(i, s)
               PROVE  Known'
    BY DEF MissNext
  <1> USE DEF Known, SessionsOf, TypeOK, proxyVars, callVars
  <1>1. CASE MissStart(i, s)
    BY <1>1 DEF MissStart
  <1>2. CASE MissVerify(i, s)
    BY <1>2 DEF MissVerify
  <1>3. CASE MissRecord(i, s)
    BY <1>3 DEF MissRecord, Record
  <1>4. CASE MissInsert(i, s)
    BY <1>4 DEF MissInsert
  <1>5. CASE MissFails(i, s)
    BY <1>5 DEF MissFails
  <1>6. CASE EntryLeaves(i, s)
    BY <1>6 DEF EntryLeaves
  <1> QED
    BY <1>1, <1>2, <1>3, <1>4, <1>5, <1>6

LEMMA ApiKnown == TypeOK /\ Known /\ ApiNext => Known'
  BY DEF ApiNext, ApiVerify, ApiRecord, ApiRefused, Record, TypeOK, Known, SessionsOf,
         proxyVars, callVars

LEMMA SubscriberKnown == Known /\ SubscriberNext => Known'
  BY DEF SubscriberNext, Join, FlushGap, RaiseFlag, WireBreaks, NoticeLoss, Deliver,
         Known, SessionsOf, proxyVars, callVars

LEMMA KillKnown == TypeOK /\ Known /\ KillNext => Known'
  <1> SUFFICES ASSUME TypeOK, Known, NEW k \in Kill,
                      \/ KillStart(k) \/ KillLogoutAll(k) \/ KillRead(k) \/ KillDelete(k)
                      \/ KillPublish(k) \/ KillDrop(k) \/ KillForget(k) \/ KillStops(k)
               PROVE  Known'
    BY DEF KillNext
  <1> USE DEF Known, proxyVars
  <1>1. ASSUME NEW j \in Kill
        PROVE  /\ kill'[j].user = kill[j].user
               /\ kill'[j].read \subseteq born \cap SessionsOf(kill[j].user)
    <2>1. kill[j].read \subseteq born \cap SessionsOf(kill[j].user)
      OBVIOUS
    <2>2. index \cap SessionsOf(kill[k].user) \subseteq born \cap SessionsOf(kill[k].user)
      OBVIOUS
    <2> QED
      BY <2>1, <2>2, KillEffect
  <1>2. born' = born /\ index' \subseteq index
    BY DEF KillStart, KillLogoutAll, KillRead, KillDelete, KillPublish, KillDrop,
           KillForget, KillStops
  <1>3. UNCHANGED <<calling, miss, logout>>
    BY DEF KillStart, KillLogoutAll, KillRead, KillDelete, KillPublish, KillDrop,
           KillForget, KillStops
  <1> QED
    BY <1>1, <1>2, <1>3 DEF SessionsOf

LEMMA LogoutKnown == TypeOK /\ Known /\ LogoutNext => Known'
  <1> SUFFICES ASSUME TypeOK, Known, NEW l \in Logout,
                      \/ LogoutStart(l) \/ LogoutRecord(l) \/ LogoutSignOut(l)
                      \/ LogoutDelete(l) \/ LogoutPublish(l) \/ LogoutDrop(l)
                      \/ LogoutForget(l) \/ LogoutStops(l)
               PROVE  Known'
    BY DEF LogoutNext
  <1> USE DEF Known, proxyVars
  <1>1. ASSUME NEW m \in Logout
        PROVE  /\ logout'[m].session = logout[m].session
               /\ logout'[m].pc # "idle" => logout[m].session \in born
    <2>1. LogoutStart(l) => logout[l].session \in born
      BY DEF LogoutStart, TypeOK
    <2> QED
      BY <2>1, LogoutEffect
  <1>2. born' = born /\ index' \subseteq born
    <2>1. CASE LogoutRecord(l)
      BY <2>1 DEF LogoutRecord, Record
    <2> QED
      BY <2>1 DEF LogoutStart, LogoutSignOut, LogoutDelete, LogoutPublish, LogoutDrop,
                  LogoutForget, LogoutStops
  <1>3. UNCHANGED <<calling, miss, kill>>
    BY DEF LogoutStart, LogoutRecord, LogoutSignOut, LogoutDelete, LogoutPublish,
           LogoutDrop, LogoutForget, LogoutStops
  <1> QED
    BY <1>1, <1>2, <1>3 DEF SessionsOf

LEMMA CrashKnown == ASSUME TypeOK, Known, NEW i \in Instance, Crash(i) PROVE Known'
  <1>1. ASSUME NEW k \in Kill
        PROVE  kill'[k].read = kill[k].read /\ kill'[k].user = kill[k].user
    BY DEF Crash, TypeOK, KillCall
  <1>2. ASSUME NEW l \in Logout
        PROVE  /\ logout'[l].session = logout[l].session
               /\ logout'[l].pc # "idle" => logout[l].pc # "idle"
    BY DEF Crash, TypeOK, LogoutCall, Stopped
  <1>3. born' = born /\ index' = index /\ calling' \subseteq calling
    BY DEF Crash, proxyVars
  <1>4. \A j \in Instance, s \in Session : miss'[j][s] # "idle" => miss[j][s] # "idle"
    BY DEF Crash, TypeOK
  <1> QED
    BY <1>1, <1>2, <1>3, <1>4 DEF Known, SessionsOf

LEMMA StepKnown == TypeOK /\ Known /\ [Next]_vars => Known'
  <1>1. Known /\ UNCHANGED vars => Known'
    BY DEF Known, SessionsOf, vars, proxyVars, callVars
  <1> QED
    BY <1>1, ProxyKnown, MissKnown, ApiKnown, SubscriberKnown, KillKnown, LogoutKnown,
       CrashKnown DEF Next

-----------------------------------------------------------------------------
\* Sessions die for good: no step makes a created session alive again.
LEMMA NoResurrection ==
  ASSUME TypeOK, [Next]_vars
  PROVE  born \subseteq born' /\ live' \cap born \subseteq live
  <1>1. CASE UNCHANGED vars
    BY <1>1 DEF vars, proxyVars
  <1>2. CASE ProxyNext
    BY <1>2 DEF ProxyNext, SignIn, SilentSignIn, SessionEnds
  <1>3. CASE MissNext
    BY <1>3 DEF MissNext, MissStart, MissVerify, MissRecord, MissInsert, MissFails,
                EntryLeaves, proxyVars
  <1>4. CASE ApiNext
    BY <1>4 DEF ApiNext, ApiVerify, ApiRecord, ApiRefused, proxyVars
  <1>5. CASE SubscriberNext
    BY <1>5 DEF SubscriberNext, Join, FlushGap, RaiseFlag, WireBreaks, NoticeLoss, Deliver,
                proxyVars
  <1>6. CASE KillNext
    BY <1>6 DEF KillNext, KillStart, KillLogoutAll, KillRead, KillDelete, KillPublish,
                KillDrop, KillForget, KillStops, proxyVars
  <1>7. CASE LogoutNext
    BY <1>7 DEF LogoutNext, LogoutStart, LogoutRecord, LogoutSignOut, LogoutDelete,
                LogoutPublish, LogoutDrop, LogoutForget, LogoutStops, proxyVars
  <1>8. CASE \E i \in Instance : Crash(i)
    BY <1>8 DEF Crash, proxyVars
  <1> QED
    BY <1>1, <1>2, <1>3, <1>4, <1>5, <1>6, <1>7, <1>8 DEF Next

\* Only the publish of a call that has deleted announces anything.
LEMMA NewlyAnnounced ==
  ASSUME TypeOK, [Next]_vars, NEW s \in announced' \ announced
  PROVE  \/ \E k \in Kill : KillPublish(k) /\ s \in kill[k].read
         \/ \E l \in Logout : LogoutPublish(l) /\ s = logout[l].session
  <1>1. CASE UNCHANGED vars
    BY <1>1 DEF vars, historyVars
  <1>2. CASE ProxyNext
    BY <1>2 DEF ProxyNext, SignIn, SilentSignIn, SessionEnds, historyVars
  <1>3. CASE MissNext
    BY <1>3 DEF MissNext, MissStart, MissVerify, MissRecord, MissInsert, MissFails,
                EntryLeaves, historyVars
  <1>4. CASE ApiNext
    BY <1>4 DEF ApiNext, ApiVerify, ApiRecord, ApiRefused, historyVars
  <1>5. CASE SubscriberNext
    BY <1>5 DEF SubscriberNext, Join, FlushGap, RaiseFlag, WireBreaks, NoticeLoss, Deliver,
                historyVars
  <1>6. CASE KillNext
    <2>1. PICK k \in Kill :
            \/ KillStart(k) \/ KillLogoutAll(k) \/ KillRead(k) \/ KillDelete(k)
            \/ KillPublish(k) \/ KillDrop(k) \/ KillForget(k) \/ KillStops(k)
      BY <1>6 DEF KillNext
    <2>2. KillPublish(k)
      BY <2>1 DEF KillStart, KillLogoutAll, KillRead, KillDelete, KillDrop, KillForget,
                  KillStops, historyVars
    <2> QED
      BY <2>2 DEF KillPublish, Broadcast, Unheard
  <1>7. CASE LogoutNext
    <2>1. PICK l \in Logout :
            \/ LogoutStart(l) \/ LogoutRecord(l) \/ LogoutSignOut(l) \/ LogoutDelete(l)
            \/ LogoutPublish(l) \/ LogoutDrop(l) \/ LogoutForget(l) \/ LogoutStops(l)
      BY <1>7 DEF LogoutNext
    <2>2. LogoutPublish(l)
      BY <2>1 DEF LogoutStart, LogoutRecord, LogoutSignOut, LogoutDelete, LogoutDrop,
                  LogoutForget, LogoutStops, historyVars
    <2> QED
      BY <2>2 DEF LogoutPublish, Broadcast, Unheard
  <1>8. CASE \E i \in Instance : Crash(i)
    BY <1>8 DEF Crash, historyVars
  <1> QED
    BY <1>1, <1>2, <1>3, <1>4, <1>5, <1>6, <1>7, <1>8 DEF Next

\* Only a kill switch's own step, a sign-in or a crash touches its record.
LEMMA KillMovers ==
  ASSUME [Next]_vars
  PROVE  \/ KillNext
         \/ \E i \in Instance : Crash(i)
         \/ \E s \in Session : SignIn(s)
         \/ kill' = kill
  BY DEF Next, ProxyNext, MissNext, MissStart, MissVerify, MissRecord, MissInsert, MissFails,
         EntryLeaves, ApiNext, ApiVerify, ApiRecord, ApiRefused, SubscriberNext, Join,
         FlushGap, RaiseFlag, WireBreaks, NoticeLoss, Deliver, LogoutNext, LogoutStart,
         LogoutRecord, LogoutSignOut, LogoutDelete, LogoutPublish, LogoutDrop,
         LogoutForget, LogoutStops, SilentSignIn, SessionEnds, vars, callVars

\* A call is past its deletion because it was, or because it just deleted.
LEMMA KillDeletes ==
  ASSUME TypeOK, [Next]_vars, NEW k \in Kill, kill'[k].pc \in Deleted
  PROVE  /\ kill'[k].read = kill[k].read
         /\ \/ kill[k].pc \in Deleted
            \/ live' = live \ kill[k].read
  <1>1. CASE KillNext
    <2>1. PICK j \in Kill :
            \/ KillStart(j) \/ KillLogoutAll(j) \/ KillRead(j) \/ KillDelete(j)
            \/ KillPublish(j) \/ KillDrop(j) \/ KillForget(j) \/ KillStops(j)
      BY <1>1 DEF KillNext
    <2>2. CASE j # k
      BY <2>1, <2>2, KillEffect
    <2>3. CASE j = k
      BY <2>1, <2>3, KillEffect DEF Deleted, KillDelete
    <2> QED
      BY <2>2, <2>3
  <1>2. CASE \E i \in Instance : Crash(i)
    BY <1>2 DEF Crash, TypeOK, KillCall, Deleted
  <1>3. CASE \E s \in Session : SignIn(s)
    BY <1>3 DEF SignIn, TypeOK, KillCall
  <1>4. CASE kill' = kill
    BY <1>4
  <1> QED
    BY <1>1, <1>2, <1>3, <1>4, KillMovers

LEMMA LogoutMovers ==
  ASSUME [Next]_vars
  PROVE  LogoutNext \/ (\E i \in Instance : Crash(i)) \/ logout' = logout
  <1>1. CASE \/ UNCHANGED vars \/ ProxyNext \/ MissNext \/ ApiNext \/ SubscriberNext
             \/ KillNext
    BY <1>1 DEF MissNext, MissStart, MissVerify, MissRecord, MissInsert, MissFails,
         EntryLeaves, ApiNext, ApiVerify, ApiRecord, ApiRefused, SubscriberNext, Join,
         FlushGap, RaiseFlag, WireBreaks, NoticeLoss, Deliver, KillNext, KillStart,
         KillLogoutAll, KillRead, KillDelete, KillPublish, KillDrop, KillForget,
         KillStops, ProxyNext, SignIn, SilentSignIn, SessionEnds, vars, callVars
  <1> QED
    BY <1>1 DEF Next

LEMMA LogoutDeletes ==
  ASSUME TypeOK, [Next]_vars, NEW l \in Logout, logout'[l].pc \in Deleted
  PROVE  /\ logout'[l].session = logout[l].session
         /\ \/ logout[l].pc \in Deleted
            \/ live' = live \ {logout[l].session}
  <1>1. CASE LogoutNext
    <2>1. PICK m \in Logout :
            \/ LogoutStart(m) \/ LogoutRecord(m) \/ LogoutSignOut(m) \/ LogoutDelete(m)
            \/ LogoutPublish(m) \/ LogoutDrop(m) \/ LogoutForget(m) \/ LogoutStops(m)
      BY <1>1 DEF LogoutNext
    <2>2. CASE m # l
      BY <2>1, <2>2, LogoutEffect
    <2>3. CASE m = l
      BY <2>1, <2>3, LogoutEffect DEF Deleted, LogoutDelete
    <2> QED
      BY <2>2, <2>3
  <1>2. CASE \E i \in Instance : Crash(i)
    BY <1>2 DEF Crash, TypeOK, LogoutCall, Deleted
  <1>3. CASE logout' = logout
    BY <1>3
  <1> QED
    BY <1>1, <1>2, <1>3, LogoutMovers

LEMMA StepDead == TypeOK /\ Known /\ Dead /\ [Next]_vars => Dead'
  <1> SUFFICES ASSUME TypeOK, Known, Dead, [Next]_vars PROVE Dead'
    OBVIOUS
  <1>0. born \subseteq born' /\ live' \cap born \subseteq live
    BY NoResurrection
  <1>1. announced' \subseteq born' \ live'
    <2>1. ASSUME NEW s \in announced' \ announced PROVE s \in born \ live
      <3>1. ASSUME NEW k \in Kill, KillPublish(k), s \in kill[k].read PROVE s \in born \ live
        BY <3>1 DEF KillPublish, Dead, Known, Deleted
      <3>2. ASSUME NEW l \in Logout, LogoutPublish(l), s = logout[l].session
            PROVE  s \in born \ live
        BY <3>2 DEF LogoutPublish, Dead, Known, Deleted
      <3> QED
        BY <3>1, <3>2, NewlyAnnounced
    <2> QED
      BY <1>0, <2>1 DEF Dead
  <1>2. ASSUME NEW k \in Kill, kill'[k].pc \in Deleted PROVE kill'[k].read \cap live' = {}
    BY <1>0, <1>2, KillDeletes DEF Dead, Known
  <1>3. ASSUME NEW l \in Logout, logout'[l].pc \in Deleted PROVE logout'[l].session \notin live'
    <2>1. logout[l].pc \in Deleted => logout[l].session \in born
      BY DEF Known, Deleted
    <2> QED
      BY <1>0, <1>3, <2>1, LogoutDeletes DEF Dead
  <1> QED
    BY <1>1, <1>2, <1>3 DEF Dead

-----------------------------------------------------------------------------
\* A drop puts nothing in.
LEMMA DropOnlyDrops ==
  ASSUME TypeOK, NEW i \in Instance, NEW u, NEW j \in Instance, NEW s \in Session
  PROVE  /\ Drop(i, u)[j][s] \in {"none", cache[j][s]}
         /\ j = i /\ UserOf[s] = u => Drop(i, u)[j][s] = "none"
  BY DEF Drop, TypeOK

\* Only a miss puts an entry in, and a fresh one only for a living session.
LEMMA FreshIsAlive ==
  ASSUME TypeOK, [Next]_vars, NEW i \in Instance, NEW s \in Session,
         cache'[i][s] = "fresh"
  PROVE  cache[i][s] = "fresh" \/ s \in live
  <1>1. CASE MissNext
    <2>1. CASE \E j \in Instance, t \in Session : MissInsert(j, t)
      BY <2>1 DEF MissInsert, TypeOK
    <2>2. CASE \E j \in Instance, t \in Session : EntryLeaves(j, t)
      BY <2>2 DEF EntryLeaves, TypeOK
    <2>3. CASE \E j \in Instance, t \in Session :
                 MissStart(j, t) \/ MissVerify(j, t) \/ MissRecord(j, t) \/ MissFails(j, t)
      BY <2>3 DEF MissStart, MissVerify, MissRecord, MissFails
    <2> QED
      BY <1>1, <2>1, <2>2, <2>3 DEF MissNext
  <1>2. CASE SubscriberNext
    <2>1. CASE \E j \in Instance, u \in User : Deliver(j, u)
      <3>1. PICK j \in Instance, u \in User : cache' = Drop(j, u)
        BY <2>1 DEF Deliver
      <3> QED
        BY <3>1, DropOnlyDrops
    <2>2. CASE \E j \in Instance : FlushGap(j)
      BY <2>2 DEF FlushGap, TypeOK
    <2>3. CASE \E j \in Instance : Join(j) \/ RaiseFlag(j) \/ WireBreaks(j) \/ NoticeLoss(j)
      BY <2>3 DEF Join, RaiseFlag, WireBreaks, NoticeLoss
    <2> QED
      BY <1>2, <2>1, <2>2, <2>3 DEF SubscriberNext
  <1>3. CASE KillNext
    <2>1. CASE \E k \in Kill : KillDrop(k)
      <3>1. PICK k \in Kill : cache' = Drop(kill[k].at, kill[k].user)
        BY <2>1 DEF KillDrop
      <3> QED
        BY <3>1, DropOnlyDrops DEF TypeOK, KillCall
    <2>2. CASE \E k \in Kill : \/ KillStart(k) \/ KillLogoutAll(k) \/ KillRead(k)
                               \/ KillDelete(k) \/ KillPublish(k) \/ KillForget(k)
                               \/ KillStops(k)
      BY <2>2 DEF KillStart, KillLogoutAll, KillRead, KillDelete, KillPublish, KillForget,
                  KillStops
    <2> QED
      BY <1>3, <2>1, <2>2 DEF KillNext
  <1>4. CASE LogoutNext
    <2>1. CASE \E l \in Logout : LogoutDrop(l)
      <3>1. PICK l \in Logout : cache' = Drop(logout[l].at, UserOf[logout[l].session])
        BY <2>1 DEF LogoutDrop
      <3> QED
        BY <3>1, DropOnlyDrops DEF TypeOK, LogoutCall
    <2>2. CASE \E l \in Logout : \/ LogoutStart(l) \/ LogoutRecord(l) \/ LogoutSignOut(l)
                                 \/ LogoutDelete(l) \/ LogoutPublish(l) \/ LogoutForget(l)
                                 \/ LogoutStops(l)
      BY <2>2 DEF LogoutStart, LogoutRecord, LogoutSignOut, LogoutDelete, LogoutPublish,
                  LogoutForget, LogoutStops
    <2> QED
      BY <1>4, <2>1, <2>2 DEF LogoutNext
  <1>5. CASE \E j \in Instance : Crash(j)
    BY <1>5 DEF Crash, TypeOK
  <1>6. CASE UNCHANGED vars \/ ProxyNext \/ ApiNext
    BY <1>6 DEF vars, ProxyNext, SignIn, SilentSignIn, SessionEnds, ApiNext, ApiVerify,
                ApiRecord, ApiRefused
  <1> QED
    BY <1>1, <1>2, <1>3, <1>4, <1>5, <1>6 DEF Next

\* What a publish reaches, and who else takes a subject out of an inbox.
LEMMA BroadcastReaches ==
  ASSUME TypeOK, NEW u \in User, NEW gone, Broadcast(u, gone), NEW i \in Instance
  PROVE  /\ inbox[i] \subseteq inbox'[i]
         /\ wire[i] => u \in inbox'[i]
  BY DEF Broadcast, TypeOK

\* The conclusion for one instance and one announced session.
Hears(i, s) ==
  sub[i] \in {"flushed", "reading"} /\ cache[i][s] = "fresh" =>
    UserOf[s] \in inbox[i] \/ ~wire[i]

LEMMA SubscriberHears ==
  ASSUME TypeOK, Cut, SubscriberNext, NEW i \in Instance, NEW s \in announced
  PROVE  Hears(i, s)'
  <1>0. Hears(i, s) /\ s \in Session
    BY DEF Cut, Hears, TypeOK
  <1>1. PICK j \in Instance :
          \/ Join(j) \/ FlushGap(j) \/ RaiseFlag(j) \/ WireBreaks(j) \/ NoticeLoss(j)
          \/ \E u \in User : Deliver(j, u)
    BY DEF SubscriberNext
  <1>2. CASE j # i
    <2>1. /\ sub'[i] = sub[i] /\ wire'[i] = wire[i] /\ inbox'[i] = inbox[i]
          /\ cache'[i][s] = cache[i][s]
      BY <1>1, <1>2, <1>0 DEF Join, FlushGap, RaiseFlag, WireBreaks, NoticeLoss, Deliver, Drop,
                        TypeOK
    <2> QED
      BY <1>0, <2>1 DEF Hears
  <1>3. CASE j = i
    <2>1. CASE Join(i)
      BY <2>1 DEF Join, Hears, TypeOK
    <2>2. CASE FlushGap(i)
      BY <2>2, <1>0 DEF FlushGap, Hears, TypeOK, Cut
    <2>3. CASE RaiseFlag(i)
      BY <2>3, <1>0 DEF RaiseFlag, Hears, TypeOK
    <2>4. CASE WireBreaks(i)
      BY <2>4 DEF WireBreaks, Hears, TypeOK
    <2>5. CASE NoticeLoss(i)
      BY <2>5 DEF NoticeLoss, Hears, TypeOK
    <2>6. ASSUME NEW u \in User, Deliver(i, u) PROVE Hears(i, s)'
      BY <2>6, <1>0 DEF Deliver, Drop, Hears, TypeOK
    <2> QED
      BY <1>1, <1>3, <2>1, <2>2, <2>3, <2>4, <2>5, <2>6
  <1> QED
    BY <1>2, <1>3

\* Only the subscriber, and a crash, disturb the subscriber.
LEMMA OthersLeaveTasks ==
  ASSUME ProxyNext \/ MissNext \/ ApiNext \/ KillNext \/ LogoutNext \/ UNCHANGED vars
  PROVE  UNCHANGED <<sub, wire, subscribed>>
  <1> USE DEF fleetVars
  <1>1. CASE ProxyNext
    BY <1>1 DEF ProxyNext, SignIn, SilentSignIn, SessionEnds
  <1>2. CASE MissNext
    BY <1>2 DEF MissNext, MissStart, MissVerify, MissRecord, MissInsert, MissFails, EntryLeaves
  <1>3. CASE ApiNext
    BY <1>3 DEF ApiNext, ApiVerify, ApiRecord, ApiRefused
  <1>4. CASE KillNext
    BY <1>4 DEF KillNext, KillStart, KillLogoutAll, KillRead, KillDelete, KillPublish, KillDrop,
                KillForget, KillStops
  <1>5. CASE LogoutNext
    BY <1>5 DEF LogoutNext, LogoutStart, LogoutRecord, LogoutSignOut, LogoutDelete,
                LogoutPublish, LogoutDrop, LogoutForget, LogoutStops
  <1>6. CASE UNCHANGED vars
    BY <1>6 DEF vars
  <1> QED
    BY <1>1, <1>2, <1>3, <1>4, <1>5, <1>6

\* And they leave the inboxes alone, but for a publish.
LEMMA OthersLeaveInboxes ==
  ASSUME ProxyNext \/ MissNext \/ ApiNext \/ KillNext \/ LogoutNext \/ UNCHANGED vars,
         ~(\E k \in Kill : KillPublish(k)), ~(\E l \in Logout : LogoutPublish(l))
  PROVE  inbox' = inbox
  <1> USE DEF fleetVars
  <1>1. CASE ProxyNext
    BY <1>1 DEF ProxyNext, SignIn, SilentSignIn, SessionEnds
  <1>2. CASE MissNext
    BY <1>2 DEF MissNext, MissStart, MissVerify, MissRecord, MissInsert, MissFails, EntryLeaves
  <1>3. CASE ApiNext
    BY <1>3 DEF ApiNext, ApiVerify, ApiRecord, ApiRefused
  <1>4. CASE KillNext
    BY <1>4 DEF KillNext, KillStart, KillLogoutAll, KillRead, KillDelete, KillDrop, KillForget,
                KillStops
  <1>5. CASE LogoutNext
    BY <1>5 DEF LogoutNext, LogoutStart, LogoutRecord, LogoutSignOut, LogoutDelete, LogoutDrop,
                LogoutForget, LogoutStops
  <1>6. CASE UNCHANGED vars
    BY <1>6 DEF vars
  <1> QED
    BY <1>1, <1>2, <1>3, <1>4, <1>5, <1>6

\* Outside the subscriber and a crash, an inbox only grows.
LEMMA OtherHears ==
  ASSUME TypeOK, Known, Dead, Cut, NEW i \in Instance, NEW s \in announced,
         ProxyNext \/ MissNext \/ ApiNext \/ KillNext \/ LogoutNext \/ UNCHANGED vars
  PROVE  Hears(i, s)'
  <1>0. Hears(i, s) /\ s \in Session /\ s \notin live
    BY DEF Cut, Hears, TypeOK, Dead
  <1>1. sub' = sub /\ wire' = wire
    BY OthersLeaveTasks
  <1>2. inbox[i] \subseteq inbox'[i]
    <2>1. CASE \E k \in Kill : KillPublish(k)
      BY <2>1, BroadcastReaches DEF KillPublish, Unheard, TypeOK, KillCall
    <2>2. CASE \E l \in Logout : LogoutPublish(l)
      <3>1. PICK l \in Logout :
              \/ Broadcast(UserOf[logout[l].session], {logout[l].session})
              \/ Unheard
        BY <2>2, Zenon DEF LogoutPublish
      <3>2. UserOf[logout[l].session] \in User
        BY SessionAssumption DEF TypeOK, LogoutCall
      <3> QED
        BY <3>1, <3>2, BroadcastReaches DEF Unheard
    <2>3. CASE ~(\E k \in Kill : KillPublish(k)) /\ ~(\E l \in Logout : LogoutPublish(l))
      BY <2>3, OthersLeaveInboxes
    <2> QED
      BY <2>1, <2>2, <2>3
  <1>3. cache'[i][s] = "fresh" => cache[i][s] = "fresh"
    BY <1>0, FreshIsAlive DEF Next
  <1> QED
    BY <1>0, <1>1, <1>2, <1>3 DEF Hears

\* A session announced by this very step: the step put it in every inbox.
LEMMA NewlyAnnouncedHears ==
  ASSUME TypeOK, Known, [Next]_vars, NEW i \in Instance, NEW s \in announced' \ announced
  PROVE  Hears(i, s)'
  <1>1. ASSUME NEW k \in Kill, KillPublish(k), s \in kill[k].read PROVE Hears(i, s)'
    <2>1. UserOf[s] = kill[k].user /\ kill[k].user \in User
      BY <1>1 DEF Known, SessionsOf, TypeOK, KillCall
    <2>2. Broadcast(kill[k].user, kill[k].read) /\ wire' = wire
      BY <1>1 DEF KillPublish, Unheard
    <2> QED
      BY <2>1, <2>2, BroadcastReaches DEF Hears
  <1>2. ASSUME NEW l \in Logout, LogoutPublish(l), s = logout[l].session PROVE Hears(i, s)'
    <2>1. UserOf[s] \in User
      BY <1>2, SessionAssumption DEF TypeOK, LogoutCall
    <2>2. Broadcast(UserOf[s], {s}) /\ wire' = wire
      BY <1>2 DEF LogoutPublish, Unheard
    <2> QED
      BY <2>1, <2>2, BroadcastReaches DEF Hears
  <1> QED
    BY <1>1, <1>2, NewlyAnnounced

LEMMA CrashHears ==
  ASSUME TypeOK, Cut, NEW j \in Instance, Crash(j), NEW i \in Instance, NEW s \in announced
  PROVE  Hears(i, s)'
  <1>0. Hears(i, s) /\ s \in Session
    BY DEF Cut, Hears, TypeOK
  <1> QED
    BY <1>0 DEF Crash, Hears, TypeOK

LEMMA FlagFollowsTask ==
  ASSUME TypeOK, Cut, [Next]_vars, NEW i \in Instance, subscribed'[i]
  PROVE  sub'[i] = "reading"
  <1>1. CASE SubscriberNext
    BY <1>1 DEF SubscriberNext, Join, FlushGap, RaiseFlag, WireBreaks, NoticeLoss, Deliver,
                TypeOK, Cut
  <1>2. CASE \E j \in Instance : Crash(j)
    BY <1>2 DEF Crash, TypeOK, Cut
  <1>3. CASE ProxyNext \/ MissNext \/ ApiNext \/ KillNext \/ LogoutNext \/ UNCHANGED vars
    <2>1. sub' = sub /\ subscribed' = subscribed
      BY <1>3, OthersLeaveTasks
    <2> QED
      BY <2>1 DEF Cut
  <1> QED
    BY <1>1, <1>2, <1>3 DEF Next

LEMMA StepCut == TypeOK /\ Known /\ Dead /\ Cut /\ [Next]_vars => Cut'
  <1> SUFFICES ASSUME TypeOK, Known, Dead, Cut, [Next]_vars PROVE Cut'
    OBVIOUS
  <1>1. ASSUME NEW i \in Instance, NEW s \in announced' PROVE Hears(i, s)'
    <2>1. CASE s \notin announced
      BY <2>1, NewlyAnnouncedHears
    <2>2. CASE s \in announced
      BY <2>2, SubscriberHears, OtherHears, CrashHears DEF Next
    <2> QED
      BY <2>1, <2>2
  <1>2. ASSUME NEW i \in Instance PROVE subscribed'[i] => sub'[i] = "reading"
    BY FlagFollowsTask
  <1> QED
    BY <1>1, <1>2 DEF Cut, Hears

\* The drop on the instance that serves the call, and that it has run.
LEMMA KillDrops ==
  ASSUME TypeOK, [Next]_vars, NEW k \in Kill, kill'[k].pc \in Dropped
  PROVE  /\ kill'[k].at = kill[k].at /\ kill[k].at \in Instance
         /\ kill[k].pc \in Dropped \/ KillDrop(k)
  <1>1. CASE KillNext
    <2>1. PICK j \in Kill :
            \/ KillStart(j) \/ KillLogoutAll(j) \/ KillRead(j) \/ KillDelete(j)
            \/ KillPublish(j) \/ KillDrop(j) \/ KillForget(j) \/ KillStops(j)
      BY <1>1 DEF KillNext
    <2>2. CASE j # k
      BY <2>1, <2>2, KillEffect DEF TypeOK, KillCall
    <2>3. CASE j = k
      BY <2>1, <2>3, KillEffect DEF TypeOK, KillCall
    <2> QED
      BY <2>2, <2>3
  <1>2. CASE \E i \in Instance : Crash(i)
    BY <1>2 DEF Crash, TypeOK, KillCall, Dropped
  <1>3. CASE \E t \in Session : SignIn(t)
    BY <1>3 DEF SignIn, TypeOK, KillCall
  <1>4. CASE kill' = kill
    BY <1>4 DEF TypeOK, KillCall
  <1> QED
    BY <1>1, <1>2, <1>3, <1>4, KillMovers

LEMMA LogoutDrops ==
  ASSUME TypeOK, [Next]_vars, NEW l \in Logout, logout'[l].pc \in Dropped
  PROVE  /\ logout'[l].at = logout[l].at /\ logout[l].at \in Instance
         /\ logout[l].pc \in Dropped \/ LogoutDrop(l)
  <1>1. CASE LogoutNext
    <2>1. PICK m \in Logout :
            \/ LogoutStart(m) \/ LogoutRecord(m) \/ LogoutSignOut(m) \/ LogoutDelete(m)
            \/ LogoutPublish(m) \/ LogoutDrop(m) \/ LogoutForget(m) \/ LogoutStops(m)
      BY <1>1 DEF LogoutNext
    <2>2. CASE m # l
      BY <2>1, <2>2, LogoutEffect DEF TypeOK, LogoutCall
    <2>3. CASE m = l
      BY <2>1, <2>3, LogoutEffect DEF TypeOK, LogoutCall
    <2> QED
      BY <2>2, <2>3
  <1>2. CASE \E i \in Instance : Crash(i)
    BY <1>2 DEF Crash, TypeOK, LogoutCall, Dropped
  <1>3. CASE logout' = logout
    BY <1>3 DEF TypeOK, LogoutCall
  <1> QED
    BY <1>1, <1>2, <1>3, LogoutMovers

LEMMA StepLocal == TypeOK /\ Known /\ Dead /\ LocalIsCut /\ [Next]_vars => LocalIsCut'
  <1> SUFFICES ASSUME TypeOK, Known, Dead, LocalIsCut, [Next]_vars PROVE LocalIsCut'
    OBVIOUS
  <1> USE DEF Deleted, Dropped
  <1>1. ASSUME NEW k \in Kill, kill'[k].pc \in Dropped, NEW s \in kill'[k].read
        PROVE  cache'[kill'[k].at][s] # "fresh"
    <2>1. s \in kill[k].read
      BY <1>1, KillDeletes
    <2>2. /\ kill'[k].at = kill[k].at /\ kill[k].at \in Instance
          /\ kill[k].pc \in Dropped \/ KillDrop(k)
      BY <1>1, KillDrops
    <2>3. s \in Session /\ s \notin live /\ UserOf[s] = kill[k].user
      BY <2>1, <2>2 DEF Known, Dead, KillDrop, SessionsOf
    <2>4. CASE KillDrop(k)
      BY <2>2, <2>3, <2>4, DropOnlyDrops DEF KillDrop
    <2>5. CASE kill[k].pc \in Dropped
      BY <2>1, <2>2, <2>3, <2>5, FreshIsAlive DEF LocalIsCut
    <2> QED
      BY <2>2, <2>4, <2>5
  <1>2. ASSUME NEW l \in Logout, logout'[l].pc \in Dropped
        PROVE  cache'[logout'[l].at][logout'[l].session] # "fresh"
    <2>1. logout'[l].session = logout[l].session /\ logout[l].session \in Session
      BY <1>2, LogoutDeletes DEF TypeOK, LogoutCall
    <2>2. /\ logout'[l].at = logout[l].at /\ logout[l].at \in Instance
          /\ logout[l].pc \in Dropped \/ LogoutDrop(l)
      BY <1>2, LogoutDrops
    <2>3. logout[l].session \notin live
      BY <2>2 DEF Dead, LogoutDrop
    <2>4. CASE LogoutDrop(l)
      BY <2>1, <2>2, <2>4, DropOnlyDrops DEF LogoutDrop
    <2>5. CASE logout[l].pc \in Dropped
      BY <2>1, <2>2, <2>3, <2>5, FreshIsAlive DEF LocalIsCut
    <2> QED
      BY <2>2, <2>4, <2>5
  <1> QED
    BY <1>1, <1>2 DEF LocalIsCut

-----------------------------------------------------------------------------
\* The index: a step below that takes a session out of it, takes a dead one.
LEMMA StepFound == TypeOK /\ Known /\ Dead /\ Found /\ [Next]_vars => Found'
  <1> SUFFICES ASSUME TypeOK, Known, Dead, Found, [Next]_vars PROVE Found'
    OBVIOUS
  <1>1. ASSUME live' \subseteq live, granted' = granted, UNCHANGED <<born, index, orphaned>>,
               \A i \in Instance, s \in Session : miss'[i][s] = "indexed" => miss[i][s] = "indexed"
        PROVE  Found'
    BY <1>1 DEF Found, TypeOK
  <1>2. CASE ProxyNext
    <2>1. ASSUME NEW t \in Session, SignIn(t) \/ SilentSignIn(t) PROVE Found'
      <3>1. t \notin granted /\ \A i \in Instance : miss[i][t] = "idle"
        BY <2>1 DEF SignIn, SilentSignIn, Found, Known
      <3> QED
        BY <2>1, <3>1 DEF SignIn, SilentSignIn, Found, historyVars
    <2>2. ASSUME NEW t \in Session, SessionEnds(t) PROVE Found'
      BY <1>1, <2>2 DEF SessionEnds, historyVars
    <2> QED
      BY <1>2, <2>1, <2>2 DEF ProxyNext
  <1>3. ASSUME NEW i \in Instance, NEW t \in Session, MissRecord(i, t) PROVE Found'
    BY <1>3 DEF MissRecord, Record, Found, TypeOK, proxyVars
  <1>4. ASSUME NEW i \in Instance, NEW t \in Session, MissInsert(i, t) PROVE Found'
    <2>1. t \in born
      BY <1>4 DEF MissInsert, Known
    <2> QED
      BY <1>4, <2>1 DEF MissInsert, Found, TypeOK, proxyVars
  <1>5. ASSUME NEW i \in Instance, NEW t \in Session,
               MissStart(i, t) \/ MissVerify(i, t) \/ MissFails(i, t) \/ EntryLeaves(i, t)
        PROVE  Found'
    <2>1. \A j \in Instance, s \in Session : miss'[j][s] = "indexed" => miss[j][s] = "indexed"
      BY <1>5 DEF MissStart, MissVerify, MissFails, EntryLeaves, TypeOK
    <2> QED
      BY <1>1, <1>5, <2>1 DEF MissStart, MissVerify, MissFails, EntryLeaves, proxyVars, historyVars
  <1>6. CASE ApiNext
    BY <1>6 DEF ApiNext, ApiVerify, ApiRecord, ApiRefused, Record, Found, Known, proxyVars,
                historyVars
  <1>7. CASE SubscriberNext
    BY <1>1, <1>7 DEF SubscriberNext, Join, FlushGap, RaiseFlag, WireBreaks, NoticeLoss, Deliver,
                      proxyVars, historyVars
  <1>8. ASSUME NEW k \in Kill, KillForget(k) PROVE Found'
    <2>1. \A s \in live : s \notin kill[k].read
      BY <1>8 DEF KillForget, Dead, Deleted
    <2> QED
      BY <1>8, <2>1 DEF KillForget, Found, proxyVars
  <1>9. ASSUME NEW k \in Kill,
               \/ KillStart(k) \/ KillLogoutAll(k) \/ KillRead(k) \/ KillDelete(k)
               \/ KillPublish(k) \/ KillDrop(k) \/ KillStops(k)
        PROVE  Found'
    BY <1>1, <1>9 DEF KillStart, KillLogoutAll, KillRead, KillDelete, KillPublish, KillDrop,
                      KillStops, proxyVars, historyVars
  <1>10. ASSUME NEW l \in Logout, LogoutForget(l) PROVE Found'
    <2>1. logout[l].session \notin live
      BY <1>10 DEF LogoutForget, Dead, Deleted
    <2> QED
      BY <1>10, <2>1 DEF LogoutForget, Found, proxyVars, historyVars
  <1>11. ASSUME NEW l \in Logout, LogoutRecord(l) PROVE Found'
    BY <1>11 DEF LogoutRecord, Record, Found, proxyVars
  <1>12. ASSUME NEW l \in Logout,
                \/ LogoutStart(l) \/ LogoutSignOut(l) \/ LogoutDelete(l) \/ LogoutPublish(l)
                \/ LogoutDrop(l) \/ LogoutStops(l)
         PROVE  Found'
    BY <1>1, <1>12 DEF LogoutStart, LogoutSignOut, LogoutDelete, LogoutPublish, LogoutDrop,
                       LogoutStops, proxyVars, historyVars
  <1>13. ASSUME NEW i \in Instance, Crash(i) PROVE Found'
    <2>1. \A j \in Instance, s \in Session : miss'[j][s] = "indexed" => miss[j][s] = "indexed"
      BY <1>13 DEF Crash, TypeOK
    <2> QED
      BY <1>1, <1>13, <2>1 DEF Crash, proxyVars, historyVars
  <1>14. CASE UNCHANGED vars
    BY <1>1, <1>14 DEF vars, proxyVars, historyVars
  <1>15. CASE MissNext
    BY <1>3, <1>4, <1>5, <1>15 DEF MissNext
  <1>16. CASE KillNext
    BY <1>8, <1>9, <1>16 DEF KillNext
  <1>17. CASE LogoutNext
    BY <1>10, <1>11, <1>12, <1>17 DEF LogoutNext
  <1> QED
    BY <1>2, <1>6, <1>7, <1>13, <1>14, <1>15, <1>16, <1>17 DEF Next

\* The sign-on: only a password adds to it, and a password excuses the browser.
LEMMA StepExcused == TypeOK /\ Excused /\ [Next]_vars => Excused'
  <1> SUFFICES ASSUME TypeOK, Excused, [Next]_vars PROVE Excused'
    OBVIOUS
  <1>1. CASE KillNext
    <2>1. PICK k \in Kill :
            \/ KillStart(k) \/ KillLogoutAll(k) \/ KillRead(k) \/ KillDelete(k)
            \/ KillPublish(k) \/ KillDrop(k) \/ KillForget(k) \/ KillStops(k)
      BY <1>1 DEF KillNext
    <2>2. born' = born /\ live' \subseteq live /\ sso' \subseteq sso
      BY <2>1 DEF KillStart, KillLogoutAll, KillRead, KillDelete, KillPublish, KillDrop,
                  KillForget, KillStops, proxyVars
    <2>3. \A j \in Kill : kill'[j].user = kill[j].user
      BY <2>1, KillEffect
    <2>4. ASSUME NEW j \in Kill, kill'[j].pc \in SignedOff, NEW s \in SessionsOf(kill'[j].user),
                 s \notin born', BrowserOf[s] \in sso'
          PROVE  s \in kill'[j].excused
      <3>1. CASE j = k /\ KillLogoutAll(k)
        <4>1. BrowserOf[s] \notin sso'
          BY <2>3, <2>4, <3>1 DEF KillLogoutAll
        <4> QED
          BY <2>4, <4>1
      <3>2. CASE ~(j = k /\ KillLogoutAll(k))
        <4>1. kill[j].excused \subseteq kill'[j].excused /\ kill[j].pc \in SignedOff
          BY <2>1, <2>4, <3>2, KillEffect
        <4> QED
          BY <2>2, <2>3, <2>4, <4>1 DEF Excused
      <3> QED
        BY <3>1, <3>2
    <2>5. ASSUME NEW j \in Kill, kill'[j].pc \in PastRead,
                 NEW s \in live' \cap SessionsOf(kill'[j].user)
          PROVE  s \in kill'[j].excused \cup kill'[j].read
      <3>1. s \in live /\ s \in SessionsOf(kill[j].user)
        BY <2>2, <2>3, <2>5
      <3>2. \/ /\ kill'[j].read = kill[j].read /\ kill'[j].excused = kill[j].excused
               /\ kill[j].pc \in PastRead
            \/ /\ kill'[j].read = index \cap SessionsOf(kill[j].user)
               /\ kill'[j].excused = kill[j].excused \cup Hidden(kill[j].user)
        BY <2>1, <2>5, KillEffect
      <3> QED
        BY <3>1, <3>2 DEF Excused, Hidden
    <2> QED
      BY <2>4, <2>5 DEF Excused
  <1>2. ASSUME NEW t \in Session, SignIn(t) PROVE Excused'
    <2>1. ASSUME NEW k \in Kill, kill'[k].pc \in SignedOff
          PROVE  /\ kill'[k].pc = kill[k].pc /\ kill'[k].user = kill[k].user
                 /\ kill'[k].read = kill[k].read
                 /\ kill'[k].excused = kill[k].excused \cup {s \in Session : BrowserOf[s] = BrowserOf[t]}
      BY <1>2, <2>1 DEF SignIn, TypeOK, KillCall, SignedOff
    <2>2. /\ t \notin born /\ born' = born \cup {t} /\ live' = live \cup {t}
          /\ sso' = sso \cup {BrowserOf[t]}
      BY <1>2 DEF SignIn
    <2>3. ASSUME NEW k \in Kill, kill'[k].pc \in SignedOff, NEW s \in SessionsOf(kill'[k].user),
                 s \notin born', BrowserOf[s] \in sso'
          PROVE  s \in kill'[k].excused
      <3>1. s \in Session /\ s \in SessionsOf(kill[k].user) /\ kill[k].pc \in SignedOff
        BY <2>1, <2>3 DEF SessionsOf
      <3>2. CASE BrowserOf[s] = BrowserOf[t]
        BY <2>1, <2>3, <3>1, <3>2
      <3>3. CASE BrowserOf[s] # BrowserOf[t]
        BY <2>1, <2>2, <2>3, <3>1, <3>3 DEF Excused
      <3> QED
        BY <3>2, <3>3
    <2>4. ASSUME NEW k \in Kill, kill'[k].pc \in PastRead,
                 NEW s \in live' \cap SessionsOf(kill'[k].user)
          PROVE  s \in kill'[k].excused \cup kill'[k].read
      <3>1. kill'[k].pc \in SignedOff
        BY <2>4 DEF PastRead
      <3>2. CASE s = t
        BY <2>1, <3>1, <3>2
      <3>3. CASE s # t
        BY <2>1, <2>2, <2>4, <3>1, <3>3 DEF Excused
      <3> QED
        BY <3>2, <3>3
    <2> QED
      BY <2>3, <2>4 DEF Excused
  <1>3. ASSUME NEW t \in Session, SilentSignIn(t) PROVE Excused'
    <2>1. /\ kill' = kill /\ sso' = sso /\ t \notin born /\ BrowserOf[t] \in sso
          /\ born' = born \cup {t} /\ live' = live \cup {t}
      BY <1>3 DEF SilentSignIn, callVars
    <2>2. \A k \in Kill : kill[k].pc \in PastRead => kill[k].pc \in SignedOff
      BY DEF PastRead
    <2> QED
      BY <2>1, <2>2 DEF Excused
  <1>4. ASSUME UNCHANGED <<born, kill>>, live' \subseteq live, sso' \subseteq sso PROVE Excused'
    BY <1>4 DEF Excused
  <1>5. ASSUME NEW t \in Session, SessionEnds(t) PROVE Excused'
    BY <1>4, <1>5 DEF SessionEnds, callVars
  <1>6. CASE MissNext
    BY <1>4, <1>6 DEF MissNext, MissStart, MissVerify, MissRecord, MissInsert, MissFails,
                      EntryLeaves, proxyVars, callVars
  <1>7. CASE ApiNext
    BY <1>4, <1>7 DEF ApiNext, ApiVerify, ApiRecord, ApiRefused, proxyVars, callVars
  <1>8. CASE SubscriberNext
    BY <1>4, <1>8 DEF SubscriberNext, Join, FlushGap, RaiseFlag, WireBreaks, NoticeLoss, Deliver,
                      proxyVars, callVars
  <1>9. CASE LogoutNext
    BY <1>4, <1>9 DEF LogoutNext, LogoutStart, LogoutRecord, LogoutSignOut, LogoutDelete,
                      LogoutPublish, LogoutDrop, LogoutForget, LogoutStops, proxyVars
  <1>10. ASSUME NEW i \in Instance, Crash(i) PROVE Excused'
    <2>1. ASSUME NEW k \in Kill
          PROVE  /\ kill'[k].user = kill[k].user /\ kill'[k].excused = kill[k].excused
                 /\ kill'[k].read = kill[k].read
                 /\ kill'[k].pc \in SignedOff => kill[k].pc \in SignedOff
                 /\ kill'[k].pc \in PastRead => kill[k].pc \in PastRead
      BY <1>10 DEF Crash, TypeOK, KillCall, SignedOff, PastRead
    <2> QED
      BY <1>10, <2>1 DEF Crash, Excused, proxyVars
  <1>11. CASE UNCHANGED vars
    BY <1>4, <1>11 DEF vars, proxyVars, callVars
  <1> QED
    BY <1>1, <1>2, <1>3, <1>5, <1>6, <1>7, <1>8, <1>9, <1>10, <1>11 DEF Next, ProxyNext

-----------------------------------------------------------------------------
IInv == TypeOK /\ Known /\ Dead /\ Cut /\ LocalIsCut /\ Found /\ Excused

LEMMA InitIInv == Init => IInv
  <1> SUFFICES ASSUME Init PROVE IInv
    OBVIOUS
  <1>1. \A k \in Kill : kill[k].pc = "idle"
    BY DEF Init
  <1>2. \A l \in Logout : logout[l].pc = "idle"
    BY DEF Init
  <1>3. Dead /\ LocalIsCut
    BY <1>1, <1>2 DEF Init, Dead, Deleted, LocalIsCut, Dropped
  <1>4. Cut
    BY DEF Init, Cut
  <1>5. Found /\ Excused
    BY <1>1 DEF Init, Found, Excused, SignedOff, PastRead
  <1> QED
    BY <1>3, <1>4, <1>5, InitTypeOK, InitKnown DEF IInv

THEOREM Invariance == Spec => []IInv
  <1>1. IInv /\ [Next]_vars => IInv'
    BY StepTypeOK, StepKnown, StepDead, StepCut, StepLocal, StepFound, StepExcused DEF IInv
  <1> QED
    BY InitIInv, <1>1, PTL DEF Spec

\* Once a deletion has been published, what an instance cached before it is
\* served no more, unless the message waits or the dead link is unnoticed.
THEOREM AnnouncedIsCutAlways == Spec => []AnnouncedIsCut
  <1>1. IInv => AnnouncedIsCut
    BY DEF IInv, Cut, AnnouncedIsCut
  <1> QED
    BY <1>1, Invariance, PTL

\* The instance that serves a kill switch or a logout holds nothing from before
\* it once its local drop has run, whether the call goes on, answers 200, or
\* answers that its publish or its last step failed (admin.rs kill, portal.rs
\* logout).
THEOREM LocalIsCutAlways == Spec => []LocalIsCut
  <1>1. IInv => LocalIsCut
    BY DEF IInv
  <1> QED
    BY <1>1, Invariance, PTL

\* A living session that was ever answered is in the index, where a kill switch
\* looks for it: the index is written before the answer (decide.rs, api.rs
\* indexed), and only dead sessions leave it, but for those that are recorded
\* between a kill switch's SMEMBERS and its last step.
THEOREM GrantedIsFindableAlways == Spec => []GrantedIsFindable
  <1>1. IInv => GrantedIsFindable
    BY DEF IInv, Found, GrantedIsFindable
  <1> QED
    BY <1>1, Invariance, PTL

\* A kill switch that answered 200 left nothing alive that it had found; a
\* session of its user that lives was in no index when it read them, or has had
\* its browser's password typed since the call began: the sign-on goes before
\* the sessions are read and deleted (admin.rs kill), so none can be had from it
\* in between or afterwards.
THEOREM KilledStaysOutAlways == Spec => []KilledStaysOut
  <1>1. IInv => KilledStaysOut
    <2> SUFFICES ASSUME IInv, NEW k \in Kill, kill[k].pc = "ok"
                 PROVE  /\ kill[k].read \cap live = {}
                        /\ live \cap SessionsOf(kill[k].user) \subseteq kill[k].excused
      BY DEF KilledStaysOut
    <2>1. kill[k].read \cap live = {}
      BY DEF IInv, Dead, Deleted
    <2>2. live \cap SessionsOf(kill[k].user) \subseteq kill[k].excused \cup kill[k].read
      BY DEF IInv, Excused, PastRead, SignedOff
    <2> QED
      BY <2>1, <2>2
  <1> QED
    BY <1>1, Invariance, PTL
=============================================================================
