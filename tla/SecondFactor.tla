----------------------------- MODULE SecondFactor -----------------------------
(***************************************************************************)
(* POST /api/admin/reset-second-factor: an administrator has a user's OTP  *)
(* credentials deleted at Keycloak.  The call keeps nothing of its own; it *)
(* is a sequence of requests to a directory that others change meanwhile,  *)
(* and any of them may fail, or be done with its answer lost.              *)
(*                                                                         *)
(* Keycloak (external) is its groups and its credentials; a credential's   *)
(* id is never used again.                                                 *)
(***************************************************************************)
EXTENDS Integers, FiniteSets

CONSTANTS
  User,
  KGroup,        \* the realm's groups
  ADMIN_GROUP,
  AUDITOR_GROUP,
  Request,       \* calls that arrive: sub and groups of the session, and whether
                 \* the Origin is the portal's
  ResetCall,
  GROUPS_READ,   \* groups Keycloak sends at most
  MaxOtp         \* bound: credentials ever enrolled

ASSUME ResetAssumption ==
  /\ Request \subseteq [sub : User, groups : SUBSET KGroup, portal : BOOLEAN]
  /\ GROUPS_READ \in Nat \ {0} /\ MaxOtp \in Nat
  /\ IsFiniteSet(KGroup)

VARIABLES
  memberOf,  \* the groups of each user
  otp,       \* the OTP credentials of each user
  lastOtp,   \* how many there ever were
  reset      \* the calls

resetVars == <<memberOf, otp, lastOtp, reset>>

NoReset(pc) == [pc |-> pc, sub |-> "none", target |-> "none", groups |-> {},
                listed |-> {}, left |-> {}, privileged |-> FALSE, moved |-> FALSE]

\* A call past its guard.
UnderWay ==
  [pc : {"groups", "count", "list", "delete", "ok"},
   sub : User, target : User, groups : SUBSET KGroup,
   listed : SUBSET (1..lastOtp), left : SUBSET (1..lastOtp),
   \* history: the target was privileged when its groups were read, and they
   \* changed before they were counted.
   privileged : BOOLEAN, moved : BOOLEAN]

ResetTypeOK ==
  /\ memberOf \in [User -> SUBSET KGroup]
  /\ otp \in [User -> SUBSET (1..lastOtp)]
  /\ lastOtp \in 0..MaxOtp
  /\ reset \in [ResetCall -> {NoReset("idle")} \cup UnderWay]
  /\ \A u, v \in User : u # v => otp[u] \cap otp[v] = {}

ResetInit ==
  /\ memberOf \in [User -> SUBSET KGroup]
  /\ otp = [u \in User |-> {}]
  /\ lastOtp = 0
  /\ reset = [c \in ResetCall |-> NoReset("idle")]

-----------------------------------------------------------------------------
(* Who may.                                                                *)

InGroup(groups, group) == group # "" /\ group \in groups

MayManage(groups, reads) ==
  InGroup(groups, ADMIN_GROUP) \/ (reads /\ InGroup(groups, AUDITOR_GROUP))

Privileged(groups) == InGroup(groups, ADMIN_GROUP) \/ InGroup(groups, AUDITOR_GROUP)

MayResetSecondFactor(sub, target, groups) == sub # target /\ ~Privileged(groups)

\* guard: of the groups in the session, which may be behind Keycloak's.
Admitted(r) == MayManage(r.groups, FALSE) /\ r.portal

-----------------------------------------------------------------------------
(* The call.                                                               *)

\* The username is resolved to an id, which the rest goes by.
Resolve(c, r, u) ==
  /\ reset[c].pc \in {"idle", "ok"}
  /\ Admitted(r)
  /\ reset' = [reset EXCEPT ![c] = [NoReset("groups") EXCEPT !.sub = r.sub, !.target = u]]
  /\ UNCHANGED <<memberOf, otp, lastOtp>>

\* A page, when there are more.
ReadGroups(c) ==
  LET all == memberOf[reset[c].target] IN
  /\ reset[c].pc = "groups"
  /\ \E page \in SUBSET all :
       /\ page = all \/ Cardinality(page) = GROUPS_READ
       /\ Cardinality(page) <= GROUPS_READ
       /\ reset' = [reset EXCEPT ![c].pc = "count", ![c].groups = page,
                                 ![c].privileged = Privileged(all)]
  /\ UNCHANGED <<memberOf, otp, lastOtp>>

\* (Deviation: what was read is taken for all of them.)
JudgePage(c) ==
  LET call == reset[c] IN
  /\ call.pc = "count"
  /\ reset' = [reset EXCEPT ![c] =
       IF MayResetSecondFactor(call.sub, call.target, call.groups)
       THEN [call EXCEPT !.pc = "list"] ELSE NoReset("idle")]
  /\ UNCHANGED <<memberOf, otp, lastOtp>>

\* The count must be that of the groups read; then the two refusals.
Judge(c) ==
  LET call == reset[c] IN
  /\ call.pc = "count"
  /\ reset' = [reset EXCEPT ![c] =
       IF /\ Cardinality(memberOf[call.target]) = Cardinality(call.groups)
          /\ MayResetSecondFactor(call.sub, call.target, call.groups)
       THEN [call EXCEPT !.pc = "list"] ELSE NoReset("idle")]
  /\ UNCHANGED <<memberOf, otp, lastOtp>>

ListOtp(c) ==
  /\ reset[c].pc = "list"
  /\ reset' = [reset EXCEPT ![c].pc = "delete",
                            ![c].listed = otp[reset[c].target],
                            ![c].left = otp[reset[c].target]]
  /\ UNCHANGED <<memberOf, otp, lastOtp>>

\* (Deviation: whatever OTP credential there is.)
DeleteAnyOtp(c) == \E k \in reset[c].left :
  /\ reset[c].pc = "delete"
  /\ otp' = [otp EXCEPT ![reset[c].target] = {}]
  /\ reset' = [reset EXCEPT ![c].left = @ \ {k}]
  /\ UNCHANGED <<memberOf, lastOtp>>

\* One credential, by its id.
DeleteOtp(c) == \E k \in reset[c].left :
  /\ reset[c].pc = "delete"
  /\ k \in otp[reset[c].target]
  /\ otp' = [otp EXCEPT ![reset[c].target] = @ \ {k}]
  /\ reset' = [reset EXCEPT ![c].left = @ \ {k}]
  /\ UNCHANGED <<memberOf, lastOtp>>

\* (Deviation: one that cannot be deleted is passed over.)
ResetPassesOver(c) == \E k \in reset[c].left :
  /\ reset[c].pc = "delete"
  /\ reset' = [reset EXCEPT ![c].left = @ \ {k}]
  /\ UNCHANGED <<memberOf, otp, lastOtp>>

\* A request fails: an error, a credential that is no longer there, a timeout
\* -- and then it may have been done.  The call ends there and says so.
ResetStops(c) ==
  /\ reset[c].pc \in {"groups", "count", "list", "delete"}
  /\ \/ UNCHANGED otp
     \/ /\ reset[c].pc = "delete"
        /\ \E k \in reset[c].left : otp' = [otp EXCEPT ![reset[c].target] = @ \ {k}]
  /\ reset' = [reset EXCEPT ![c] = NoReset("idle")]
  /\ UNCHANGED <<memberOf, lastOtp>>

ResetOk(c) ==
  /\ reset[c].pc = "delete" /\ reset[c].left = {}
  /\ reset' = [reset EXCEPT ![c].pc = "ok"]
  /\ UNCHANGED <<memberOf, otp, lastOtp>>

-----------------------------------------------------------------------------
(* The directory (external).                                               *)

\* history: between the read and the count.
Moved(u) == [c \in ResetCall |->
  IF reset[c].target = u /\ reset[c].pc = "count"
  THEN [reset[c] EXCEPT !.moved = TRUE] ELSE reset[c]]

Regroup(u, groups) ==
  /\ memberOf[u] # groups
  /\ memberOf' = [memberOf EXCEPT ![u] = groups]
  /\ reset' = Moved(u)
  /\ UNCHANGED <<otp, lastOtp>>

Enrol(u) ==
  /\ lastOtp < MaxOtp
  /\ lastOtp' = lastOtp + 1
  /\ otp' = [otp EXCEPT ![u] = @ \cup {lastOtp + 1}]
  /\ UNCHANGED <<memberOf, reset>>

ResetNext ==
  \/ \E c \in ResetCall :
       \/ \E r \in Request, u \in User : Resolve(c, r, u)
       \/ ReadGroups(c) \/ Judge(c) \/ ListOtp(c) \/ DeleteOtp(c)
       \/ ResetStops(c) \/ ResetOk(c)
  \/ \E u \in User : Enrol(u) \/ \E groups \in SUBSET KGroup : Regroup(u, groups)

ResetSpec == ResetInit /\ [][ResetNext]_resetVars
-----------------------------------------------------------------------------
\* may_reset: no call gets as far as the credentials of an administrator or an
\* auditor, or of the caller, even when the directory sends only a page of the
\* groups -- short of groups that change between the page and the count.
NoPrivilegedReset ==
  \A c \in ResetCall : reset[c].pc \in {"list", "delete", "ok"} =>
    /\ reset[c].sub # reset[c].target
    /\ reset[c].privileged => reset[c].moved

\* "ok" is not said of a reset that stopped half way: every credential the list
\* had is gone, whoever deleted it, whatever was lost or done twice.
OkMeansGone ==
  \A c \in ResetCall : reset[c].pc = "ok" =>
    reset[c].listed \cap otp[reset[c].target] = {}

\* A factor the user enrolled after a call had listed the old ones is not deleted
\* by that call, nor is anyone else's: only what was listed of the target is.
NewFactorStays ==
  [][\A u \in User : \A k \in otp[u] \ otp'[u] :
       \E c \in ResetCall : reset[c].target = u /\ k \in reset[c].listed]_resetVars
=============================================================================
