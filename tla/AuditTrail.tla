------------------------------- MODULE AuditTrail -------------------------------
(***************************************************************************)
(* How a decision becomes a row, and what a shutdown leaves behind.  A     *)
(* decision is counted on the cache entry of its session, in one tally per *)
(* outcome and address; an entry that leaves the cache hands its tallies   *)
(* to a bounded channel that nobody waits for; one task writes what it     *)
(* receives from the channel.  The process ends by flushing the cache,     *)
(* letting go of every sender and waiting for that task, for a while.      *)
(*                                                                         *)
(* An insert whose answer is lost may have been done: its row is counted   *)
(* as dropped, or goes with the process, and may be in the table as well.  *)
(*                                                                         *)
(* A row is the set of the decisions it summarises.  DecisionCache has the *)
(* cache itself in detail; here an entry is only its tallies.              *)
(***************************************************************************)
EXTENDS Naturals, Sequences, FiniteSets

CONSTANTS
  Decision,   \* answers of decide to requests with a verified actor
  Tally,      \* an entry's counters for one outcome and one address
  Entry,
  TallyOf,    \* the tally that counts a decision, if its entry is there
  EntryOf,    \* the entry a tally belongs to
  AUDIT_QUEUE \* capacity of the channel

\* Background tasks with an Arc of the cache, and so with a sender.
Task   == {"sweeper", "subscriber"}
\* Whoever removes entries: a task, the requests (by insert), or flush_all.
Remover == Task \cup {"request", "main"}

ASSUME TrailAssumption ==
  /\ TallyOf \in [Decision -> Tally]
  /\ EntryOf \in [Tally -> Entry]
  /\ AUDIT_QUEUE \in Nat \ {0}

VARIABLES
  main,       \* where main is
  answered,   \* history: decisions answered
  cached,     \* entries in the cache
  counters,   \* the decisions each tally stands for
  keys,       \* entries a remover is still going to evict
  hand,       \* rows a remover has taken out and not recorded yet
  queue,      \* the channel
  senders,    \* who holds a sender
  writer,     \* the row write_audit is inserting, if any
  table,      \* rows written
  dropped,    \* rows counted in AUDIT_DROPPED
  lost        \* history: the rows that were in memory, or would have been made
              \* of it, when the process was killed

memory == <<cached, counters, keys, hand, queue, senders, writer>>
vars   == <<main, answered, memory, table, dropped, lost>>

TRow == (SUBSET Decision) \ {{}}
None == {}   \* no row

TypeOK ==
  /\ main \in {"serving", "flushing", "draining", "exited"}
  /\ answered \subseteq Decision
  /\ cached \subseteq Entry
  /\ counters \in [Tally -> SUBSET Decision]
  /\ keys \in [Remover -> SUBSET Entry]
  /\ hand \in [Remover -> SUBSET TRow]
  /\ queue \in Seq(TRow) /\ Len(queue) <= AUDIT_QUEUE
  /\ senders \subseteq Task \cup {"main"}
  /\ writer \in TRow \cup {None}
  /\ table \subseteq TRow /\ dropped \subseteq TRow /\ lost \subseteq TRow
  \* A tally with counters is in an entry that is there.
  /\ \A t \in Tally : counters[t] # {} => EntryOf[t] \in cached

\* Exit: nothing of the process is left.
Emptied ==
  /\ cached' = {}
  /\ counters' = [t \in Tally |-> {}]
  /\ keys' = [r \in Remover |-> {}]
  /\ hand' = [r \in Remover |-> {}]
  /\ queue' = <<>>
  /\ senders' = {}
  /\ writer' = None

Init ==
  /\ main = "serving"
  /\ answered = {}
  /\ cached = {}
  /\ counters = [t \in Tally |-> {}]
  /\ keys = [r \in Remover |-> {}]
  /\ hand = [r \in Remover |-> {}]
  /\ queue = <<>>
  /\ writer = None
  /\ senders = Task \cup {"main"}
  /\ table = {} /\ dropped = {} /\ lost = {}

-----------------------------------------------------------------------------
(* Audit::record, and the ways out of the cache.                           *)

\* (Deviation: the bound is off by one.)
SendOver(row) ==
  IF Len(queue) <= AUDIT_QUEUE
  THEN queue' = Append(queue, row) /\ UNCHANGED dropped
  ELSE dropped' = dropped \cup {row} /\ UNCHANGED queue

\* Never waits: a row that finds the channel full is counted and dropped.
Send(row) ==
  IF Len(queue) < AUDIT_QUEUE
  THEN queue' = Append(queue, row) /\ UNCHANGED dropped
  ELSE dropped' = dropped \cup {row} /\ UNCHANGED queue

\* The entries of out leave, and r has their tallies in its hand.
TakeOut(r, out) ==
  LET theirs == {t \in Tally : EntryOf[t] \in out} IN
  /\ hand' = [hand EXCEPT ![r] = {counters[t] : t \in theirs} \ {None}]
  /\ counters' = [t \in Tally |-> IF t \in theirs THEN {} ELSE counters[t]]

\* answer: counted on the entry, or a row of its own when there is none.
Answer(d) ==
  LET t == TallyOf[d] IN
  /\ main = "serving" /\ d \notin answered
  /\ answered' = answered \cup {d}
  /\ IF EntryOf[t] \in cached
     THEN counters' = [counters EXCEPT ![t] = @ \cup {d}] /\ UNCHANGED <<queue, dropped>>
     ELSE Send({d}) /\ UNCHANGED counters
  /\ UNCHANGED <<main, cached, keys, hand, senders, writer, table, lost>>

\* insert: the entry it replaces and the one the bound pushes out are flushed.
Fill(e) == \E out \in SUBSET cached :
  /\ main = "serving" /\ hand["request"] = {}
  /\ e \in cached => e \in out
  /\ cached' = (cached \ out) \cup {e}
  /\ TakeOut("request", out)
  /\ UNCHANGED <<main, answered, keys, queue, senders, writer, table, dropped, lost>>

\* sweep, drop_sub and the flush before the flag begin with some of the keys.
Collect(r, K) ==
  /\ main = "serving" /\ r # "main"
  /\ keys[r] = {} /\ hand[r] = {}
  /\ K # {} /\ K \subseteq cached
  /\ keys' = [keys EXCEPT ![r] = K]
  /\ UNCHANGED <<main, answered, cached, counters, hand, queue, senders, writer, table, dropped, lost>>

\* (Deviation: the entry goes with its counters.)
EvictSilently(r, e) ==
  /\ e \in keys[r] /\ hand[r] = {}
  /\ keys' = [keys EXCEPT ![r] = @ \ {e}]
  /\ cached' = cached \ {e}
  /\ counters' = [t \in Tally |-> IF EntryOf[t] = e THEN {} ELSE counters[t]]
  /\ UNCHANGED <<main, answered, hand, queue, senders, writer, table, dropped, lost>>

\* evict, under the mutex.
Evict(r, e) ==
  /\ e \in keys[r] /\ hand[r] = {}
  /\ keys' = [keys EXCEPT ![r] = @ \ {e}]
  /\ cached' = cached \ {e}
  /\ TakeOut(r, {e})
  /\ UNCHANGED <<main, answered, queue, senders, writer, table, dropped, lost>>

\* flush, one row at a time.
Record(r) == \E row \in hand[r] :
  /\ hand' = [hand EXCEPT ![r] = @ \ {row}]
  /\ Send(row)
  /\ UNCHANGED <<main, answered, cached, counters, keys, senders, writer, table, lost>>

-----------------------------------------------------------------------------
(* write_audit.                                                            *)

Receive ==
  /\ writer = None /\ queue # <<>>
  /\ writer' = Head(queue)
  /\ queue' = Tail(queue)
  /\ UNCHANGED <<main, answered, cached, counters, keys, hand, senders, table, dropped, lost>>

Insert ==
  /\ writer # None
  /\ table' = table \cup {writer}
  /\ writer' = None
  /\ UNCHANGED <<main, answered, cached, counters, keys, hand, queue, senders, dropped, lost>>

\* Postgres refused the row, or did insert it and its answer never came.
InsertFails ==
  /\ writer # None
  /\ dropped' = dropped \cup {writer}
  /\ table' \in {table, table \cup {writer}}
  /\ writer' = None
  /\ UNCHANGED <<main, answered, cached, counters, keys, hand, queue, senders, lost>>

-----------------------------------------------------------------------------
(* main.                                                                   *)

\* (Deviation: nobody flushes the cache.)
ShutdownUnflushed ==
  /\ main = "serving"
  /\ keys["request"] = {} /\ hand["request"] = {}
  /\ main' = "flushing"
  /\ UNCHANGED <<answered, cached, counters, keys, hand, queue, senders, writer, table, dropped, lost>>

\* The last request has been answered: the tasks are aborted and flush_all
\* takes its keys.
Shutdown ==
  /\ main = "serving"
  /\ keys["request"] = {} /\ hand["request"] = {}
  /\ main' = "flushing"
  /\ keys' = [keys EXCEPT !["main"] = cached]
  /\ UNCHANGED <<answered, cached, counters, hand, queue, senders, writer, table, dropped, lost>>

\* (Deviation: the sweeper is not aborted.)
TaskEndsOne(t) ==
  /\ t # "sweeper"
  /\ main \in {"flushing", "draining"} /\ t \in senders
  /\ keys[t] = {} /\ hand[t] = {}
  /\ senders' = senders \ {t}
  /\ UNCHANGED <<main, answered, cached, counters, keys, hand, queue, writer, table, dropped, lost>>

\* An aborted task ends at its next await, so not inside a sweep or a drop.
TaskEnds(t) ==
  /\ main \in {"flushing", "draining"} /\ t \in senders
  /\ keys[t] = {} /\ hand[t] = {}
  /\ senders' = senders \ {t}
  /\ UNCHANGED <<main, answered, cached, counters, keys, hand, queue, writer, table, dropped, lost>>

\* flush_all is done, and main lets go of the context, the cache and the audit.
LetGo ==
  /\ main = "flushing"
  /\ keys["main"] = {} /\ hand["main"] = {}
  /\ main' = "draining"
  /\ senders' = senders \ {"main"}
  /\ UNCHANGED <<answered, cached, counters, keys, hand, queue, writer, table, dropped, lost>>

Held == ({counters[t] : t \in Tally} \cup (UNION {hand[r] : r \in Remover})
         \cup {queue[i] : i \in DOMAIN queue} \cup {writer}) \ {None}

\* (Deviation: an empty channel is taken for a closed one.)
DrainedEarly ==
  /\ main = "draining"
  /\ queue = <<>> /\ writer = None
  /\ main' = "exited"
  /\ Emptied
  /\ UNCHANGED <<answered, table, dropped, lost>>

\* The channel is empty and nobody is left to send: the writer returns, and
\* main with it.
Drained ==
  /\ main = "draining"
  /\ senders = {} /\ queue = <<>> /\ writer = None
  /\ main' = "exited"
  /\ Emptied
  /\ UNCHANGED <<answered, table, dropped, lost>>

\* SHUTDOWN_DRAIN is over, or the process is killed.  Postgres may do the insert
\* that is on its way all the same.
Killed ==
  /\ main # "exited"
  /\ main' = "exited"
  /\ lost' = lost \cup Held
  /\ table' \in {table, table \cup ({writer} \ {None})}
  /\ Emptied
  /\ UNCHANGED <<answered, dropped>>

Restart ==
  /\ main = "exited"
  /\ main' = "serving"
  /\ senders' = Task \cup {"main"}
  /\ UNCHANGED <<answered, cached, counters, keys, hand, queue, writer, table, dropped, lost>>

Next ==
  \/ \E d \in Decision : Answer(d)
  \/ \E e \in Entry : Fill(e)
  \/ \E r \in Remover : \/ Record(r)
                        \/ \E e \in Entry : Evict(r, e)
                        \/ \E K \in SUBSET Entry : Collect(r, K)
  \/ Receive \/ Insert \/ InsertFails
  \/ Shutdown \/ LetGo \/ Drained \/ Killed \/ Restart
  \/ \E t \in Task : TaskEnds(t)

Spec == Init /\ [][Next]_vars

-----------------------------------------------------------------------------
\* Every answered decision is in exactly one place in memory, or in exactly one
\* of the rows that have left it: written, counted as dropped (store.rs
\* AUDIT_DROPPED), or lost with a process that was killed.  Such a row may be
\* written as well, when its insert's answer was lost, but no row is counted
\* twice and no decision is in two rows.  So what is in no row of the table has
\* been counted, or was killed: flush first, then let go, then wait.
Places(d) ==
  Cardinality({t \in Tally : d \in counters[t]}) +
  Cardinality({r \in Remover : d \in UNION hand[r]}) +
  Cardinality({i \in DOMAIN queue : d \in queue[i]}) +
  (IF d \in writer THEN 1 ELSE 0) +
  Cardinality({row \in table \cup dropped \cup lost : d \in row})

PlacedOnce ==
  /\ \A d \in Decision : Places(d) = IF d \in answered THEN 1 ELSE 0
  /\ dropped \cap lost = {}

\* AuditTrail implements AuditLedger: a row settles all of its decisions in one
\* step and for good, main comes to its own end (main.rs, flush_all, then the
\* writer awaited) only when every decision has been settled, and a kill loses
\* what was in memory and nothing else, of which one row may have been written.
Ledger == INSTANCE AuditLedger WITH
  up      <- main # "exited",
  written <- UNION table,
  dropped <- UNION dropped,
  lost    <- UNION lost

Accounted == Ledger!Spec

-----------------------------------------------------------------------------
(* Liveness.  The tasks run; an insert ends, one way or the other; the     *)
(* sweeper ticks, and an entry that is there long enough has expired.      *)
Fairness ==
  /\ \A r \in Remover : WF_vars(Record(r) \/ \E e \in Entry : Evict(r, e))
  /\ \A e \in Entry : SF_vars(\E K \in SUBSET Entry : e \in K /\ Collect("sweeper", K))
  /\ WF_vars(Receive) /\ WF_vars(Insert \/ InsertFails)
  /\ \A t \in Task : WF_vars(TaskEnds(t))
  /\ WF_vars(LetGo) /\ WF_vars(Drained)

FairSpec == Spec /\ Fairness

\* The writer comes to its end by itself, without the timeout: nobody keeps a
\* sender for ever.
DrainEnds == main = "draining" ~> main = "exited"

\* A decision does not stay in memory, though nobody asks for its entry again.
Settles == \A d \in Decision :
  d \in answered ~> d \in UNION (table \cup dropped \cup lost)
=============================================================================
