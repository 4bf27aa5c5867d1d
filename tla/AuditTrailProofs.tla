--------------------------- MODULE AuditTrailProofs ---------------------------
(***************************************************************************)
(* Proofs about AuditTrail, for any decisions, entries and tallies and any *)
(* capacity of the channel: an answered decision is in exactly one place,  *)
(* whoever evicts, fails, shuts down or is killed.                         *)
(***************************************************************************)
EXTENDS AuditTrail, FiniteSetTheorems, SequenceTheorems, TLAPS

USE TrailAssumption

\* The places.
Tallied(d) == d \in counters[TallyOf[d]]
InHand(d)  == \E r \in Remover : \E row \in hand[r] : d \in row
Queued(d)  == \E i \in DOMAIN queue : d \in queue[i]
Writing(d) == d \in writer
Rows       == table \cup dropped \cup lost
Settled(d) == \E row \in Rows : d \in row

\* PlacedOnce, without the counting.
OnePlace(d) ==
  /\ d \in answered <=> Tallied(d) \/ InHand(d) \/ Queued(d) \/ Writing(d) \/ Settled(d)
  /\ Tallied(d) => ~(InHand(d) \/ Queued(d) \/ Writing(d) \/ Settled(d))
  /\ InHand(d)  => ~(Queued(d) \/ Writing(d) \/ Settled(d))
  /\ Queued(d)  => ~(Writing(d) \/ Settled(d))
  /\ Writing(d) => ~Settled(d)

\* And a place has it once: a tally counts its own decisions, and no two rows
\* on their way have one in common.
OwnTally == \A t \in Tally : \A d \in counters[t] : TallyOf[d] = t
OneHand  == \A r, q \in Remover : \A x \in hand[r], y \in hand[q] :
              x \cap y # {} => r = q /\ x = y
OneSlot  == \A i, j \in DOMAIN queue : queue[i] \cap queue[j] # {} => i = j
\* No two of those that have left, and none is counted as dropped and lost.
OneRow   == \A x, y \in Rows : x \cap y # {} => x = y
OneCount == dropped \cap lost = {}

\* What a shutdown has already seen to.  No task ends before it begins, nobody
\* who has let go of his sender has anything left to send, and what flush_all
\* has not come to it still will.
Phases ==
  /\ main = "serving" =>
       /\ keys["main"] = {} /\ hand["main"] = {}
       /\ Task \subseteq senders
  /\ main # "serving" =>
       /\ keys["request"] = {} /\ hand["request"] = {}
       /\ \A t \in Task \ senders : keys[t] = {} /\ hand[t] = {}
       /\ cached \subseteq keys["main"]
  /\ main \in {"draining", "exited"} => keys["main"] = {} /\ hand["main"] = {}
  /\ main = "exited" =>
       /\ queue = <<>> /\ writer = None /\ senders = {}

Spots == OwnTally /\ OneHand /\ OneSlot /\ OneRow /\ OneCount /\ \A d \in Decision : OnePlace(d)

IInv == TypeOK /\ Phases /\ Spots

LEMMA InitTrail == Init => IInv
  <1> SUFFICES ASSUME Init PROVE IInv
    OBVIOUS
  <1>1. /\ main \in {"serving", "flushing", "draining", "exited"}
        /\ queue \in Seq(TRow) /\ Len(queue) <= AUDIT_QUEUE
    BY DEF Init
  <1>2. TypeOK
    BY <1>1 DEF Init, TypeOK, None
  <1>3. Phases
    BY DEF Init, Phases, Remover
  <1>4. Spots
    BY DEF Init, Spots, OwnTally, OneHand, OneSlot, OneRow, OneCount, Rows, OnePlace, Tallied,
           InHand, Queued, Writing, Settled, None
  <1> QED
    BY <1>2, <1>3, <1>4 DEF IInv

-----------------------------------------------------------------------------
(* The channel.                                                            *)

LEMMA QueueAppend ==
  ASSUME queue \in Seq(TRow), NEW row \in TRow, queue' = Append(queue, row)
  PROVE  /\ queue' \in Seq(TRow) /\ Len(queue') = Len(queue) + 1
         /\ \A d \in Decision : Queued(d)' <=> Queued(d) \/ d \in row
         /\ OneSlot /\ (\A d \in row : ~Queued(d)) => OneSlot'
  <1>1. /\ queue' \in Seq(TRow) /\ Len(queue') = Len(queue) + 1 /\ Len(queue) \in Nat
        /\ DOMAIN queue = 1..Len(queue) /\ DOMAIN queue' = 1..(Len(queue) + 1)
        /\ queue'[Len(queue) + 1] = row
        /\ \A i \in 1..Len(queue) : queue'[i] = queue[i]
    OBVIOUS
  <1>2. \A i \in DOMAIN queue' : i \in DOMAIN queue \/ i = Len(queue) + 1
    BY <1>1
  <1>3. \A d \in Decision : Queued(d)' <=> Queued(d) \/ d \in row
    BY <1>1 DEF Queued
  <1>4. ASSUME OneSlot, \A d \in row : ~Queued(d) PROVE OneSlot'
    <2> SUFFICES ASSUME NEW i \in DOMAIN queue', NEW j \in DOMAIN queue', queue'[i] \cap queue'[j] # {}
                 PROVE  i = j
      BY DEF OneSlot
    <2>1. CASE i \in DOMAIN queue /\ j \in DOMAIN queue
      BY <1>1, <1>4, <2>1 DEF OneSlot
    <2>2. CASE i = Len(queue) + 1 /\ j \in DOMAIN queue
      BY <1>1, <1>4, <2>2 DEF Queued
    <2>3. CASE j = Len(queue) + 1 /\ i \in DOMAIN queue
      BY <1>1, <1>4, <2>3 DEF Queued
    <2> QED
      BY <1>2, <2>1, <2>2, <2>3
  <1> QED
    BY <1>1, <1>3, <1>4

LEMMA QueueTail ==
  ASSUME queue \in Seq(TRow), queue # <<>>, queue' = Tail(queue), OneSlot
  PROVE  /\ queue' \in Seq(TRow) /\ Len(queue') = Len(queue) - 1 /\ Head(queue) \in TRow
         /\ \A d \in Decision : Queued(d)' <=> Queued(d) /\ d \notin Head(queue)
         /\ \A d \in Head(queue) : Queued(d)
         /\ OneSlot'
  <1>1. /\ queue' \in Seq(TRow) /\ Len(queue') = Len(queue) - 1 /\ Len(queue) \in Nat \ {0}
        /\ DOMAIN queue = 1..Len(queue) /\ DOMAIN queue' = 1..(Len(queue) - 1)
        /\ Head(queue) = queue[1] /\ Head(queue) \in TRow
        /\ \A i \in 1..(Len(queue) - 1) : queue'[i] = queue[i + 1]
    OBVIOUS
  <1>2. \A d \in Head(queue) : Queued(d)
    BY <1>1 DEF Queued
  <1>3. ASSUME NEW d \in Decision PROVE Queued(d)' <=> Queued(d) /\ d \notin Head(queue)
    <2>1. ASSUME NEW i \in DOMAIN queue', d \in queue'[i] PROVE Queued(d) /\ d \notin Head(queue)
      <3>1. i + 1 \in DOMAIN queue /\ 1 \in DOMAIN queue /\ i + 1 # 1 /\ d \in queue[i + 1]
        BY <1>1, <2>1
      <3>2. d \notin queue[1]
        BY <3>1 DEF OneSlot
      <3> QED
        BY <1>1, <3>1, <3>2 DEF Queued
    <2>2. ASSUME NEW i \in DOMAIN queue, d \in queue[i], d \notin Head(queue) PROVE Queued(d)'
      <3>1. i # 1 /\ i - 1 \in DOMAIN queue' /\ queue'[i - 1] = queue[i]
        BY <1>1, <2>2
      <3> QED
        BY <2>2, <3>1 DEF Queued
    <2> QED
      BY <2>1, <2>2 DEF Queued
  <1>4. OneSlot'
    <2> SUFFICES ASSUME NEW i \in DOMAIN queue', NEW j \in DOMAIN queue', queue'[i] \cap queue'[j] # {}
                 PROVE  i = j
      BY DEF OneSlot
    <2>1. i + 1 \in DOMAIN queue /\ j + 1 \in DOMAIN queue /\ queue[i + 1] \cap queue[j + 1] # {}
      BY <1>1
    <2>2. i + 1 = j + 1
      BY <2>1 DEF OneSlot
    <2> QED
      BY <1>1, <2>2
  <1> QED
    BY <1>1, <1>2, <1>3, <1>4

(* The rows that have left.                                                *)

\* One more of them, none of whose decisions had left before.
LEMMA OneMoreRow ==
  ASSUME TypeOK, OneRow, NEW row \in TRow, \A d \in row : ~Settled(d), Rows' = Rows \cup {row}
  PROVE  /\ OneRow' /\ row \notin Rows
         /\ \A d \in Decision : Settled(d)' <=> Settled(d) \/ d \in row
  <1>1. row # {} /\ row \subseteq Decision
    BY DEF TRow
  <1>2. \A x \in Rows : x \cap row = {}
    BY DEF Settled
  <1>3. row \notin Rows
    BY <1>1, <1>2
  <1>4. OneRow'
    BY <1>2 DEF OneRow
  <1> QED
    BY <1>3, <1>4 DEF Settled

\* A row that is sent is in the channel or counted as dropped, and not in both.
LEMMA SendStep ==
  ASSUME TypeOK, OneSlot, OneRow, OneCount, NEW row \in TRow, \A d \in row : ~Queued(d) /\ ~Settled(d),
         Send(row), UNCHANGED <<table, lost>>
  PROVE  /\ queue' \in Seq(TRow) /\ Len(queue') <= AUDIT_QUEUE /\ dropped' \subseteq TRow
         /\ OneSlot' /\ OneRow' /\ OneCount'
         /\ \A d \in Decision \ row : (Queued(d)' <=> Queued(d)) /\ (Settled(d)' <=> Settled(d))
         /\ \A d \in row : \/ Queued(d)' /\ ~Settled(d)'
                           \/ ~Queued(d)' /\ Settled(d)'
  <1>1. row \subseteq Decision
    BY DEF TRow
  <1>2. queue \in Seq(TRow) /\ Len(queue) <= AUDIT_QUEUE /\ dropped \subseteq TRow /\ Len(queue) \in Nat
    BY DEF TypeOK
  <1>3. CASE Len(queue) < AUDIT_QUEUE
    <2>1. queue' = Append(queue, row) /\ dropped' = dropped
      BY <1>3 DEF Send
    <2>2. Len(queue) + 1 <= AUDIT_QUEUE
      BY <1>2, <1>3
    <2>3. /\ queue' \in Seq(TRow) /\ Len(queue') = Len(queue) + 1 /\ OneSlot'
          /\ \A d \in Decision : Queued(d)' <=> Queued(d) \/ d \in row
      BY <1>2, <2>1, QueueAppend
    <2>4. Rows' = Rows /\ OneCount'
      BY <2>1 DEF Rows, OneCount
    <2>5. OneRow' /\ \A d \in Decision : Settled(d)' <=> Settled(d)
      BY <2>4 DEF OneRow, Settled
    <2> QED
      BY <1>1, <1>2, <2>1, <2>2, <2>3, <2>4, <2>5
  <1>4. CASE ~(Len(queue) < AUDIT_QUEUE)
    <2>1. queue' = queue /\ dropped' = dropped \cup {row}
      BY <1>4 DEF Send
    <2>2. Rows' = Rows \cup {row}
      BY <2>1 DEF Rows
    <2>3. OneRow' /\ row \notin Rows /\ \A d \in Decision : Settled(d)' <=> Settled(d) \/ d \in row
      BY <2>2, OneMoreRow
    <2>4. OneCount'
      BY <2>1, <2>3 DEF OneCount, Rows
    <2>5. OneSlot' /\ \A d \in Decision : Queued(d)' <=> Queued(d)
      BY <2>1 DEF Queued, OneSlot
    <2> QED
      BY <1>1, <1>2, <2>1, <2>3, <2>4, <2>5
  <1> QED
    BY <1>3, <1>4

-----------------------------------------------------------------------------
(* The places, one step at a time.                                         *)

\* What leaves every place as it was.
LEMMA Unmoved ==
  ASSUME Spots, UNCHANGED <<answered, counters, hand, queue, writer, table, dropped, lost>>
  PROVE  Spots'
  BY DEF Spots, OwnTally, OneHand, OneSlot, OneRow, OneCount, Rows, OnePlace, Tallied, InHand,
         Queued, Writing, Settled

LEMMA AnswerStep ==
  ASSUME TypeOK, Spots, NEW d \in Decision, Answer(d) PROVE TypeOK' /\ Spots'
  <1> DEFINE t == TallyOf[d]
  <1>1. /\ d \notin answered /\ answered' = answered \cup {d} /\ t \in Tally
        /\ UNCHANGED <<main, cached, keys, hand, senders, writer, table, lost>>
    BY DEF Answer
  <1>2. /\ ~Tallied(d) /\ ~InHand(d) /\ ~Queued(d) /\ ~Writing(d) /\ ~Settled(d)
    BY <1>1, Zenon DEF Spots, OnePlace
  <1>3. \A c \in Decision : /\ InHand(c)' <=> InHand(c)
                            /\ Writing(c)' <=> Writing(c)
    BY <1>1 DEF InHand, Writing
  <1>4. OneHand'
    BY <1>1 DEF Spots, OneHand
  <1>5. CASE EntryOf[t] \in cached
    <2>1. counters' = [counters EXCEPT ![t] = @ \cup {d}] /\ UNCHANGED <<queue, dropped>>
      BY <1>5 DEF Answer
    <2>2. TypeOK'
      BY <1>1, <1>5, <2>1 DEF TypeOK
    <2>3. OwnTally' /\ OneSlot'
      BY <1>1, <2>1 DEF Spots, OwnTally, OneSlot, TypeOK
    <2>6. Rows' = Rows /\ OneCount'
      BY <1>1, <2>1 DEF Spots, Rows, OneCount
    <2>7. OneRow'
      BY <2>6 DEF Spots, OneRow
    <2>4. \A c \in Decision : /\ Tallied(c)' <=> Tallied(c) \/ c = d
                              /\ Queued(c)' <=> Queued(c)
                              /\ Settled(c)' <=> Settled(c)
      BY <1>1, <2>1, <2>6 DEF Spots, OwnTally, TypeOK, Tallied, Queued, Settled
    <2>5. ASSUME NEW c \in Decision PROVE OnePlace(c)'
      <3>1. OnePlace(c)
        BY DEF Spots
      <3> QED
        BY <1>1, <1>2, <1>3, <2>4, <3>1 DEF OnePlace
    <2> QED
      BY <1>4, <2>2, <2>3, <2>5, <2>6, <2>7 DEF Spots
  <1>6. CASE EntryOf[t] \notin cached
    <2>1. Send({d}) /\ counters' = counters
      BY <1>6 DEF Answer
    <2>2. /\ queue' \in Seq(TRow) /\ Len(queue') <= AUDIT_QUEUE /\ dropped' \subseteq TRow
          /\ OneSlot' /\ OneRow' /\ OneCount'
          /\ \A c \in Decision \ {d} : (Queued(c)' <=> Queued(c)) /\ (Settled(c)' <=> Settled(c))
          /\ \/ Queued(d)' /\ ~Settled(d)'
             \/ ~Queued(d)' /\ Settled(d)'
      <3>1. {d} \in TRow
        <4>1. d \in {d}
          OBVIOUS
        <4>2. {d} # {} /\ {d} \subseteq Decision
          BY <4>1
        <4> QED
          BY <4>2 DEF TRow
      <3> QED
        BY <1>1, <1>2, <2>1, <3>1, SendStep DEF Spots
    <2>3. TypeOK'
      BY <1>1, <2>1, <2>2 DEF TypeOK
    <2>4. OwnTally' /\ \A c \in Decision : Tallied(c)' <=> Tallied(c)
      BY <2>1 DEF Spots, OwnTally, Tallied
    <2>5. ASSUME NEW c \in Decision PROVE OnePlace(c)'
      <3>1. OnePlace(c)
        BY DEF Spots
      <3>2. CASE c = d
        BY <1>1, <1>2, <1>3, <2>2, <2>4, <3>1, <3>2 DEF OnePlace
      <3>3. CASE c # d
        BY <1>1, <1>3, <2>2, <2>4, <3>1, <3>3 DEF OnePlace
      <3> QED
        BY <3>2, <3>3
    <2> QED
      BY <1>4, <2>2, <2>3, <2>4, <2>5 DEF Spots
  <1> QED
    BY <1>5, <1>6

\* What leaves with the entries of out goes into an empty hand.
LEMMA TakenOut ==
  ASSUME TypeOK, Spots, NEW r \in Remover, hand[r] = {}, NEW out \in SUBSET cached, TakeOut(r, out),
         UNCHANGED <<answered, queue, writer, table, dropped, lost>>
  PROVE  /\ Spots'
         /\ hand' \in [Remover -> SUBSET TRow] /\ \A q \in Remover \ {r} : hand'[q] = hand[q]
         /\ counters' \in [Tally -> SUBSET Decision]
         /\ \A t \in Tally : counters'[t] # {} => EntryOf[t] \in cached \ out
         /\ out = {} => hand'[r] = {}
  <1> DEFINE theirs == {t \in Tally : EntryOf[t] \in out}
             rows == {counters[t] : t \in theirs} \ {None}
  <1>1. hand' = [hand EXCEPT ![r] = rows]
    BY DEF TakeOut
  <1>2. counters' = [t \in Tally |-> IF t \in theirs THEN {} ELSE counters[t]]
    BY DEF TakeOut
  <1>3. rows \in SUBSET TRow
    <2>1. \A u \in Tally : counters[u] \subseteq Decision
      BY DEF TypeOK
    <2> QED
      BY <2>1 DEF TRow, None
  <1>4. \A x, y \in rows : x \cap y # {} => x = y
    BY DEF Spots, OwnTally
  <1>5. \A d \in Decision : (\E row \in rows : d \in row) <=> Tallied(d) /\ TallyOf[d] \in theirs
    BY DEF Spots, OwnTally, Tallied, None
  <1>6. \A t \in Tally : counters'[t] # {} => EntryOf[t] \in cached \ out
    BY <1>2 DEF TypeOK
  <1>7. counters' \in [Tally -> SUBSET Decision]
    BY <1>2 DEF TypeOK
  <1>8. out = {} => rows = {}
    OBVIOUS
  <1>9. OwnTally' /\ \A d \in Decision : Tallied(d)' <=> Tallied(d) /\ TallyOf[d] \notin theirs
    BY <1>2 DEF Spots, OwnTally, Tallied
  <1> HIDE DEF rows, theirs
  <1>10. /\ hand' \in [Remover -> SUBSET TRow] /\ hand'[r] = rows
         /\ \A q \in Remover \ {r} : hand'[q] = hand[q]
    BY <1>1, <1>3 DEF TypeOK
  <1>11. \A d \in Decision : InHand(d)' <=> InHand(d) \/ (Tallied(d) /\ TallyOf[d] \in theirs)
    BY <1>5, <1>10 DEF InHand
  <1>12. OneHand'
    <2>1. ASSUME NEW x \in rows, NEW q \in Remover, NEW y \in hand[q] PROVE x \cap y = {}
      <3>1. ASSUME NEW d \in Decision, d \in x, d \in y PROVE FALSE
        BY <1>5, <2>1, <3>1, Zenon DEF Spots, OnePlace, InHand
      <3> QED
        BY <1>3, <3>1 DEF TRow
    <2> QED
      BY <1>4, <1>10, <2>1 DEF Spots, OneHand
  <1>13. ASSUME NEW d \in Decision PROVE OnePlace(d)'
    <2>1. OnePlace(d)
      BY DEF Spots
    <2>2. /\ Queued(d)' <=> Queued(d)
          /\ Writing(d)' <=> Writing(d)
          /\ Settled(d)' <=> Settled(d)
      BY DEF Queued, Writing, Settled, Rows
    <2> QED
      BY <1>9, <1>11, <2>1, <2>2 DEF OnePlace
  <1>14. OneSlot' /\ OneRow' /\ OneCount'
    BY DEF Spots, OneSlot, OneRow, OneCount, Rows
  <1> QED
    BY <1>6, <1>7, <1>8, <1>9, <1>10, <1>12, <1>13, <1>14 DEF Spots

LEMMA FillStep ==
  ASSUME TypeOK, Spots, NEW e \in Entry, Fill(e) PROVE TypeOK' /\ Spots'
  <1>1. PICK out \in SUBSET cached :
          /\ hand["request"] = {} /\ cached' = (cached \ out) \cup {e} /\ TakeOut("request", out)
          /\ UNCHANGED <<main, answered, keys, queue, senders, writer, table, dropped, lost>>
    BY DEF Fill
  <1>2. "request" \in Remover
    BY DEF Remover
  <1>3. /\ Spots' /\ hand' \in [Remover -> SUBSET TRow] /\ counters' \in [Tally -> SUBSET Decision]
        /\ \A t \in Tally : counters'[t] # {} => EntryOf[t] \in cached \ out
    BY <1>1, <1>2, TakenOut
  <1>4. cached \subseteq Entry
    BY DEF TypeOK
  <1>5. cached' \subseteq Entry /\ \A t \in Tally : counters'[t] # {} => EntryOf[t] \in cached'
    BY <1>1, <1>3, <1>4
  <1>6. TypeOK'
    BY <1>1, <1>3, <1>5 DEF TypeOK
  <1> QED
    BY <1>3, <1>6

LEMMA EvictStep ==
  ASSUME TypeOK, Spots, NEW r \in Remover, NEW e \in Entry, Evict(r, e), e \in cached
  PROVE  TypeOK' /\ Spots' /\ \A q \in Remover \ {r} : hand'[q] = hand[q]
  <1>1. /\ hand[r] = {} /\ cached' = cached \ {e} /\ TakeOut(r, {e}) /\ keys' = [keys EXCEPT ![r] = @ \ {e}]
        /\ UNCHANGED <<main, answered, queue, senders, writer, table, dropped, lost>>
    BY DEF Evict
  <1>2. /\ Spots' /\ hand' \in [Remover -> SUBSET TRow] /\ counters' \in [Tally -> SUBSET Decision]
        /\ \A t \in Tally : counters'[t] # {} => EntryOf[t] \in cached \ {e}
        /\ \A q \in Remover \ {r} : hand'[q] = hand[q]
    BY <1>1, TakenOut
  <1>3. cached' \subseteq Entry /\ keys' \in [Remover -> SUBSET Entry]
    BY <1>1 DEF TypeOK
  <1>4. TypeOK'
    BY <1>1, <1>2, <1>3 DEF TypeOK
  <1> QED
    BY <1>2, <1>4

\* The key of an entry that somebody else has removed: nothing is there to take.
LEMMA EvictNothing ==
  ASSUME TypeOK, Spots, NEW r \in Remover, NEW e \in Entry, Evict(r, e), e \notin cached
  PROVE  TypeOK' /\ Spots' /\ \A q \in Remover \ {r} : hand'[q] = hand[q]
  <1>1. /\ hand[r] = {} /\ cached' = cached \ {e} /\ TakeOut(r, {e}) /\ keys' = [keys EXCEPT ![r] = @ \ {e}]
        /\ UNCHANGED <<main, answered, queue, senders, writer, table, dropped, lost>>
    BY DEF Evict
  <1>2. \A t \in Tally : EntryOf[t] = e => counters[t] = {}
    BY DEF TypeOK
  <1>3. counters \in [Tally -> SUBSET Decision] /\ hand \in [Remover -> SUBSET TRow]
    BY DEF TypeOK
  <1>4. counters' = counters
    BY <1>1, <1>2, <1>3 DEF TakeOut
  <1>5. {counters[t] : t \in {u \in Tally : EntryOf[u] \in {e}}} \ {None} = {}
    BY <1>2 DEF None
  <1>6. hand' = hand
    BY <1>1, <1>3, <1>5 DEF TakeOut
  <1>7. Spots'
    BY <1>1, <1>4, <1>6, Unmoved
  <1>8. cached' = cached /\ keys' \in [Remover -> SUBSET Entry]
    BY <1>1 DEF TypeOK
  <1>9. TypeOK'
    BY <1>1, <1>4, <1>6, <1>8 DEF TypeOK
  <1> QED
    BY <1>6, <1>7, <1>9

LEMMA RecordStep ==
  ASSUME TypeOK, Spots, NEW r \in Remover, Record(r)
  PROVE  TypeOK' /\ Spots' /\ \A q \in Remover : hand[q] = {} => hand'[q] = {}
  <1>1. PICK row \in hand[r] :
          /\ hand' = [hand EXCEPT ![r] = @ \ {row}] /\ Send(row)
          /\ UNCHANGED <<main, answered, cached, counters, keys, senders, writer, table, lost>>
    BY DEF Record
  <1>2. hand \in [Remover -> SUBSET TRow]
    BY DEF TypeOK
  <1>3. row \in TRow /\ row \subseteq Decision
    BY <1>2 DEF TRow
  <1>4. \A d \in row : InHand(d)
    BY DEF InHand
  <1>5. \A d \in row : ~Queued(d) /\ ~Tallied(d) /\ ~Writing(d) /\ ~Settled(d)
    BY <1>3, <1>4 DEF Spots, OnePlace
  <1>6. OneSlot /\ OneRow /\ OneCount
    BY DEF Spots
  <1>7. /\ queue' \in Seq(TRow) /\ Len(queue') <= AUDIT_QUEUE /\ dropped' \subseteq TRow
        /\ OneSlot' /\ OneRow' /\ OneCount'
        /\ \A d \in Decision \ row : (Queued(d)' <=> Queued(d)) /\ (Settled(d)' <=> Settled(d))
        /\ \A d \in row : \/ Queued(d)' /\ ~Settled(d)'
                          \/ ~Queued(d)' /\ Settled(d)'
    BY <1>1, <1>3, <1>5, <1>6, SendStep
  <1>8. hand' \in [Remover -> SUBSET TRow] /\ \A q \in Remover : hand'[q] \subseteq hand[q]
    BY <1>1, <1>2
  <1>9. TypeOK'
    BY <1>1, <1>7, <1>8 DEF TypeOK
  <1>10. \A d \in Decision : InHand(d)' <=> InHand(d) /\ d \notin row
    BY <1>1, <1>2 DEF InHand, Spots, OneHand
  <1>11. OneHand'
    BY <1>8 DEF Spots, OneHand
  <1>12. OwnTally' /\ \A d \in Decision : Tallied(d)' <=> Tallied(d)
    BY <1>1 DEF Spots, OwnTally, Tallied
  <1>13. \A d \in Decision : Writing(d)' <=> Writing(d)
    BY <1>1 DEF Writing
  <1>14. ASSUME NEW d \in Decision PROVE OnePlace(d)'
    <2>1. OnePlace(d) /\ answered' = answered
      BY <1>1 DEF Spots
    <2>2. CASE d \in row
      BY <1>4, <1>5, <1>7, <1>10, <1>12, <1>13, <2>1, <2>2 DEF OnePlace
    <2>3. CASE d \notin row
      BY <1>7, <1>10, <1>12, <1>13, <2>1, <2>3 DEF OnePlace
    <2> QED
      BY <2>2, <2>3
  <1> QED
    BY <1>7, <1>8, <1>9, <1>11, <1>12, <1>14 DEF Spots

-----------------------------------------------------------------------------
(* The writer.                                                             *)

LEMMA ReceiveStep ==
  ASSUME TypeOK, Spots, Receive PROVE TypeOK' /\ Spots'
  <1>1. /\ writer = None /\ queue # <<>> /\ writer' = Head(queue) /\ queue' = Tail(queue)
        /\ UNCHANGED <<main, answered, cached, counters, keys, hand, senders, table, dropped, lost>>
    BY DEF Receive
  <1>2. /\ queue' \in Seq(TRow) /\ Len(queue') = Len(queue) - 1 /\ Head(queue) \in TRow
        /\ \A d \in Decision : Queued(d)' <=> Queued(d) /\ d \notin Head(queue)
        /\ \A d \in Head(queue) : Queued(d)
        /\ OneSlot'
    BY <1>1, QueueTail DEF TypeOK, Spots
  <1>3. Len(queue) \in Nat /\ Len(queue) <= AUDIT_QUEUE
    BY DEF TypeOK
  <1>4. TypeOK'
    <2>1. Len(queue') <= AUDIT_QUEUE
      BY <1>2, <1>3
    <2> QED
      BY <1>1, <1>2, <2>1 DEF TypeOK
  <1>5. OwnTally' /\ OneHand' /\ OneRow' /\ OneCount'
    BY <1>1 DEF Spots, OwnTally, OneHand, OneRow, OneCount, Rows
  <1>6. ASSUME NEW d \in Decision PROVE OnePlace(d)'
    <2>1. OnePlace(d) /\ answered' = answered
      BY <1>1 DEF Spots
    <2>2. ~Writing(d) /\ (Writing(d)' <=> d \in Head(queue))
      BY <1>1 DEF Writing, None
    <2>3. /\ Tallied(d)' <=> Tallied(d)
          /\ InHand(d)' <=> InHand(d)
          /\ Settled(d)' <=> Settled(d)
      BY <1>1 DEF Tallied, InHand, Settled, Rows
    <2> QED
      BY <1>2, <2>1, <2>2, <2>3 DEF OnePlace
  <1> QED
    BY <1>2, <1>4, <1>5, <1>6 DEF Spots

LEMMA InsertStep ==
  ASSUME TypeOK, Spots, Insert \/ InsertFails PROVE TypeOK' /\ Spots'
  <1>1. /\ writer # None /\ writer' = None
        /\ UNCHANGED <<main, answered, cached, counters, keys, hand, queue, senders, lost>>
    BY DEF Insert, InsertFails
  <1>2. writer \in TRow
    BY <1>1 DEF TypeOK
  <1>3. TypeOK'
    BY <1>1, <1>2 DEF TypeOK, Insert, InsertFails
  <1>4. OwnTally' /\ OneHand' /\ OneSlot'
    BY <1>1 DEF Spots, OwnTally, OneHand, OneSlot
  <1>6. Rows' = Rows \cup {writer} /\ dropped' \subseteq dropped \cup {writer}
    BY <1>1 DEF Insert, InsertFails, Rows
  <1>7. \A d \in writer : ~Settled(d)
    BY <1>2 DEF Spots, OnePlace, Writing, TRow
  <1>8. OneRow' /\ writer \notin Rows /\ \A d \in Decision : Settled(d)' <=> Settled(d) \/ d \in writer
    BY <1>2, <1>6, <1>7, OneMoreRow DEF Spots
  <1>9. OneCount'
    BY <1>1, <1>6, <1>8 DEF Spots, OneCount, Rows
  <1>5. ASSUME NEW d \in Decision PROVE OnePlace(d)'
    <2>1. OnePlace(d) /\ answered' = answered
      BY <1>1 DEF Spots
    <2>2. /\ Tallied(d)' <=> Tallied(d)
          /\ InHand(d)' <=> InHand(d)
          /\ Queued(d)' <=> Queued(d)
          /\ ~Writing(d)'
      BY <1>1 DEF Tallied, InHand, Queued, Writing, None
    <2>3. Settled(d)' <=> Settled(d) \/ Writing(d)
      BY <1>8 DEF Writing
    <2> QED
      BY <2>1, <2>2, <2>3 DEF OnePlace
  <1> QED
    BY <1>3, <1>4, <1>5, <1>8, <1>9 DEF Spots

-----------------------------------------------------------------------------
(* main.                                                                   *)

\* Keys, senders and where main is are no place.
LEMMA MoveOnStep ==
  ASSUME TypeOK, Spots,
         \/ \E r \in Remover, K \in SUBSET Entry : Collect(r, K)
         \/ \E t \in Task : TaskEnds(t)
         \/ Shutdown \/ LetGo \/ Restart
  PROVE  TypeOK' /\ Spots'
  <1>1. UNCHANGED <<answered, cached, counters, hand, queue, writer, table, dropped, lost>>
    BY DEF Collect, TaskEnds, Shutdown, LetGo, Restart
  <1>2. Spots'
    BY <1>1, Unmoved
  <1>3. keys' \in [Remover -> SUBSET Entry]
    BY DEF TypeOK, Collect, TaskEnds, Shutdown, LetGo, Restart
  <1>4. senders' \subseteq Task \cup {"main"}
    BY DEF TypeOK, Collect, TaskEnds, Shutdown, LetGo, Restart
  <1>5. main' \in {"serving", "flushing", "draining", "exited"}
    BY DEF TypeOK, Collect, TaskEnds, Shutdown, LetGo, Restart
  <1>6. TypeOK'
    BY <1>1, <1>3, <1>4, <1>5 DEF TypeOK
  <1> QED
    BY <1>2, <1>6

\* What is left of a process.
LEMMA NothingLeft ==
  ASSUME TypeOK, Emptied, main' = "exited", answered' = answered,
         table' \subseteq TRow, dropped' \subseteq TRow, lost' \subseteq TRow
  PROVE  /\ TypeOK' /\ OwnTally' /\ OneHand' /\ OneSlot'
         /\ \A d \in Decision : ~Tallied(d)' /\ ~InHand(d)' /\ ~Queued(d)' /\ ~Writing(d)'
  <1>1. /\ cached' = {} /\ senders' = {} /\ writer' = None /\ queue' = <<>>
        /\ \A t \in Tally : counters'[t] = {}
        /\ \A r \in Remover : keys'[r] = {} /\ hand'[r] = {}
        /\ counters' \in [Tally -> SUBSET Decision]
        /\ keys' \in [Remover -> SUBSET Entry] /\ hand' \in [Remover -> SUBSET TRow]
    BY DEF Emptied
  <1>2. queue' \in Seq(TRow) /\ Len(queue') <= AUDIT_QUEUE /\ DOMAIN queue' = {}
    BY <1>1
  <1>3. TypeOK'
    BY <1>1, <1>2 DEF TypeOK
  <1>4. OwnTally' /\ OneHand' /\ OneSlot'
    BY <1>1, <1>2 DEF OwnTally, OneHand, OneSlot
  <1>5. ASSUME NEW d \in Decision PROVE ~Tallied(d)' /\ ~InHand(d)' /\ ~Queued(d)' /\ ~Writing(d)'
    BY <1>1, <1>2 DEF Tallied, InHand, Queued, Writing, None
  <1> QED
    BY <1>3, <1>4, <1>5

\* The writer ends by itself only when nothing is in memory: what flush_all, or
\* a task on its way out, had taken it has been sent and has arrived.
LEMMA DrainedStep ==
  ASSUME TypeOK, Phases, Spots, Drained PROVE TypeOK' /\ Spots'
  <1>1. /\ main = "draining" /\ senders = {} /\ queue = <<>> /\ writer = None
        /\ main' = "exited" /\ Emptied /\ UNCHANGED <<answered, table, dropped, lost>>
    BY DEF Drained
  <1>2. /\ TypeOK' /\ OwnTally' /\ OneHand' /\ OneSlot'
        /\ \A d \in Decision : ~Tallied(d)' /\ ~InHand(d)' /\ ~Queued(d)' /\ ~Writing(d)'
    BY <1>1, NothingLeft DEF TypeOK
  <1>3. cached = {} /\ \A r \in Remover : hand[r] = {}
    BY <1>1 DEF Phases, Remover
  <1>4. \A t \in Tally : counters[t] = {}
    BY <1>3 DEF TypeOK
  <1>5. ASSUME NEW d \in Decision PROVE ~Tallied(d) /\ ~InHand(d) /\ ~Queued(d) /\ ~Writing(d)
    BY <1>1, <1>3, <1>4 DEF Tallied, InHand, Queued, Writing, None
  <1>6. Rows' = Rows /\ OneRow' /\ OneCount'
    BY <1>1 DEF Spots, Rows, OneRow, OneCount
  <1>7. ASSUME NEW d \in Decision PROVE OnePlace(d)'
    <2>1. OnePlace(d) /\ answered' = answered /\ (Settled(d)' <=> Settled(d))
      BY <1>1, <1>6 DEF Spots, Settled
    <2> QED
      BY <1>2, <1>5, <2>1 DEF OnePlace
  <1> QED
    BY <1>2, <1>6, <1>7 DEF Spots

\* The rows in memory, and those that its tallies would have made.
LEMMA HeldIs ==
  ASSUME NEW x
  PROVE  x \in Held <=> /\ x # {}
                        /\ \/ \E t \in Tally : x = counters[t]
                           \/ \E r \in Remover : x \in hand[r]
                           \/ \E i \in DOMAIN queue : x = queue[i]
                           \/ x = writer
  <1> DEFINE A == {counters[t] : t \in Tally}
             B == UNION {hand[r] : r \in Remover}
             C == {queue[i] : i \in DOMAIN queue}
  <1>1. x \in A <=> \E t \in Tally : x = counters[t]
    OBVIOUS
  <1>2. x \in B <=> \E r \in Remover : x \in hand[r]
    OBVIOUS
  <1>3. x \in C <=> \E i \in DOMAIN queue : x = queue[i]
    OBVIOUS
  <1>4. Held = (A \cup B \cup C \cup {writer}) \ {{}}
    BY Zenon DEF Held, None
  <1> HIDE DEF A, B, C
  <1>5. x \in Held <=> x # {} /\ (x \in A \/ x \in B \/ x \in C \/ x = writer)
    BY <1>4
  <1> QED
    BY <1>1, <1>2, <1>3, <1>5, Zenon

\* A decision is in one of them if it is in memory at all, and then in just one.
LEMMA HeldOnce ==
  ASSUME TypeOK, Spots
  PROVE  /\ Held \subseteq TRow
         /\ \A d \in Decision : (\E x \in Held : d \in x) <=>
              Tallied(d) \/ InHand(d) \/ Queued(d) \/ Writing(d)
         /\ \A x, y \in Held : x \cap y # {} => x = y
  <1>1. /\ counters \in [Tally -> SUBSET Decision] /\ hand \in [Remover -> SUBSET TRow]
        /\ \A i \in DOMAIN queue : queue[i] \in TRow
        /\ writer \in TRow \cup {None}
    BY DEF TypeOK
  <1>2. ASSUME NEW x \in Held PROVE x \in TRow
    <2>1. x # {}
      BY HeldIs
    <2>2. x \subseteq Decision
      BY <1>1, HeldIs DEF TRow, None
    <2> QED
      BY <2>1, <2>2 DEF TRow
  <1>3. ASSUME NEW x \in Held, NEW d \in x
        PROVE  \/ Tallied(d) /\ x = counters[TallyOf[d]]
               \/ InHand(d) /\ \E r \in Remover : x \in hand[r]
               \/ Queued(d) /\ \E i \in DOMAIN queue : x = queue[i]
               \/ Writing(d) /\ x = writer
    <2>1. CASE \E t \in Tally : x = counters[t]
      BY <1>3, <2>1 DEF Spots, OwnTally, Tallied
    <2>2. CASE \E r \in Remover : x \in hand[r]
      BY <1>3, <2>2 DEF InHand
    <2>3. CASE \E i \in DOMAIN queue : x = queue[i]
      BY <1>3, <2>3 DEF Queued
    <2>4. CASE x = writer
      BY <1>3, <2>4 DEF Writing
    <2> QED
      BY <2>1, <2>2, <2>3, <2>4, HeldIs
  <1>4. ASSUME NEW d \in Decision, Tallied(d) \/ InHand(d) \/ Queued(d) \/ Writing(d)
        PROVE  \E x \in Held : d \in x
    <2>1. CASE Tallied(d)
      <3>1. TallyOf[d] \in Tally /\ d \in counters[TallyOf[d]]
        BY <2>1 DEF Tallied
      <3>2. counters[TallyOf[d]] \in Held
        BY <3>1, HeldIs
      <3> QED
        BY <3>1, <3>2
    <2>2. CASE InHand(d)
      <3>1. PICK r \in Remover : \E x \in hand[r] : d \in x
        BY <2>2 DEF InHand
      <3>2. PICK x \in hand[r] : d \in x
        BY <3>1
      <3>3. x \in Held
        BY <3>1, <3>2, HeldIs
      <3> QED
        BY <3>2, <3>3
    <2>3. CASE Queued(d)
      <3>1. PICK i \in DOMAIN queue : d \in queue[i]
        BY <2>3 DEF Queued
      <3>2. queue[i] \in Held
        BY <3>1, HeldIs
      <3> QED
        BY <3>1, <3>2
    <2>4. CASE Writing(d)
      <3>1. writer \in Held /\ d \in writer
        BY <2>4, HeldIs DEF Writing
      <3> QED
        BY <3>1
    <2> QED
      BY <1>4, <2>1, <2>2, <2>3, <2>4
  <1>5. ASSUME NEW x \in Held, NEW y \in Held, NEW d \in x, d \in y PROVE x = y
    <2>1. d \in Decision
      BY <1>2 DEF TRow
    <2>2. OnePlace(d)
      BY <2>1 DEF Spots
    <2>3. CASE Tallied(d)
      <3>1. ~InHand(d) /\ ~Queued(d) /\ ~Writing(d)
        BY <2>2, <2>3 DEF OnePlace
      <3> QED
        BY <1>3, <1>5, <3>1
    <2>4. CASE InHand(d)
      <3>1. ~Tallied(d) /\ ~Queued(d) /\ ~Writing(d)
        BY <2>2, <2>4 DEF OnePlace
      <3>2. (\E r \in Remover : x \in hand[r]) /\ (\E q \in Remover : y \in hand[q])
        BY <1>3, <1>5, <3>1
      <3> QED
        BY <1>5, <3>2 DEF Spots, OneHand
    <2>5. CASE Queued(d)
      <3>1. ~Tallied(d) /\ ~InHand(d) /\ ~Writing(d)
        BY <2>2, <2>5 DEF OnePlace
      <3>2. (\E i \in DOMAIN queue : x = queue[i]) /\ (\E j \in DOMAIN queue : y = queue[j])
        BY <1>3, <1>5, <3>1
      <3> QED
        BY <1>5, <3>2 DEF Spots, OneSlot
    <2>6. CASE Writing(d)
      <3>1. ~Tallied(d) /\ ~InHand(d) /\ ~Queued(d)
        BY <2>2, <2>6 DEF OnePlace
      <3> QED
        BY <1>3, <1>5, <3>1
    <2> QED
      BY <1>3, <2>3, <2>4, <2>5, <2>6
  <1>6. ASSUME NEW d \in Decision, NEW x \in Held, d \in x
        PROVE  Tallied(d) \/ InHand(d) \/ Queued(d) \/ Writing(d)
    BY <1>3, <1>6
  <1> QED
    BY <1>2, <1>4, <1>5, <1>6

\* A process that is killed loses what it had in memory, and only that; what was
\* being inserted may be in the table as well, in the same row.
LEMMA KilledStep ==
  ASSUME TypeOK, Spots, Killed PROVE TypeOK' /\ Spots'
  <1>1. /\ main' = "exited" /\ lost' = lost \cup Held /\ Emptied /\ UNCHANGED <<answered, dropped>>
        /\ table' \in {table, table \cup ({writer} \ {None})}
    BY DEF Killed
  <1>2. /\ Held \subseteq TRow
        /\ \A d \in Decision : (\E x \in Held : d \in x) <=>
             Tallied(d) \/ InHand(d) \/ Queued(d) \/ Writing(d)
        /\ \A x, y \in Held : x \cap y # {} => x = y
    BY HeldOnce
  <1>3. {writer} \ {None} \subseteq Held
    BY HeldIs DEF None
  <1>4. table' \subseteq TRow /\ dropped' \subseteq TRow /\ lost' \subseteq TRow
    BY <1>1, <1>2, <1>3 DEF TypeOK
  <1>5. /\ TypeOK' /\ OwnTally' /\ OneHand' /\ OneSlot'
        /\ \A d \in Decision : ~Tallied(d)' /\ ~InHand(d)' /\ ~Queued(d)' /\ ~Writing(d)'
    BY <1>1, <1>4, NothingLeft
  <1>6. Rows' = Rows \cup Held
    BY <1>1, <1>3 DEF Rows
  <1>7. ASSUME NEW x \in Rows, NEW y \in Held PROVE x \cap y = {}
    <2> SUFFICES ASSUME NEW d \in x, d \in y PROVE FALSE
      OBVIOUS
    <2>1. d \in Decision /\ Settled(d)
      BY <1>2, <1>7 DEF TRow, Settled
    <2>2. Tallied(d) \/ InHand(d) \/ Queued(d) \/ Writing(d)
      BY <1>2, <1>7, <2>1
    <2> QED
      BY <2>1, <2>2 DEF Spots, OnePlace
  <1>8. OneRow'
    BY <1>2, <1>6, <1>7 DEF Spots, OneRow
  <1>9. OneCount'
    <2>1. \A y \in Held : y \notin dropped
      BY <1>2, <1>7 DEF Rows, TRow
    <2> QED
      BY <1>1, <2>1 DEF Spots, OneCount
  <1>10. ASSUME NEW d \in Decision PROVE OnePlace(d)'
    <2>1. OnePlace(d) /\ answered' = answered
      BY <1>1 DEF Spots
    <2>2. Settled(d)' <=> Settled(d) \/ \E x \in Held : d \in x
      BY <1>6 DEF Settled
    <2> QED
      BY <1>2, <1>5, <2>1, <2>2 DEF OnePlace
  <1> QED
    BY <1>5, <1>8, <1>9, <1>10 DEF Spots

-----------------------------------------------------------------------------
(* The order of a shutdown.                                                *)

LEMMA PhasesMain ==
  ASSUME TypeOK, Phases, Shutdown \/ LetGo \/ Drained \/ Killed \/ Restart PROVE Phases'
  <1>1. keys \in [Remover -> SUBSET Entry] /\ hand \in [Remover -> SUBSET TRow]
        /\ main \in {"serving", "flushing", "draining", "exited"} /\ senders \subseteq Task \cup {"main"}
    BY DEF TypeOK
  <1>2. "main" \in Remover /\ "request" \in Remover /\ Task \subseteq Remover
        /\ "main" \notin Task /\ "request" \notin Task
    BY DEF Remover, Task
  <1>3. CASE Shutdown
    <2>1. /\ main = "serving" /\ main' = "flushing" /\ keys["request"] = {} /\ hand["request"] = {}
          /\ keys' = [keys EXCEPT !["main"] = cached]
          /\ UNCHANGED <<cached, hand, queue, senders, writer>>
      BY <1>3 DEF Shutdown
    <2>2. ASSUME NEW t \in Task \ senders' PROVE keys'[t] = {} /\ hand'[t] = {}
      BY <1>1, <1>2, <2>1 DEF Phases
    <2> QED
      BY <1>1, <1>2, <2>1, <2>2 DEF Phases
  <1>4. CASE LetGo
    <2>1. /\ main = "flushing" /\ main' = "draining" /\ keys["main"] = {} /\ hand["main"] = {}
          /\ senders' = senders \ {"main"}
          /\ UNCHANGED <<cached, keys, hand, queue, writer>>
      BY <1>4 DEF LetGo
    <2> QED
      BY <1>2, <2>1 DEF Phases
  <1>5. CASE Drained \/ Killed
    <2>1. main' = "exited" /\ Emptied
      BY <1>5 DEF Drained, Killed
    <2>2. /\ cached' = {} /\ senders' = {} /\ writer' = None /\ queue' = <<>>
          /\ \A r \in Remover : keys'[r] = {} /\ hand'[r] = {}
      BY <2>1 DEF Emptied
    <2> QED
      BY <1>2, <2>1, <2>2 DEF Phases
  <1>6. CASE Restart
    BY <1>2, <1>6 DEF Phases, Restart
  <1> QED
    BY <1>3, <1>4, <1>5, <1>6

LEMMA PhasesServe ==
  ASSUME TypeOK, Phases,
         \/ \E d \in Decision : Answer(d)
         \/ \E e \in Entry : Fill(e)
         \/ \E r \in Remover, K \in SUBSET Entry : Collect(r, K)
  PROVE  Phases'
  <1>1. keys \in [Remover -> SUBSET Entry] /\ hand \in [Remover -> SUBSET TRow]
    BY DEF TypeOK
  <1>2. main = "serving" /\ main' = "serving" /\ senders' = senders
    BY DEF Answer, Fill, Collect
  <1>3. keys'["main"] = keys["main"] /\ hand'["main"] = hand["main"]
    <2>1. CASE \E d \in Decision : Answer(d)
      BY <2>1 DEF Answer
    <2>2. CASE \E e \in Entry : Fill(e)
      <3>1. PICK e \in Entry : Fill(e)
        BY <2>2
      <3>2. PICK out \in SUBSET cached : TakeOut("request", out) /\ keys' = keys
        BY <3>1 DEF Fill
      <3> QED
        BY <1>1, <3>2 DEF TakeOut, Remover
    <2>3. CASE \E r \in Remover, K \in SUBSET Entry : Collect(r, K)
      <3>1. PICK r \in Remover, K \in SUBSET Entry : Collect(r, K)
        BY <2>3
      <3> QED
        BY <1>1, <3>1 DEF Collect, Remover
    <2> QED
      BY <2>1, <2>2, <2>3
  <1> QED
    BY <1>2, <1>3 DEF Phases

\* A key fewer, a row fewer, a sender fewer: nothing that was seen to returns.
LEMMA PhasesLess ==
  ASSUME TypeOK, Phases, main' = main,
         \A r \in Remover : keys'[r] \subseteq keys[r],
         main # "serving" => cached' \subseteq keys'["main"],
         \A r \in Remover : hand[r] = {} /\ keys[r] = {} => hand'[r] = {},
         senders' \subseteq senders, main = "serving" => senders' = senders,
         \A t \in senders \ senders' : keys[t] = {} /\ hand[t] = {},
         main = "exited" => queue' = <<>> /\ writer' = None
  PROVE  Phases'
  <1>1. "main" \in Remover /\ "request" \in Remover /\ Task \subseteq Remover
    BY DEF Remover
  <1>2. \A r \in Remover : keys[r] = {} /\ hand[r] = {} => keys'[r] = {} /\ hand'[r] = {}
    OBVIOUS
  <1>3. \A t \in Task \ senders' : main # "serving" => keys[t] = {} /\ hand[t] = {}
    BY DEF Phases
  <1> QED
    BY <1>1, <1>2, <1>3 DEF Phases

LEMMA PhasesStep ==
  ASSUME IInv, [Next]_vars PROVE Phases'
  <1> USE DEF IInv
  <1>1. keys \in [Remover -> SUBSET Entry] /\ hand \in [Remover -> SUBSET TRow]
    BY DEF TypeOK
  <1>2. CASE \E d \in Decision : Answer(d)
    BY <1>2, PhasesServe
  <1>3. CASE \E e \in Entry : Fill(e)
    BY <1>3, PhasesServe
  <1>4. ASSUME NEW r \in Remover, Record(r) PROVE Phases'
    <2>1. \A q \in Remover : hand[q] = {} => hand'[q] = {}
      BY <1>4, RecordStep
    <2>2. /\ hand[r] # {}
          /\ UNCHANGED <<main, cached, keys, senders, writer>>
      BY <1>4 DEF Record
    <2>3. \A q \in Remover : keys'[q] \subseteq keys[q]
      BY <2>2
    <2>4. main # "serving" => cached' \subseteq keys'["main"]
      BY <2>2 DEF Phases
    <2>5. main # "exited"
      BY <2>2 DEF Phases, Remover
    <2> QED
      BY <2>1, <2>2, <2>3, <2>4, <2>5, PhasesLess
  <1>5. ASSUME NEW r \in Remover, NEW e \in Entry, Evict(r, e) PROVE Phases'
    <2>1. /\ e \in keys[r] /\ cached' = cached \ {e} /\ keys' = [keys EXCEPT ![r] = @ \ {e}]
          /\ UNCHANGED <<main, queue, senders, writer>>
      BY <1>5 DEF Evict
    <2>2. \A q \in Remover \ {r} : hand'[q] = hand[q]
      BY <1>5, EvictStep, EvictNothing
    <2>3. \A q \in Remover : hand[q] = {} /\ keys[q] = {} => hand'[q] = {}
      BY <2>1, <2>2
    <2>4. \A q \in Remover : keys'[q] \subseteq keys[q] /\ keys[q] \ {e} \subseteq keys'[q]
      BY <1>1, <2>1
    <2>5. main # "serving" => cached' \subseteq keys'["main"]
      BY <2>1, <2>4 DEF Phases, Remover
    <2>6. main # "exited"
      BY <2>1 DEF Phases, Remover
    <2> QED
      BY <2>1, <2>3, <2>4, <2>5, <2>6, PhasesLess
  <1>6. ASSUME NEW r \in Remover, NEW K \in SUBSET Entry, Collect(r, K) PROVE Phases'
    BY <1>6, PhasesServe
  <1>7. CASE Receive \/ Insert \/ InsertFails
    <2>1. UNCHANGED <<main, cached, keys, hand, senders>>
      BY <1>7 DEF Receive, Insert, InsertFails
    <2>2. queue # <<>> \/ writer # None
      BY <1>7 DEF Receive, Insert, InsertFails
    <2>3. main # "exited"
      BY <2>2 DEF Phases
    <2> QED
      BY <2>1, <2>3 DEF Phases
  <1>8. CASE Shutdown \/ LetGo \/ Drained \/ Killed \/ Restart
    BY <1>8, PhasesMain
  <1>9. ASSUME NEW t \in Task, TaskEnds(t) PROVE Phases'
    <2>1. /\ keys[t] = {} /\ hand[t] = {} /\ senders' = senders \ {t} /\ main # "serving"
          /\ UNCHANGED <<main, cached, keys, hand, queue, writer>>
      BY <1>9 DEF TaskEnds
    <2> QED
      BY <2>1 DEF Phases
  <1>10. CASE UNCHANGED vars
    BY <1>10 DEF Phases, vars, memory
  <1> QED
    BY <1>2, <1>3, <1>4, <1>5, <1>6, <1>7, <1>8, <1>9, <1>10 DEF Next

LEMMA TrailStep ==
  ASSUME IInv, [Next]_vars PROVE IInv'
  <1> USE DEF IInv
  <1>1. Phases'
    BY PhasesStep
  <1>2. ASSUME NEW d \in Decision, Answer(d) PROVE TypeOK' /\ Spots'
    BY <1>2, AnswerStep
  <1>3. ASSUME NEW e \in Entry, Fill(e) PROVE TypeOK' /\ Spots'
    BY <1>3, FillStep
  <1>4. ASSUME NEW r \in Remover, Record(r) PROVE TypeOK' /\ Spots'
    BY <1>4, RecordStep
  <1>5. ASSUME NEW r \in Remover, NEW e \in Entry, Evict(r, e) PROVE TypeOK' /\ Spots'
    BY <1>5, EvictStep, EvictNothing
  <1>6. ASSUME NEW r \in Remover, NEW K \in SUBSET Entry, Collect(r, K) PROVE TypeOK' /\ Spots'
    BY <1>6, MoveOnStep
  <1>7. CASE Receive
    BY <1>1, <1>7, ReceiveStep
  <1>8. CASE Insert \/ InsertFails
    BY <1>1, <1>8, InsertStep
  <1>9. CASE Shutdown \/ LetGo \/ Restart
    BY <1>1, <1>9, MoveOnStep
  <1>10. CASE Drained
    BY <1>1, <1>10, DrainedStep
  <1>11. CASE Killed
    BY <1>1, <1>11, KilledStep
  <1>12. ASSUME NEW t \in Task, TaskEnds(t) PROVE TypeOK' /\ Spots'
    BY <1>12, MoveOnStep
  <1>13. CASE UNCHANGED vars
    <2>1. UNCHANGED <<main, answered, cached, counters, keys, hand, queue, senders, writer, table, dropped, lost>>
      BY <1>13 DEF vars, memory
    <2>2. TypeOK'
      BY <2>1 DEF TypeOK
    <2> QED
      BY <1>1, <2>1, <2>2, Unmoved
  <1> QED
    BY <1>1, <1>2, <1>3, <1>4, <1>5, <1>6, <1>7, <1>8, <1>9, <1>10, <1>11, <1>12, <1>13 DEF Next

\* Every state of AuditTrail satisfies IInv.
THEOREM TrailInvariance == Spec => []IInv
  BY InitTrail, TrailStep, PTL DEF Spec

\* audit.rs's channel never holds more rows than AUDIT_QUEUE, and an entry that
\* cache.rs has removed keeps no counters.
THEOREM TrailTypeCorrect == Spec => []TypeOK
  <1>1. IInv => TypeOK
    BY DEF IInv
  <1> QED
    BY <1>1, TrailInvariance, PTL

-----------------------------------------------------------------------------
(* The counting.                                                           *)

LEMMA NoneOrOne ==
  ASSUME NEW S, \A x, y \in S : x = y
  PROVE  Cardinality(S) = IF S = {} THEN 0 ELSE 1
  <1>1. CASE S = {}
    BY <1>1, FS_EmptySet
  <1>2. CASE S # {}
    <2>1. PICK x : x \in S
      BY <1>2
    <2>2. S = {x}
      BY <2>1
    <2>3. Cardinality({x}) = 1
      BY FS_Singleton
    <2> QED
      BY <1>2, <2>2, <2>3
  <1> QED
    BY <1>1, <1>2

LEMMA PlacesOf ==
  ASSUME Spots, NEW d \in Decision
  PROVE  Places(d) = (IF Tallied(d) THEN 1 ELSE 0) + (IF InHand(d) THEN 1 ELSE 0) + (IF Queued(d) THEN 1 ELSE 0)
                     + (IF Writing(d) THEN 1 ELSE 0) + (IF Settled(d) THEN 1 ELSE 0)
  <1> DEFINE A == {t \in Tally : d \in counters[t]}
             B == {r \in Remover : d \in UNION hand[r]}
             C == {i \in DOMAIN queue : d \in queue[i]}
             D == {row \in table \cup dropped \cup lost : d \in row}
  <1>1. Cardinality(A) = IF Tallied(d) THEN 1 ELSE 0
    <2>1. \A t \in A : t = TallyOf[d]
      BY DEF Spots, OwnTally
    <2>2. A # {} <=> Tallied(d)
      BY <2>1 DEF Tallied
    <2> QED
      BY <2>1, <2>2, NoneOrOne
  <1>2. Cardinality(B) = IF InHand(d) THEN 1 ELSE 0
    <2>1. \A r, q \in B : r = q
      BY DEF Spots, OneHand
    <2>2. B # {} <=> InHand(d)
      BY DEF InHand
    <2> QED
      BY <2>1, <2>2, NoneOrOne
  <1>3. Cardinality(C) = IF Queued(d) THEN 1 ELSE 0
    <2>1. \A i, j \in C : i = j
      BY DEF Spots, OneSlot
    <2>2. C # {} <=> Queued(d)
      BY DEF Queued
    <2> QED
      BY <2>1, <2>2, NoneOrOne
  <1>4. Cardinality(D) = IF Settled(d) THEN 1 ELSE 0
    <2>1. \A x, y \in D : x = y
      BY DEF Spots, OneRow, Rows
    <2>2. D # {} <=> Settled(d)
      BY DEF Settled, Rows
    <2> QED
      BY <2>1, <2>2, NoneOrOne
  <1>5. Places(d) = Cardinality(A) + Cardinality(B) + Cardinality(C) + (IF d \in writer THEN 1 ELSE 0)
                    + Cardinality(D)
    BY DEF Places
  <1>6. Writing(d) <=> d \in writer
    BY DEF Writing
  <1> HIDE DEF A, B, C, D
  <1> QED
    BY <1>1, <1>2, <1>3, <1>4, <1>5, <1>6

\* Whatever the requests, the sweeper and drop_sub take out of the cache, and
\* however the process ends, a decision that decide has answered is in one place
\* in memory or in one row that has left it, and no row is counted both as
\* dropped and as lost: at most the insert whose answer never came is in the
\* table too (store.rs write_audit, main.rs).
THEOREM AlwaysPlacedOnce == Spec => []PlacedOnce
  <1>1. ASSUME IInv PROVE PlacedOnce
    <2> SUFFICES ASSUME NEW d \in Decision PROVE Places(d) = IF d \in answered THEN 1 ELSE 0
      BY <1>1 DEF PlacedOnce, IInv, Spots, OneCount
    <2>1. OnePlace(d) /\ Spots
      BY <1>1 DEF IInv, Spots
    <2>2. Places(d) = (IF Tallied(d) THEN 1 ELSE 0) + (IF InHand(d) THEN 1 ELSE 0) + (IF Queued(d) THEN 1 ELSE 0)
                      + (IF Writing(d) THEN 1 ELSE 0) + (IF Settled(d) THEN 1 ELSE 0)
      BY <2>1, PlacesOf
    <2> QED
      BY <2>1, <2>2 DEF OnePlace
  <1> QED
    BY <1>1, TrailInvariance, PTL

-----------------------------------------------------------------------------
(* AuditTrail implements AuditLedger.                                      *)

Up == main # "exited"

\* What the ledger calls pending is what is in memory.
LEMMA PendingIs ==
  ASSUME IInv
  PROVE  /\ Ledger!Pending \subseteq Decision
         /\ \A d \in Decision : d \in Ledger!Pending <=> Tallied(d) \/ InHand(d) \/ Queued(d) \/ Writing(d)
  <1>1. Ledger!Pending = answered \ ((UNION table) \cup (UNION dropped) \cup (UNION lost))
    BY DEF Ledger!Pending
  <1>2. answered \subseteq Decision
    BY DEF IInv, TypeOK
  <1>3. ASSUME NEW d \in Decision
        PROVE  d \in Ledger!Pending <=> Tallied(d) \/ InHand(d) \/ Queued(d) \/ Writing(d)
    <2>1. d \in Ledger!Pending <=> d \in answered /\ ~Settled(d)
      BY <1>1 DEF Settled, Rows
    <2>2. OnePlace(d)
      BY DEF IInv, Spots
    <2> QED
      BY <2>1, <2>2, Zenon DEF OnePlace
  <1> QED
    BY <1>1, <1>2, <1>3

LEMMA LedgerAnswer ==
  ASSUME IInv, NEW d \in Decision, Answer(d) PROVE Ledger!Answer(d)
  <1>1. /\ main = "serving" /\ d \notin answered /\ answered' = answered \cup {d}
        /\ UNCHANGED <<main, table, lost>>
    BY DEF Answer
  <1>2. dropped' = dropped \/ dropped' = dropped \cup {{d}}
    BY DEF Answer, Send
  <1>3. UNION dropped' \in {UNION dropped, (UNION dropped) \cup {d}}
    <2>1. UNION (dropped \cup {{d}}) = (UNION dropped) \cup {d}
      OBVIOUS
    <2> QED
      BY <1>2, <2>1
  <1>4. Up = TRUE /\ Up' = Up
    BY <1>1 DEF Up
  <1>5. UNION table' = UNION table /\ UNION lost' = UNION lost
    BY <1>1
  <1> QED
    BY <1>1, <1>3, <1>4, <1>5 DEF Ledger!Answer, Up

\* A row on its way is pending, and it is settled whole.
LEMMA LedgerRow ==
  ASSUME IInv, NEW row \in TRow, row \subseteq Ledger!Pending, UNCHANGED <<main, answered, lost>>
  PROVE  /\ dropped' = dropped /\ table' = table \cup {row} => Ledger!Write(row)
         /\ table' \in {table, table \cup {row}} /\ dropped' = dropped \cup {row} => Ledger!Drop(row)
  <1>1. row # {}
    BY DEF TRow
  <1>2. Up' = Up /\ UNION lost' = UNION lost
    BY DEF Up
  <1>3. ASSUME dropped' = dropped, table' = table \cup {row} PROVE Ledger!Write(row)
    <2>1. UNION table' = (UNION table) \cup row /\ UNION dropped' = UNION dropped
      BY <1>3
    <2> QED
      BY <1>1, <1>2, <2>1 DEF Ledger!Write, Up
  <1>4. ASSUME table' \in {table, table \cup {row}}, dropped' = dropped \cup {row} PROVE Ledger!Drop(row)
    <2>1. UNION dropped' = (UNION dropped) \cup row
      BY <1>4
    <2>2. UNION table' \in {UNION table, (UNION table) \cup row}
      <3>1. UNION (table \cup {row}) = (UNION table) \cup row
        OBVIOUS
      <3> QED
        BY <1>4, <3>1
    <2> QED
      BY <1>1, <1>2, <2>1, <2>2 DEF Ledger!Drop, Up
  <1> QED
    BY <1>3, <1>4

LEMMA LedgerStop ==
  ASSUME IInv, Drained PROVE Ledger!Stop
  <1>1. /\ main = "draining" /\ senders = {} /\ queue = <<>> /\ writer = None
        /\ main' = "exited" /\ UNCHANGED <<answered, table, dropped, lost>>
    BY DEF Drained
  <1>2. cached = {} /\ \A r \in Remover : hand[r] = {}
    BY <1>1 DEF IInv, Phases, Remover
  <1>3. \A t \in Tally : counters[t] = {}
    BY <1>2 DEF IInv, TypeOK
  <1>4. ASSUME NEW d \in Decision PROVE ~Tallied(d) /\ ~InHand(d) /\ ~Queued(d) /\ ~Writing(d)
    BY <1>1, <1>2, <1>3 DEF Tallied, InHand, Queued, Writing, None
  <1>5. Ledger!Pending = {}
    BY <1>4, PendingIs
  <1>6. Up = TRUE /\ Up' = FALSE
    BY <1>1 DEF Up
  <1> QED
    BY <1>1, <1>5, <1>6 DEF Ledger!Stop, Up

LEMMA LedgerCrash ==
  ASSUME IInv, Killed PROVE Ledger!Crash
  <1>1. /\ main # "exited" /\ main' = "exited" /\ lost' = lost \cup Held /\ UNCHANGED <<answered, dropped>>
        /\ table' \in {table, table \cup ({writer} \ {None})}
    BY DEF Killed
  <1>2. /\ Held \subseteq TRow
        /\ \A d \in Decision : (\E x \in Held : d \in x) <=>
             Tallied(d) \/ InHand(d) \/ Queued(d) \/ Writing(d)
    BY HeldOnce DEF IInv
  <1>3. UNION Held = Ledger!Pending
    <2>1. \A d \in UNION Held : d \in Decision
      BY <1>2 DEF TRow
    <2>2. \A d \in Decision : d \in UNION Held <=> d \in Ledger!Pending
      BY <1>2, PendingIs
    <2> QED
      BY <2>1, <2>2, PendingIs
  <1>4. UNION lost' = (UNION lost) \cup Ledger!Pending
    <2>1. UNION (lost \cup Held) = (UNION lost) \cup (UNION Held)
      OBVIOUS
    <2> QED
      BY <1>1, <1>3, <2>1
  <1>5. \E row \in SUBSET Ledger!Pending : UNION table' = (UNION table) \cup row
    <2>1. CASE table' = table
      <3>1. UNION table' = (UNION table) \cup {}
        BY <2>1
      <3> QED
        BY <3>1
    <2>2. CASE table' = table \cup ({writer} \ {None})
      <3>1. UNION table' = (UNION table) \cup writer
        BY <2>2 DEF None
      <3>2. \A d \in writer : d \in Decision /\ Writing(d)
        BY DEF IInv, TypeOK, TRow, None, Writing
      <3>3. writer \in SUBSET Ledger!Pending
        BY <3>2, PendingIs
      <3> QED
        BY <3>1, <3>3
    <2> QED
      BY <1>1, <2>1, <2>2
  <1>6. Up = TRUE /\ Up' = FALSE
    BY <1>1 DEF Up
  <1>7. UNION dropped' = UNION dropped
    BY <1>1
  <1> QED
    BY <1>1, <1>4, <1>5, <1>6, <1>7 DEF Ledger!Crash, Up

\* The ledger does not see what is done in memory.
LEMMA LedgerRest ==
  ASSUME \/ \E e \in Entry : Fill(e)
         \/ \E r \in Remover, e \in Entry : Evict(r, e)
         \/ \E r \in Remover, K \in SUBSET Entry : Collect(r, K)
         \/ \E t \in Task : TaskEnds(t)
         \/ Receive \/ Shutdown \/ LetGo \/ UNCHANGED vars
  PROVE  UNCHANGED <<Up, answered, UNION table, UNION dropped, UNION lost>>
  <1>1. UNCHANGED <<answered, table, dropped, lost>>
    BY DEF Fill, Evict, Collect, TaskEnds, Receive, Shutdown, LetGo, vars
  <1>2. main' = main \/ (main # "exited" /\ main' # "exited")
    BY DEF Fill, Evict, Collect, TaskEnds, Receive, Shutdown, LetGo, vars
  <1>3. Up' = Up
    BY <1>2 DEF Up
  <1> QED
    BY <1>1, <1>3

LEMMA LedgerStep ==
  ASSUME IInv, [Next]_vars PROVE [Ledger!Next]_<<Up, answered, UNION table, UNION dropped, UNION lost>>
  <1>1. ASSUME NEW d \in Decision, Answer(d) PROVE Ledger!Next
    BY <1>1, LedgerAnswer DEF Ledger!Next
  <1>2. ASSUME NEW row \in TRow, Ledger!Write(row) \/ Ledger!Drop(row) PROVE Ledger!Next
    BY <1>2 DEF Ledger!Next, TRow
  <1>3. ASSUME NEW r \in Remover, Record(r)
        PROVE  Ledger!Next \/ UNCHANGED <<Up, answered, UNION table, UNION dropped, UNION lost>>
    <2>1. PICK row \in hand[r] : /\ Send(row)
                                 /\ UNCHANGED <<main, answered, table, lost>>
      BY <1>3 DEF Record
    <2>2. row \in TRow
      BY <2>1 DEF IInv, TypeOK
    <2>3. \A d \in row : d \in Decision /\ InHand(d)
      BY <2>1, <2>2 DEF InHand, TRow
    <2>4. row \subseteq Ledger!Pending
      BY <2>3, PendingIs
    <2>5. CASE dropped' = dropped
      <3>1. Up' = Up
        BY <2>1 DEF Up
      <3> QED
        BY <2>1, <2>5, <3>1
    <2>6. CASE dropped' = dropped \cup {row}
      BY <1>2, <2>1, <2>2, <2>4, <2>6, LedgerRow
    <2> QED
      BY <2>1, <2>5, <2>6 DEF Send
  <1>4. CASE Insert \/ InsertFails
    <2>1. /\ writer # None /\ UNCHANGED <<main, answered, lost>>
          /\ \/ table' = table \cup {writer} /\ dropped' = dropped
             \/ dropped' = dropped \cup {writer} /\ table' \in {table, table \cup {writer}}
      BY <1>4 DEF Insert, InsertFails
    <2>2. writer \in TRow
      BY <2>1 DEF IInv, TypeOK
    <2>3. \A d \in writer : d \in Decision /\ Writing(d)
      BY <2>2 DEF Writing, TRow
    <2>4. writer \subseteq Ledger!Pending
      BY <2>3, PendingIs
    <2>5. Ledger!Write(writer) \/ Ledger!Drop(writer)
      BY <2>1, <2>2, <2>4, LedgerRow
    <2> QED
      BY <1>2, <2>2, <2>5
  <1>5. CASE Drained
    BY <1>5, LedgerStop DEF Ledger!Next
  <1>6. CASE Killed
    BY <1>6, LedgerCrash DEF Ledger!Next
  <1>7. CASE Restart
    <2>1. /\ main = "exited" /\ main' = "serving" /\ UNCHANGED <<answered, table, dropped, lost>>
      BY <1>7 DEF Restart
    <2>2. Up = FALSE /\ Up' = TRUE
      BY <2>1 DEF Up
    <2>3. Ledger!Start
      BY <2>1, <2>2 DEF Ledger!Start, Up
    <2> QED
      BY <2>3 DEF Ledger!Next
  <1>8. CASE \/ \E e \in Entry : Fill(e)
             \/ \E r \in Remover, e \in Entry : Evict(r, e)
             \/ \E r \in Remover, K \in SUBSET Entry : Collect(r, K)
             \/ \E t \in Task : TaskEnds(t)
             \/ Receive \/ Shutdown \/ LetGo \/ UNCHANGED vars
    BY <1>8, LedgerRest
  <1> QED
    BY <1>1, <1>3, <1>4, <1>5, <1>6, <1>7, <1>8 DEF Next

\* From the answer of decide.rs to audit_event: a row settles its decisions
\* together and for good, main.rs ends by itself with nothing pending, and a
\* process that is killed loses what it had in memory and nothing else.  What is
\* counted as dropped, or was being inserted when the process was killed, may be
\* in the table all the same.
THEOREM ImplementsLedger == Spec => Accounted
  <1>1. Init => Ledger!Init
    <2> SUFFICES ASSUME Init PROVE Ledger!Init
      OBVIOUS
    <2>1. main = "serving" /\ answered = {} /\ table = {} /\ dropped = {} /\ lost = {}
      BY DEF Init
    <2>2. Up = TRUE
      BY <2>1 DEF Up
    <2>3. UNION table = {} /\ UNION dropped = {} /\ UNION lost = {}
      BY <2>1
    <2> QED
      BY <2>1, <2>2, <2>3 DEF Ledger!Init, Up
  <1>2. ASSUME IInv, [Next]_vars PROVE [Ledger!Next]_<<Up, answered, UNION table, UNION dropped, UNION lost>>
    BY <1>2, LedgerStep
  <1> QED
    BY <1>1, <1>2, TrailInvariance, PTL DEF Spec, Accounted, Ledger!Spec, Up
=============================================================================
