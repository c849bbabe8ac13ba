--------------------------- MODULE PipelineProofs ---------------------------
(***************************************************************************)
(* Proofs about the pipeline, for any number of sessions, scanners,        *)
(* finishers, replicas, failures and crashes, that race as they do.        *)
(*                                                                         *)
(* UsageServiceProofs needs of a goroutine's copy of a row no more than    *)
(* that the outbox backs it, and that is enough for charges to be lost in  *)
(* a collision of numbers only (OnlyCollisionsLoseCharges).  A transaction *)
(* that overwrites the row that it has read does more: its chunk begins    *)
(* where the last one ended and has the next number.  Until an outdated    *)
(* goroutine writes to a session, its chunks in the outbox therefore are   *)
(* the entries of an account, in order.  Nothing has to be assumed of who  *)
(* works when: what a goroutine has in hand is only ever changed by itself *)
(* and by the crash of its replica.                                        *)
(***************************************************************************)
EXTENDS Pipeline, UsageServiceProofs, CountingLemmas

(* The clocks of the replicas that finish sessions are not behind. *)
FinishersOnTime == Drift = 0 \/ Finishers \cap Slow = {}

(* The chunk was computed by p from its copy of the row of the session. *)
FromCopy(p, c) ==
  /\ c.from = held[p][c.session].lastBilledAt
  /\ c.sequence = held[p][c.session].billingSequence + 1
  /\ c.to <= now
  /\ p \in Scanners \/ FinishersOnTime => c.from <= c.to

(* What goroutine p has in hand. *)
InHand(p) ==
  /\ p \in Scanners /\ Busy(p) => \A s \in todo[p] :
       held[p][s].endAt = Null /\ held[p][s].lastBilledAt <= Clock(p)
  /\ pc[p] = "stamp" => held[p][txn[p].session].lastBilledAt <= now
  /\ pc[p] = "commit" => FromCopy(p, txn[p])

Chunks(s) == { i \in DOMAIN outbox : outbox[i].session = s }

RowSound(s) ==
  /\ sessions[s].status = "NONE" => sessions[s] = Absent /\ Chunks(s) = {}
  /\ sessions[s].status = "SESSION_ACTIVE" => sessions[s].endAt = Null
  /\ Present(sessions[s]) => sessions[s].lastBilledAt <= now

(* The chunks of session s are the entries of its account. *)
AccountSound(s) ==
  /\ sessions[s].status = "SESSION_FINISHED" =>
       sessions[s].endAt = sessions[s].lastBilledAt
  /\ Cardinality(Chunks(s)) = sessions[s].billingSequence
  /\ \A i \in Chunks(s) :
       /\ outbox[i].sequence <= sessions[s].billingSequence
       /\ FinishersOnTime \/ sessions[s].status = "SESSION_ACTIVE" =>
            outbox[i].to <= sessions[s].lastBilledAt
  /\ \A i, j \in Chunks(s) : i < j =>
       /\ outbox[i].sequence < outbox[j].sequence
       /\ outbox[i].to <= outbox[j].from

(* The inductive invariant of usage-service. *)
WorkInv ==
  /\ IndInv
  /\ \A p \in Goroutines : InHand(p)
  /\ \A s \in Sessions : RowSound(s)
  /\ \A s \in Unraced : AccountSound(s)

(* And that of the services behind it. *)
Delivered ==
  /\ sent \subseteq { i \in DOMAIN outbox : validateBillingChunk(i) }
  /\ submitted \subseteq sent
  /\ DOMAIN charged \subseteq submitted
  /\ \A i \in DOMAIN charged : charged[i] = 1
  /\ \A i \in submitted : SeenByMetronome(i)

PipelineInv == WorkInv /\ Delivered
-----------------------------------------------------------------------------
(* The goroutines. *)

LEMMA IndFacts ==
  ASSUME IndInv
  PROVE  /\ TypeOK /\ ChunkReady /\ StampReady
         /\ now \in Nat /\ outbox \in Seq(BillingChunk)
         /\ \A s \in Sessions : sessions[s] \in UsageSession
         /\ \A p \in Goroutines, s \in Sessions : held[p][s] \in UsageSession
         /\ \A p \in Goroutines : todo[p] \subseteq Sessions
BY DEF IndInv, Safe, TxnBacked, BatchHeld, ChunkReady, StampReady, TypeOK

(* No clock is ahead, and no finisher's clock behind if they are on time. *)
LEMMA ClockBounds ==
  ASSUME now \in Nat, NEW p
  PROVE  /\ Clock(p) \in Int /\ Clock(p) <= now
         /\ p \in Finishers /\ FinishersOnTime => Clock(p) = now
BY ClockAssumption DEF Clock, FinishersOnTime

LEMMA InHandKept ==
  ASSUME IndInv, \A s \in Sessions : RowSound(s),
         NEW p \in Goroutines, Moves(p), InHand(p)
  PROVE  InHand(p)'
<1>1. /\ TypeOK /\ ChunkReady /\ StampReady /\ todo[p] \subseteq Sessions
      /\ now \in Nat /\ \A s \in Sessions : held[p][s] \in UsageSession
  BY IndFacts
<1>2. p \in Finishers => p \notin Scanners
  BY GoroutinesAssumption
<1>3. now' = now /\ Clock(p)' = Clock(p)
  BY <1>1, MovesLocal DEF Clock
<1>4. CASE Fetched(p)
  <2>1. p \in Scanners => \A s \in todo'[p] :
          held'[p][s].endAt = Null /\ held'[p][s].lastBilledAt <= Clock(p)
    BY <1>4 DEF Fetched, Active, RowSound
  <2> QED BY <1>3, <1>4, <2>1 DEF Fetched, InHand
<1>5. CASE Begun(p)
  <2>1. PICK s \in todo[p] :
       \/ /\ p \in Scanners /\ pc'[p] = "commit"
          /\ held'[p] = held[p]
          /\ txn'[p] = NewChunk(s, held[p][s], PeriodEnd(p, held[p][s]))
       \/ /\ p \in Finishers /\ pc'[p] = "stamp"
          /\ txn'[p].session = s /\ held'[p][s] = sessions[s]
    BY <1>5 DEF Begun
  <2>2. CASE p \in Scanners
    <3>1. \A r \in todo[p] :
            held[p][r].endAt = Null /\ held[p][r].lastBilledAt <= Clock(p)
      BY <1>5, <2>2 DEF Begun, InHand, Busy
    <3>2. /\ txn'[p] = NewChunk(s, held[p][s], Clock(p))
          /\ pc'[p] = "commit" /\ held'[p] = held[p]
      BY <1>2, <2>1, <2>2, <3>1 DEF PeriodEnd
    <3>3. FromCopy(p, txn[p])'
      BY <1>1, <1>3, <2>2, <3>1, <3>2, ClockBounds DEF FromCopy, NewChunk
    <3> QED BY <1>2, <1>3, <1>5, <3>1, <3>2, <3>3 DEF Begun, InHand
  <2>3. CASE p \notin Scanners
    <3>1. /\ pc'[p] = "stamp" /\ txn'[p].session = s /\ held'[p][s] = sessions[s]
          /\ p \in Finishers
      BY <2>1, <2>3
    <3>2. sessions[s].lastBilledAt <= now
      BY <1>1, <3>1 DEF IndInv, Safe, BatchHeld, RowSound
    <3> QED BY <1>3, <2>3, <3>1, <3>2 DEF InHand
  <2> QED BY <2>2, <2>3
<1>6. CASE Stamped(p)
  <2> DEFINE s == txn[p].session
  <2>1. /\ s \in Sessions /\ held[p][s].lastBilledAt <= now
        /\ p \in Finishers /\ held'[p] = held[p] /\ pc'[p] = "commit"
        /\ txn'[p] = NewChunk(s, held[p][s], Clock(p))
    BY <1>1, <1>6 DEF Stamped, InHand, StampReady
  <2>2. held[p][s].lastBilledAt \in Int
    BY <1>1, <2>1 DEF UsageSession
  <2> HIDE DEF s
  <2>3. FromCopy(p, txn[p])'
    BY <1>1, <1>2, <1>3, <2>1, <2>2, ClockBounds DEF FromCopy, NewChunk
  <2> QED BY <1>2, <2>1, <2>3 DEF InHand
<1>7. CASE Advanced(p)
  BY <1>1, <1>3, <1>7 DEF Advanced, InHand
<1>8. CASE pc'[p] \in {"idle", "fetch"}
  BY <1>8 DEF InHand, Busy
<1> QED BY <1>1, <1>4, <1>5, <1>6, <1>7, <1>8, BatchStep

(* A goroutine that does not move keeps what it has in hand. *)
LEMMA InHandStays ==
  ASSUME IndInv, NEW q \in Goroutines, InHand(q),
         pc'[q] = pc[q], todo'[q] = todo[q], held'[q] = held[q], txn'[q] = txn[q],
         now' \in Nat, now' >= now
  PROVE  InHand(q)'
<1>1. /\ now \in Nat /\ Clock(q) \in Int /\ Clock(q)' \in Int /\ Clock(q) <= Clock(q)'
      /\ \A s \in Sessions : held[q][s].lastBilledAt \in Int
      /\ todo[q] \subseteq Sessions
  BY IndFacts, ClockAssumption DEF Clock, UsageSession
<1>2. pc[q] = "commit" => FromCopy(q, txn[q])'
  <2>1. pc[q] = "commit" => txn[q].to \in Int
    BY IndFacts DEF ChunkReady, BillingChunk
  <2> QED BY <1>1, <2>1 DEF InHand, FromCopy
<1>3. pc[q] = "stamp" => held'[q][txn'[q].session].lastBilledAt <= now'
  <2>1. pc[q] = "stamp" => txn[q].session \in Sessions
    BY IndFacts DEF StampReady
  <2> QED BY <1>1, <2>1 DEF InHand
<1>4. (q \in Scanners /\ Busy(q)) => \A s \in todo[q] :
        held'[q][s].endAt = Null /\ held'[q][s].lastBilledAt <= Clock(q)'
  BY <1>1 DEF InHand
<1> QED BY <1>2, <1>3, <1>4 DEF InHand, Busy

LEMMA AllInHand ==
  ASSUME IndInv, \A s \in Sessions : RowSound(s), \A p \in Goroutines : InHand(p),
         [Next]_vars
  PROVE  \A q \in Goroutines : InHand(q)'
<1>1. TypeOK /\ now \in Nat
  BY IndFacts
<1>2. CASE \/ \E p \in Scanners : ScannerStep(p) \/ ScanError(p) \/ ScanAbort(p)
           \/ \E p \in Finishers : FinisherStep(p) \/ FinishError(p) \/ FinishAbort(p)
  <2>1. PICK p \in Goroutines : Moves(p)
    BY <1>2 DEF Moves, Goroutines
  <2>2. /\ now' = now
        /\ \A q \in Goroutines \ {p} : /\ pc'[q] = pc[q] /\ todo'[q] = todo[q]
                                       /\ held'[q] = held[q] /\ txn'[q] = txn[q]
    BY <1>1, <2>1, MovesLocal
  <2>3. InHand(p)'
    BY <2>1, InHandKept
  <2> QED BY <1>1, <2>2, <2>3, InHandStays
<1>3. CASE Tick \/ GenerateBulkActiveSessions \/ UNCHANGED vars
  <2>1. UNCHANGED <<pc, todo, held, txn>> /\ now' \in Nat /\ now' >= now
    BY <1>1, <1>3 DEF Tick, GenerateBulkActiveSessions, CreateSession, vars, local
  <2> QED BY <2>1, InHandStays
<1>4. CASE \E h \in Hosts : Crash(h)
  <2>1. \A q \in Goroutines :
          \/ pc'[q] = "idle"
          \/ /\ pc'[q] = pc[q] /\ todo'[q] = todo[q]
             /\ held'[q] = held[q] /\ txn'[q] = txn[q]
    BY <1>4 DEF Crash
  <2>2. now' = now
    BY <1>4 DEF Crash
  <2>3. \A q \in Goroutines : pc'[q] = "idle" => InHand(q)'
    BY DEF InHand, Busy
  <2> QED BY <1>1, <2>1, <2>2, <2>3, InHandStays
<1> QED BY <1>2, <1>3, <1>4 DEF Next
-----------------------------------------------------------------------------
(* The accounts. *)

LEMMA ChunksFinite ==
  ASSUME outbox \in Seq(BillingChunk), NEW s
  PROVE  IsFiniteSet(Chunks(s)) /\ Chunks(s) \subseteq 1 .. Len(outbox)
<1>1. Chunks(s) \in SUBSET (1 .. Len(outbox)) /\ IsFiniteSet(1 .. Len(outbox))
  BY FS_Interval DEF Chunks
<1> QED BY <1>1, FS_Subset

(* The entry is one more for its session, behind all the others. *)

(* The entry is one more for its session, behind all the others. *)
LEMMA EntryChunks ==
  ASSUME outbox \in Seq(BillingChunk), NEW c \in BillingChunk,
         outbox' = Append(outbox, c)
  PROVE  /\ \A i \in DOMAIN outbox : i \in DOMAIN outbox' /\ outbox'[i] = outbox[i]
         /\ Chunks(c.session)' = Chunks(c.session) \cup {Len(outbox) + 1}
         /\ outbox'[Len(outbox) + 1] = c
         /\ Cardinality(Chunks(c.session)') = Cardinality(Chunks(c.session)) + 1
         /\ \A r : r # c.session => Chunks(r)' = Chunks(r)
<1> DEFINE n == Len(outbox) + 1
<1>1. /\ DOMAIN outbox' = DOMAIN outbox \cup {n} /\ n \notin DOMAIN outbox
      /\ outbox'[n] = c
      /\ \A i \in DOMAIN outbox : outbox'[i] = outbox[i]
  OBVIOUS
<1> HIDE DEF n
<1>2. \A r : Chunks(r)' = Chunks(r) \cup (IF r = c.session THEN {n} ELSE {})
  BY <1>1 DEF Chunks
<1>3. IsFiniteSet(Chunks(c.session)) /\ n \notin Chunks(c.session)
  BY <1>1, ChunksFinite DEF Chunks
<1>4. Cardinality(Chunks(c.session) \cup {n}) = Cardinality(Chunks(c.session)) + 1
  BY <1>3, FS_AddElement
<1>5. Chunks(c.session)' = Chunks(c.session) \cup {n}
  BY <1>2
<1> QED BY <1>1, <1>2, <1>4, <1>5 DEF n

(* What a step of usage-service does to the tables. *)
LEMMA DbStep ==
  ASSUME IndInv, [Next]_vars
  PROVE  \/ UNCHANGED <<sessions, outbox>> /\ now' \in Nat /\ now' >= now
         \/ UNCHANGED now /\ \E s \in Sessions, age \in StartAges : CreateSession(s, now - age)
         \/ UNCHANGED now /\ \E p \in Goroutines : Moves(p) /\ Bills(p)
<1>1. TypeOK /\ now \in Nat
  BY DEF IndInv, TypeOK
<1>2. CASE \/ \E p \in Scanners : ScannerStep(p) \/ ScanError(p) \/ ScanAbort(p)
           \/ \E p \in Finishers : FinisherStep(p) \/ FinishError(p) \/ FinishAbort(p)
  <2>1. PICK p \in Goroutines : Moves(p)
    BY <1>2 DEF Moves, Goroutines
  <2>2. now' = now /\ (UNCHANGED db \/ Bills(p))
    BY <1>1, <2>1, MovesLocal
  <2> QED BY <1>1, <2>1, <2>2 DEF db
<1>3. CASE Tick \/ (\E h \in Hosts : Crash(h)) \/ UNCHANGED vars
  <2>1. UNCHANGED <<sessions, outbox>> /\ now' \in {now, now + 1}
    BY <1>3 DEF Tick, Crash, vars, db
  <2>2. now' \in Nat /\ now' >= now
    BY <1>1, <2>1
  <2> QED BY <2>1, <2>2
<1>4. CASE GenerateBulkActiveSessions
  BY <1>4 DEF GenerateBulkActiveSessions, CreateSession
<1> QED BY <1>2, <1>3, <1>4 DEF Next

(* The chunk continues the account of its session. *)
Continues(c) ==
  /\ sessions[c.session].status = "SESSION_ACTIVE"
  /\ c.from = sessions[c.session].lastBilledAt
  /\ c.sequence = sessions[c.session].billingSequence + 1

(* A transaction adds a chunk and overwrites the row of its session.  The  *)
(* chunk continues the account, or the session is marked as raced; nothing *)
(* changes for other sessions.                                             *)
LEMMA BillsEntry ==
  ASSUME WorkInv, NEW p \in Goroutines, Moves(p), Bills(p), raced' = raced \cup Overtaken
  PROVE  \E s \in Sessions, c \in BillingChunk :
           /\ c.session = s /\ c.to <= now
           /\ outbox' = Append(outbox, c)
           /\ Present(sessions[s])
           /\ sessions'[s].lastBilledAt = c.to
           /\ sessions'[s].billingSequence = c.sequence
           /\ \/ /\ sessions'[s].status = sessions[s].status
                 /\ sessions'[s].endAt = sessions[s].endAt
                 /\ c.from <= c.to
              \/ /\ sessions'[s].status = "SESSION_FINISHED" /\ sessions'[s].endAt = c.to
                 /\ FinishersOnTime => c.from <= c.to
           /\ \A r \in Sessions \ {s} : sessions'[r] = sessions[r]
           /\ \/ Continues(c) /\ raced' = raced
              \/ raced' = raced \cup {s}
<1> DEFINE c == txn[p]
           s == c.session
<1>1. /\ TypeOK /\ ChunkReady /\ StampReady /\ outbox \in Seq(BillingChunk)
      /\ pc[p] = "commit" /\ InHand(p)
  BY IndFacts DEF WorkInv, Bills
<1>2. /\ c \in BillingChunk /\ s \in Sessions
      /\ sessions[s] \in UsageSession /\ Present(sessions[s])
      /\ FromCopy(p, c)
  BY <1>1, IndFacts DEF WorkInv, IndInv, Safe, TxnBacked, InHand, ChunkReady, BillingChunk
<1>3. PICK row :
        /\ CommitTx(c, row)
        /\ \/ row = BilledRow(sessions[s], c) /\ p \in Scanners
           \/ row = CompletedRow(sessions[s], c)
  BY DEF Bills
<1>4. /\ row.lastBilledAt = c.to /\ row.billingSequence = c.sequence
      /\ \/ /\ row.status = sessions[s].status /\ row.endAt = sessions[s].endAt
            /\ c.from <= c.to
         \/ /\ row.status = "SESSION_FINISHED" /\ row.endAt = c.to
            /\ FinishersOnTime => c.from <= c.to
  BY <1>2, <1>3 DEF BilledRow, CompletedRow, UsageSession, FromCopy
<1>5. /\ outbox' = Append(outbox, c) /\ sessions'[s] = row
      /\ \A r \in Sessions \ {s} : sessions'[r] = sessions[r]
  BY <1>1, <1>2, <1>3 DEF CommitTx, TypeOK
<1>6. (Continues(c) /\ raced' = raced) \/ raced' = raced \cup {s}
  <2>1. pc'[p] # "commit"
    BY <1>1, BatchStep DEF Fetched, Begun, Stamped, Advanced
  <2>2. outbox' # outbox
    <3>1. Len(Append(outbox, c)) # Len(outbox)
      BY <1>1, <1>2
    <3> QED BY <1>5, <3>1
  <2>3. Overtaken \subseteq {s}
    BY <1>1, MovesLocal DEF Overtaken
  <2>4. CASE Outdated(p, s)
    BY <1>1, <1>2, <2>1, <2>2, <2>3, <2>4 DEF Overtaken
  <2>5. CASE ~ Outdated(p, s)
    <3>1. held[p][s] = sessions[s] /\ sessions[s].status = "SESSION_ACTIVE"
      BY <2>5 DEF Outdated, Active
    <3>2. Continues(c)
      BY <1>2, <3>1 DEF Continues, FromCopy
    <3>3. raced' = raced \/ raced' = raced \cup {s}
      BY <2>3
    <3> QED BY <3>2, <3>3
  <2> QED BY <2>4, <2>5
<1>7. c.to <= now
  BY <1>2 DEF FromCopy
<1> HIDE DEF c, s
<1> QED BY <1>2, <1>4, <1>5, <1>6, <1>7 DEF s

LEMMA CreateSound ==
  ASSUME WorkInv, NEW s \in Sessions, NEW age \in StartAges, now' = now,
         CreateSession(s, now - age), NEW r \in Sessions
  PROVE  RowSound(r)' /\ (r \notin raced => AccountSound(r)')
<1>1. /\ TypeOK /\ now \in Nat /\ age \in Nat /\ RowSound(r)
      /\ r \notin raced => AccountSound(r)
  BY IndFacts, AgesAssumption DEF WorkInv, Unraced
<1>2. outbox' = outbox /\ Chunks(r)' = Chunks(r)
  BY DEF CreateSession, Chunks
<1>3. CASE r # s
  <2>1. sessions'[r] = sessions[r]
    BY <1>1, <1>3 DEF CreateSession, TypeOK
  <2> QED BY <1>1, <1>2, <2>1 DEF RowSound, AccountSound
<1>4. CASE r = s
  <2>1. /\ sessions[s] = Absent
        /\ sessions'[s] = [status |-> "SESSION_ACTIVE", startAt |-> now - age,
                           endAt |-> Null, lastBilledAt |-> now - age,
                           billingSequence |-> 0]
    BY <1>1 DEF CreateSession, TypeOK
  <2>2. Chunks(s) = {} /\ Cardinality(Chunks(s)) = 0
    BY <1>1, <1>4, <2>1, FS_EmptySet DEF RowSound, Absent
  <2>3. RowSound(s)'
    BY <1>1, <2>1 DEF RowSound
  <2>4. AccountSound(s)'
    BY <1>2, <1>4, <2>1, <2>2 DEF AccountSound
  <2> QED BY <1>4, <2>3, <2>4
<1> QED BY <1>3, <1>4

LEMMA BillsSound ==
  ASSUME WorkInv, NEW p \in Goroutines, Moves(p), Bills(p), now' = now,
         raced' = raced \cup Overtaken, NEW r \in Sessions
  PROVE  RowSound(r)' /\ (r \notin raced' => AccountSound(r)')
<1>1. PICK s \in Sessions, c \in BillingChunk :
        /\ c.session = s /\ c.to <= now
        /\ outbox' = Append(outbox, c)
        /\ Present(sessions[s])
        /\ sessions'[s].lastBilledAt = c.to
        /\ sessions'[s].billingSequence = c.sequence
        /\ \/ /\ sessions'[s].status = sessions[s].status
              /\ sessions'[s].endAt = sessions[s].endAt
              /\ c.from <= c.to
           \/ /\ sessions'[s].status = "SESSION_FINISHED" /\ sessions'[s].endAt = c.to
              /\ FinishersOnTime => c.from <= c.to
        /\ \A q \in Sessions \ {s} : sessions'[q] = sessions[q]
        /\ \/ Continues(c) /\ raced' = raced
           \/ raced' = raced \cup {s}
  BY BillsEntry
<1>2. /\ outbox \in Seq(BillingChunk) /\ now \in Nat /\ RowSound(r)
      /\ r \notin raced => AccountSound(r)
  BY IndFacts DEF WorkInv, Unraced
<1>3. /\ \A i \in DOMAIN outbox : i \in DOMAIN outbox' /\ outbox'[i] = outbox[i]
      /\ Chunks(s)' = Chunks(s) \cup {Len(outbox) + 1}
      /\ outbox'[Len(outbox) + 1] = c
      /\ Cardinality(Chunks(s)') = Cardinality(Chunks(s)) + 1
      /\ \A q : q # s => Chunks(q)' = Chunks(q)
  BY <1>1, <1>2, EntryChunks
<1>4. CASE r # s
  <2>1. sessions'[r] = sessions[r] /\ Chunks(r)' = Chunks(r)
        /\ (r \notin raced' => r \notin raced)
    BY <1>1, <1>3, <1>4
  <2>2. \A i \in Chunks(r) : outbox'[i] = outbox[i]
    BY <1>3 DEF Chunks
  <2> QED BY <1>2, <2>1, <2>2 DEF RowSound, AccountSound
<1>5. CASE r = s
  <2>1. RowSound(s)'
    BY <1>1, <1>2, <1>5 DEF RowSound, Present
  <2>2. ASSUME s \notin raced' PROVE AccountSound(s)'
    <3>1. Continues(c) /\ AccountSound(s) /\ RowSound(s)
      BY <1>1, <1>2, <1>5, <2>2
    <3>2. /\ c.from \in Int /\ c.to \in Int /\ c.sequence \in Nat
          /\ sessions[s].status = "SESSION_ACTIVE" /\ sessions[s].endAt = Null
          /\ c.from = sessions[s].lastBilledAt
          /\ c.sequence = sessions[s].billingSequence + 1
          /\ sessions[s].billingSequence \in Nat
      BY <1>1, <3>1, IndFacts DEF WorkInv, Continues, BillingChunk, UsageSession, RowSound
    <3>3. /\ \A i \in Chunks(s) :
               /\ i \in 1 .. Len(outbox) /\ outbox'[i] = outbox[i]
               /\ outbox[i].sequence \in Nat /\ outbox[i].to \in Int
               /\ outbox[i].sequence < c.sequence
               /\ outbox[i].to <= c.from
      <4>1. \A i \in Chunks(s) :
              /\ i \in 1 .. Len(outbox) /\ outbox'[i] = outbox[i]
              /\ outbox[i] \in BillingChunk
        BY <1>2, <1>3 DEF Chunks
      <4>2. \A i \in Chunks(s) : outbox[i].sequence \in Nat /\ outbox[i].to \in Int
        BY <4>1 DEF BillingChunk
      <4>3. \A i \in Chunks(s) :
              /\ outbox[i].sequence <= sessions[s].billingSequence
              /\ outbox[i].to <= sessions[s].lastBilledAt
        BY <3>1, <3>2 DEF AccountSound
      <4> QED BY <3>2, <4>1, <4>2, <4>3
    <3>4. Cardinality(Chunks(s)') = sessions'[s].billingSequence
      BY <1>1, <1>3, <3>1, <3>2 DEF AccountSound
    <3>5. \A i \in Chunks(s)' :
            /\ outbox'[i].sequence <= sessions'[s].billingSequence
            /\ FinishersOnTime \/ sessions'[s].status = "SESSION_ACTIVE" =>
                 outbox'[i].to <= sessions'[s].lastBilledAt
      BY <1>1, <1>3, <3>2, <3>3
    <3>6. ASSUME NEW i \in Chunks(s)', NEW j \in Chunks(s)', i < j
          PROVE  /\ outbox'[i].sequence < outbox'[j].sequence
                 /\ outbox'[i].to <= outbox'[j].from
      <4>1. Len(outbox) \in Nat
        BY <1>2
      <4>2. i \in Chunks(s)
        BY <1>3, <3>3, <3>6, <4>1
      <4>3. CASE j \in Chunks(s)
        BY <3>1, <3>3, <3>6, <4>2, <4>3 DEF AccountSound
      <4>4. CASE j = Len(outbox) + 1
        BY <1>3, <3>3, <4>2, <4>4
      <4> QED BY <1>3, <4>3, <4>4
    <3>7. sessions'[s].status = "SESSION_FINISHED" =>
            sessions'[s].endAt = sessions'[s].lastBilledAt
      BY <1>1, <3>2
    <3> QED BY <3>4, <3>5, <3>6, <3>7 DEF AccountSound
  <2> QED BY <1>5, <2>1, <2>2
<1> QED BY <1>4, <1>5

LEMMA AllSound ==
  ASSUME WorkInv, [Next]_vars, raced' = raced \cup Overtaken, NEW r \in Sessions
  PROVE  RowSound(r)' /\ (r \notin raced' => AccountSound(r)')
<1>1. CASE UNCHANGED <<sessions, outbox>> /\ now' \in Nat /\ now' >= now
  <2>1. /\ sessions[r].lastBilledAt \in Int /\ now \in Nat /\ RowSound(r)
        /\ r \notin raced => AccountSound(r)
    BY IndFacts DEF WorkInv, Unraced, UsageSession
  <2>2. RowSound(r)'
    BY <1>1, <2>1 DEF RowSound, Chunks
  <2>3. r \notin raced => AccountSound(r)'
    BY <1>1, <2>1 DEF AccountSound, Chunks
  <2> QED BY <2>2, <2>3
<1>2. CASE now' = now /\ \E s \in Sessions, age \in StartAges : CreateSession(s, now - age)
  BY <1>2, CreateSound
<1>3. CASE now' = now /\ \E p \in Goroutines : Moves(p) /\ Bills(p)
  BY <1>3, BillsSound
<1>4. IndInv
  BY DEF WorkInv
<1> QED BY <1>1, <1>2, <1>3, <1>4, DbStep

LEMMA InitWork == PipelineInit => WorkInv
<1> SUFFICES ASSUME PipelineInit PROVE WorkInv
  OBVIOUS
<1>1. IndInv /\ \A p \in Goroutines : InHand(p)
  BY InitSafe DEF PipelineInit, Init, InHand, Busy
<1>2. ASSUME NEW s \in Sessions PROVE RowSound(s) /\ AccountSound(s)
  <2>1. sessions[s] = Absent /\ Chunks(s) = {} /\ Cardinality({}) = 0
    BY FS_EmptySet DEF PipelineInit, Init, Chunks
  <2> QED BY <2>1 DEF RowSound, AccountSound, Absent, Present
<1> QED BY <1>1, <1>2 DEF WorkInv, Unraced

LEMMA NextWork ==
  ASSUME WorkInv, [Next]_vars, raced' = raced \cup Overtaken
  PROVE  WorkInv'
<1>1. IndInv' /\ \A p \in Goroutines : InHand(p)'
  BY NextSafe, AllInHand DEF WorkInv
<1>2. \A s \in Sessions : RowSound(s)'
  BY AllSound
<1>3. \A s \in Unraced' : AccountSound(s)'
  BY AllSound DEF Unraced
<1> QED BY <1>1, <1>2, <1>3 DEF WorkInv
-----------------------------------------------------------------------------
(* The pipeline. *)

(* The outbox only grows. *)
LEMMA OutboxStays ==
  ASSUME IndInv, [Next]_vars
  PROVE  /\ outbox \in Seq(BillingChunk)
         /\ \A i \in DOMAIN outbox : i \in DOMAIN outbox' /\ outbox'[i] = outbox[i]
<1>1. outbox \in Seq(BillingChunk) /\ ChunkReady
  BY DEF IndInv, Safe, TxnBacked, ChunkReady, TypeOK
<1>2. CASE UNCHANGED outbox
  BY <1>1, <1>2
<1>3. CASE \E p \in Goroutines : Moves(p) /\ Bills(p)
  <2>1. PICK c \in BillingChunk : outbox' = Append(outbox, c)
    BY <1>1, <1>3 DEF Bills, CommitTx, ChunkReady
  <2> QED BY <1>1, <2>1, EntryChunks
<1> QED BY <1>2, <1>3, DbStep DEF CreateSession

(* What has been handed on stays in the outbox, as it was. *)
LEMMA DeliveredStays ==
  ASSUME IndInv, Delivered, [Next]_vars, UNCHANGED delivery
  PROVE  Delivered'
<1>1. \A i \in DOMAIN outbox : i \in DOMAIN outbox' /\ outbox'[i] = outbox[i]
  BY OutboxStays
<1>2. UNCHANGED <<sent, submitted, charged>>
  BY DEF delivery
<1>3. \A i \in submitted : SeenByMetronome(i)'
  BY <1>1, <1>2 DEF Delivered, SeenByMetronome, TransactionID, BagToSet
<1>4. sent' \subseteq { i \in DOMAIN outbox' : validateBillingChunk(i)' }
  BY <1>1, <1>2 DEF Delivered, validateBillingChunk
<1> QED BY <1>2, <1>3, <1>4 DEF Delivered

LEMMA DeliveryKept ==
  ASSUME Delivered, PublishNext \/ SubmitNext \/ SubmitAgain
  PROVE  Delivered' /\ UNCHANGED <<vars, raced>>
<1>1. CASE PublishNext
  <2>1. PICK i \in DOMAIN outbox : Publish(i)
    BY <1>1 DEF PublishNext
  <2>2. /\ sent' = sent \cup {i} /\ validateBillingChunk(i)
        /\ UNCHANGED <<vars, raced, submitted, charged>>
    BY <2>1 DEF Publish, Publisher!Forward
  <2>3. outbox' = outbox
    BY <2>2 DEF vars
  <2>4. \A j \in submitted' : SeenByMetronome(j)'
    BY <2>2, <2>3 DEF Delivered, SeenByMetronome, TransactionID, BagToSet
  <2> QED BY <2>2, <2>3, <2>4 DEF Delivered, validateBillingChunk
<1>2. CASE SubmitNext \/ SubmitAgain
  <2>1. PICK i \in sent : Submit(i)
    BY <1>2 DEF SubmitNext, SubmitAgain, Delivered
  <2>2. /\ submitted' = submitted \cup {i} /\ UNCHANGED <<vars, raced, sent>>
        /\ charged' = IF SeenByMetronome(i) THEN charged
                                            ELSE charged (+) SetToBag({i})
    BY <2>1 DEF Submit, Processor!Forward
  <2>3. outbox' = outbox
    BY <2>2 DEF vars
  <2>4. DOMAIN charged' \subseteq submitted' /\ \A j \in DOMAIN charged' : charged'[j] = 1
    <3>1. CASE SeenByMetronome(i)
      BY <2>2, <3>1 DEF Delivered
    <3>2. CASE ~SeenByMetronome(i)
      <4>1. i \notin DOMAIN charged
        BY <3>2 DEF SeenByMetronome, BagToSet
      <4>2. charged' = charged (+) SetToBag({i})
        BY <2>2, <3>2
      <4>3. /\ DOMAIN charged' = DOMAIN charged \cup {i}
            /\ \A j \in DOMAIN charged' : charged'[j] = 1
        BY <4>1, <4>2 DEF Delivered, (+), SetToBag
      <4> QED BY <2>2, <4>3 DEF Delivered
    <3> QED BY <3>1, <3>2
  <2>6. \A j \in submitted' : SeenByMetronome(j)'
    <3>1. DOMAIN charged \subseteq DOMAIN charged'
      BY <2>2 DEF (+), SetToBag
    <3>2. \A j \in submitted \cup {i} :
            SeenByMetronome(j) \/ (j = i /\ i \in DOMAIN charged')
      <4>1. ~SeenByMetronome(i) => i \in DOMAIN charged'
        BY <2>2 DEF (+), SetToBag
      <4> QED BY <4>1 DEF Delivered
    <3>3. \A j : j \in DOMAIN charged' /\ j = i => SeenByMetronome(i)'
      BY <2>3 DEF SeenByMetronome, TransactionID, BagToSet
    <3>4. \A j : SeenByMetronome(j) => SeenByMetronome(j)'
      BY <2>3, <3>1 DEF SeenByMetronome, TransactionID, BagToSet
    <3> QED BY <2>2, <3>2, <3>3, <3>4
  <2>5. sent' \subseteq { j \in DOMAIN outbox' : validateBillingChunk(j)' }
    BY <2>2, <2>3 DEF Delivered, validateBillingChunk
  <2> QED BY <2>2, <2>4, <2>5, <2>6 DEF Delivered
<1> QED BY <1>1, <1>2

LEMMA UsageSteps ==
  ASSUME Delivered, [PipelineNext]_pipelineVars
  PROVE  /\ [Next]_vars /\ raced' = raced \cup Overtaken
         /\ \/ UNCHANGED delivery
            \/ PublishNext \/ SubmitNext \/ SubmitAgain
<1>1. CASE Usage(Next)
  BY <1>1 DEF Usage
<1>2. CASE (PublishNext \/ SubmitNext \/ SubmitAgain) \/ UNCHANGED pipelineVars
  <2>1. UNCHANGED <<vars, raced>>
    BY <1>2, DeliveryKept DEF pipelineVars
  <2>2. Overtaken = {}
    BY <2>1 DEF Overtaken, vars
  <2> QED BY <1>2, <2>1, <2>2 DEF pipelineVars
<1> QED BY <1>1, <1>2 DEF PipelineNext

LEMMA InitPipeline == PipelineInit => PipelineInv
BY InitWork DEF PipelineInit, PipelineInv, Delivered, EmptyBag, SetToBag

LEMMA NextPipeline == PipelineInv /\ [PipelineNext]_pipelineVars => PipelineInv'
<1> SUFFICES ASSUME WorkInv, Delivered, [PipelineNext]_pipelineVars
             PROVE  WorkInv' /\ Delivered'
  BY DEF PipelineInv
<1>1. [Next]_vars /\ WorkInv' /\ IndInv
  BY UsageSteps, NextWork DEF WorkInv
<1>2. CASE UNCHANGED delivery
  BY <1>1, <1>2, DeliveredStays
<1>3. CASE PublishNext \/ SubmitNext \/ SubmitAgain
  BY <1>1, <1>3, DeliveryKept
<1> QED BY <1>1, <1>2, <1>3, UsageSteps

LEMMA PipelineInvariance == PipelineSpec => []PipelineInv
<1>1. PipelineInit /\ [][PipelineNext]_pipelineVars => []PipelineInv
  BY InitPipeline, NextPipeline, PTL
<1> QED BY <1>1, PTL DEF PipelineSpec

LEMMA UniqueIds == PipelineInv => UnracedIdsUnique
<1> SUFFICES ASSUME PipelineInv,
                    NEW i \in DOMAIN outbox, NEW j \in DOMAIN outbox, i # j,
                    outbox[i].session = outbox[j].session,
                    outbox[i].session \notin raced
             PROVE  outbox[i].sequence # outbox[j].sequence
  BY DEF UnracedIdsUnique, TransactionID
<1>1. /\ outbox[i].sequence \in Nat /\ outbox[j].sequence \in Nat
      /\ i \in Nat /\ j \in Nat /\ outbox[i].session \in Sessions
  <2>1. outbox \in Seq(BillingChunk)
    BY IndFacts DEF PipelineInv, WorkInv
  <2>2. outbox[i] \in BillingChunk /\ outbox[j] \in BillingChunk /\ i \in Nat /\ j \in Nat
    BY <2>1
  <2> QED BY <2>2 DEF BillingChunk
<1>2. i \in Chunks(outbox[i].session) /\ j \in Chunks(outbox[i].session)
  BY DEF Chunks
<1>3. AccountSound(outbox[i].session)
  BY <1>1 DEF PipelineInv, WorkInv, Unraced
<1>4. i < j \/ j < i
  BY <1>1
<1> QED BY <1>1, <1>2, <1>3, <1>4 DEF AccountSound

(* However goroutines race, fail and crash and whatever their clocks show, *)
(* two chunks have the name of one Metronome transaction only if an        *)
(* outdated goroutine wrote to their session.                              *)
THEOREM OnlyRacesRepeatIds == PipelineSpec => []UnracedIdsUnique
BY UniqueIds, PipelineInvariance, PTL

(* For the same: no chunk is charged twice, however often and in whatever  *)
(* order chunks are published and submitted, and no time of a session is,  *)
(* unless an outdated goroutine wrote to it.  A scanner selects by its own *)
(* clock and so never moves an account back; a finisher closes it.         *)
THEOREM OnlyRacesChargeTwice == PipelineSpec => []UnracedChargedOnce
<1>1. PipelineInv => UnracedChargedOnce
  <2> SUFFICES ASSUME PipelineInv PROVE UnracedChargedOnce
    OBVIOUS
  <2>1. WorkInv /\ Delivered /\ outbox \in Seq(BillingChunk)
    BY IndFacts DEF PipelineInv, WorkInv
  <2>2. DOMAIN charged \subseteq DOMAIN outbox /\ DOMAIN outbox \subseteq Nat
    BY <2>1 DEF Delivered
  <2>3. ASSUME NEW s \in Unraced, NEW i \in DOMAIN charged, NEW j \in DOMAIN charged,
               i # j, outbox[i].session = s, outbox[j].session = s
        PROVE  outbox[i].to <= outbox[j].from \/ outbox[j].to <= outbox[i].from
    <3>1. i \in Chunks(s) /\ j \in Chunks(s) /\ AccountSound(s)
      BY <2>1, <2>2, <2>3 DEF Chunks, WorkInv
    <3>2. i < j \/ j < i
      BY <2>2, <2>3
    <3> QED BY <2>1, <3>1, <3>2 DEF AccountSound
  <2> QED BY <2>1, <2>3 DEF Delivered, UnracedChargedOnce, BagToSet
<1> QED BY <1>1, PipelineInvariance, PTL

(* The same, for what needs the finishers' clocks to be right. *)
TimelyInv == FinishersOnTime /\ PipelineInv

LEMMA TimelyInvariance == FinishersOnTime /\ PipelineSpec => []TimelyInv
<1>1. FinishersOnTime /\ PipelineInit => TimelyInv
  BY InitPipeline DEF TimelyInv
<1>2. TimelyInv /\ [PipelineNext]_pipelineVars => TimelyInv'
  BY NextPipeline DEF TimelyInv
<1>3. FinishersOnTime /\ PipelineInit /\ [][PipelineNext]_pipelineVars => []TimelyInv
  BY <1>1, <1>2, PTL
<1> QED BY <1>3, PTL DEF PipelineSpec

(* If no finisher's clock is behind, however far behind the scanners'      *)
(* clocks are, no chunk bills a finished session beyond its end unless an  *)
(* outdated goroutine wrote to it.                                         *)
THEOREM OnlyRacesPassEnds == FinishersOnTime => (PipelineSpec => []UnracedEndIsKept)
<1>1. TimelyInv => UnracedEndIsKept
  <2> SUFFICES ASSUME TimelyInv, NEW i \in DOMAIN outbox, NEW s,
                      s = outbox[i].session, s \in Unraced, sessions[s].endAt # Null
               PROVE  outbox[i].to <= sessions[s].endAt
    BY DEF UnracedEndIsKept
  <2>1. RowSound(s) /\ AccountSound(s) /\ sessions[s] \in UsageSession /\ i \in Chunks(s)
    BY IndFacts DEF TimelyInv, PipelineInv, WorkInv, Unraced, Chunks
  <2>2. sessions[s].status = "SESSION_FINISHED"
    BY <2>1 DEF RowSound, UsageSession, Status
  <2>3. sessions[s].endAt = sessions[s].lastBilledAt
    BY <2>1, <2>2 DEF AccountSound
  <2>4. outbox[i].to <= sessions[s].lastBilledAt
    BY <2>1 DEF TimelyInv, AccountSound
  <2> QED BY <2>3, <2>4
<1> QED BY <1>1, TimelyInvariance, PTL
-----------------------------------------------------------------------------
(* The ledger. *)

LEMMA InitLedger == PipelineInit => Ledger!Init
BY DEF PipelineInit, Init, Ledger!Init, AccountState, Absent

LEMMA NextLedger ==
  ASSUME TimelyInv, [Next]_vars, raced' = raced \cup Overtaken
  PROVE  [Ledger!Next]_(Ledger!vars)
<1>1. WorkInv /\ IndInv /\ FinishersOnTime /\ TypeOK /\ outbox \in Seq(BillingChunk)
  BY IndFacts DEF TimelyInv, PipelineInv, WorkInv
<1>2. CASE UNCHANGED <<sessions, outbox>>
  <2>1. raced' = raced
    BY <1>2 DEF Overtaken
  <2> QED BY <1>2, <2>1 DEF Ledger!vars
<1>3. CASE \E s \in Sessions, age \in StartAges : CreateSession(s, now - age)
  <2>1. PICK s \in Sessions, age \in StartAges : CreateSession(s, now - age)
    BY <1>3
  <2>2. /\ sessions[s] = Absent /\ outbox' = outbox
        /\ sessions'[s].status = "SESSION_ACTIVE"
        /\ sessions'[s].lastBilledAt = now - age
        /\ \A r \in Sessions \ {s} : sessions'[r] = sessions[r]
    BY <1>1, <2>1 DEF CreateSession, TypeOK
  <2>3. now - age \in Int
    BY <1>1, AgesAssumption DEF TypeOK
  <2>4. Chunks(s) = {} /\ raced' = raced
    BY <1>1, <2>2 DEF WorkInv, RowSound, Absent, Overtaken
  <2>5. Ledger!Open(s)
    BY <2>2, <2>3, <2>4 DEF Ledger!Open, Ledger!Others, Ledger!Entries, Chunks,
                            AccountState, Absent
  <2> QED BY <2>5 DEF Ledger!Next
<1>4. CASE \E p \in Goroutines : Moves(p) /\ Bills(p)
  <2>1. PICK s \in Sessions, c \in BillingChunk :
          /\ c.session = s /\ c.to <= now
          /\ outbox' = Append(outbox, c)
          /\ Present(sessions[s])
          /\ sessions'[s].lastBilledAt = c.to
          /\ sessions'[s].billingSequence = c.sequence
          /\ \/ /\ sessions'[s].status = sessions[s].status
                /\ sessions'[s].endAt = sessions[s].endAt
                /\ c.from <= c.to
             \/ /\ sessions'[s].status = "SESSION_FINISHED" /\ sessions'[s].endAt = c.to
                /\ FinishersOnTime => c.from <= c.to
          /\ \A r \in Sessions \ {s} : sessions'[r] = sessions[r]
          /\ \/ Continues(c) /\ raced' = raced
             \/ raced' = raced \cup {s}
    BY <1>1, <1>4, BillsEntry
  <2>2. Ledger!Others(s)
    BY <2>1 DEF Ledger!Others
  <2>3. CASE raced' = raced \cup {s}
    <3>1. /\ Len(outbox') = Len(outbox) + 1 /\ outbox'[Len(outbox) + 1] = c
      BY <1>1, <2>1
    <3>2. Ledger!Break(s)
      BY <2>1, <2>2, <2>3, <3>1 DEF Ledger!Break
    <3> QED BY <3>2 DEF Ledger!Next
  <2>4. CASE Continues(c) /\ raced' = raced /\ s \notin raced
    <3>1. AccountSound(s)
      BY <1>1, <2>4 DEF WorkInv, Unraced
    <3>2. c = [session |-> s, sequence |-> Cardinality(Chunks(s)) + 1,
               from |-> sessions[s].lastBilledAt, to |-> sessions'[s].lastBilledAt]
      <4>1. c.sequence = Cardinality(Chunks(s)) + 1
        BY <2>1, <2>4, <3>1 DEF AccountSound, Continues
      <4> QED BY <2>1, <2>4, <4>1 DEF Continues, BillingChunk
    <3>3. sessions'[s].lastBilledAt >= sessions[s].lastBilledAt
      <4>1. c.from \in Int /\ c.to \in Int /\ c.from <= c.to
        BY <1>1, <2>1 DEF BillingChunk
      <4> QED BY <2>1, <2>4, <4>1 DEF Continues
    <3>4. Ledger!Enter(s)
      <4>1. Ledger!Cardinality(Ledger!Entries(s)) = Cardinality(Chunks(s))
        BY DEF Ledger!Entries, Chunks, Ledger!Cardinality, Cardinality
      <4>2. outbox' = Append(outbox, [session |-> s,
                        sequence |-> Ledger!Cardinality(Ledger!Entries(s)) + 1,
                        from |-> sessions[s].lastBilledAt,
                        to |-> sessions'[s].lastBilledAt])
        BY <2>1, <3>2, <4>1
      <4> HIDE DEF Ledger!Entries
      <4> QED BY <2>1, <2>2, <2>4, <3>3, <4>2 DEF Ledger!Enter, AccountState, Continues
    <3>5. \/ sessions'[s].status = "SESSION_ACTIVE"
          \/ sessions'[s].status = "SESSION_FINISHED"
      BY <2>1, <2>4 DEF Continues
    <3>6. Ledger!Bill(s) \/ Ledger!Close(s)
      BY <3>4, <3>5 DEF Ledger!Bill, Ledger!Close, AccountState
    <3> QED BY <3>6 DEF Ledger!Next
  <2> QED BY <2>1, <2>3, <2>4
<1> QED BY <1>1, <1>2, <1>3, <1>4, DbStep

(* If no finisher's clock is behind, usage-service keeps the ledger:       *)
(* every step opens, bills or closes one account, is made by an outdated   *)
(* goroutine and breaks the account of its session, or concerns none.      *)
THEOREM OnlyRacesBreakLedger == FinishersOnTime => (PipelineSpec => ImplementsLedger)
<1>1. TimelyInv /\ [PipelineNext]_pipelineVars => [Ledger!Next]_(Ledger!vars)
  BY UsageSteps, NextLedger DEF TimelyInv, PipelineInv
<1> QED BY <1>1, InitLedger, TimelyInvariance, PTL
        DEF PipelineSpec, ImplementsLedger, Ledger!Spec
-----------------------------------------------------------------------------
(* The charges. *)

(* Time that is billed is in a chunk of the outbox; the chunk, if it has   *)
(* been submitted, or one with its transaction id was charged for.         *)
LEMMA BilledIsSubmitted ==
  ASSUME PipelineInv, NEW s \in Sessions, Present(sessions[s]), AllSubmitted(s),
         NEW t \in BilledTime(s)
  PROVE  \E i \in DOMAIN outbox, j \in DOMAIN charged :
           /\ outbox[i].session = s /\ outbox[i].from <= t /\ t < outbox[i].to
           /\ TransactionID(j) = TransactionID(i)
<1>1. /\ BilledThroughout(outbox, s, sessions[s].startAt, sessions[s].lastBilledAt)
      /\ sessions[s].endAt # Null =>
           BilledThroughout(outbox, s, sessions[s].startAt, sessions[s].endAt)
  BY DEF PipelineInv, WorkInv, IndInv, RowsBacked, Backed
<1>2. PICK i \in DOMAIN outbox :
        outbox[i].session = s /\ outbox[i].from <= t /\ t < outbox[i].to
  BY <1>1 DEF BilledTime, BilledThroughout, Billed
<1>3. outbox[i].from < outbox[i].to
  <2>1. outbox[i] \in BillingChunk
    BY DEF PipelineInv, WorkInv, IndInv, TypeOK
  <2>2. t \in Int
    BY DEF BilledTime
  <2> QED BY <1>2, <2>1, <2>2 DEF BillingChunk
<1>4. SeenByMetronome(i)
  BY <1>2, <1>3 DEF AllSubmitted, validateBillingChunk, PipelineInv, Delivered
<1> QED BY <1>2, <1>4 DEF SeenByMetronome, BagToSet

(* For any number of sessions, scanners, finishers and replicas, whatever  *)
(* fails and whatever the clocks show, billed time that was submitted is   *)
(* charged for unless two chunks of a session have the same number.        *)
THEOREM OnlyCollisionsLoseCharges == PipelineSpec => []UnchargedIsCollision
<1>1. PipelineInv => UnchargedIsCollision
  <2> SUFFICES ASSUME PipelineInv, NEW s \in Sessions,
                      Present(sessions[s]), AllSubmitted(s), NEW t \in BilledTime(s)
               PROVE  ChargesFor(s, t) # {} \/ Displaced(s, t)
    BY DEF UnchargedIsCollision
  <2>1. PICK i \in DOMAIN outbox, j \in DOMAIN charged :
          /\ outbox[i].session = s /\ outbox[i].from <= t /\ t < outbox[i].to
          /\ TransactionID(j) = TransactionID(i)
    BY BilledIsSubmitted
  <2>2. CASE i = j
    BY <2>1, <2>2 DEF ChargesFor, BagToSet
  <2>3. CASE i # j
    BY <2>1, <2>3 DEF Displaced, TransactionID, BagToSet
  <2> QED BY <2>2, <2>3
<1> QED BY <1>1, PipelineInvariance, PTL

(* For the same, a session that has ended is charged for in full as soon   *)
(* as its chunks are submitted, unless an outdated goroutine wrote to it.  *)
THEOREM OnlyRacesLoseCharges == PipelineSpec => []UnracedIsDelivered
<1>1. PipelineInv => UnracedIsDelivered
  <2> SUFFICES ASSUME PipelineInv, NEW s \in Unraced,
                      sessions[s].endAt # Null, AllSubmitted(s),
                      NEW t \in sessions[s].startAt .. (sessions[s].endAt - 1)
               PROVE  ChargesFor(s, t) # {}
    BY DEF UnracedIsDelivered, ChargedThroughout
  <2>1. s \in Sessions /\ s \notin raced
    BY DEF Unraced
  <2>2. Present(sessions[s]) /\ t \in BilledTime(s)
    <3>1. RowSound(s)
      BY <2>1 DEF PipelineInv, WorkInv
    <3>2. Present(sessions[s])
      BY <3>1 DEF RowSound, Absent, Present
    <3> QED BY <3>2 DEF BilledTime
  <2>3. PICK i \in DOMAIN outbox, j \in DOMAIN charged :
          /\ outbox[i].session = s /\ outbox[i].from <= t /\ t < outbox[i].to
          /\ TransactionID(j) = TransactionID(i)
    BY <2>1, <2>2, BilledIsSubmitted
  <2>4. j \in DOMAIN outbox
    BY DEF PipelineInv, Delivered
  <2>5. i = j
    BY <2>1, <2>3, <2>4, UniqueIds DEF UnracedIdsUnique
  <2> QED BY <2>3, <2>5 DEF ChargesFor, BagToSet
<1> QED BY <1>1, PipelineInvariance, PTL
=============================================================================
