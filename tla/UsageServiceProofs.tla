------------------------- MODULE UsageServiceProofs -------------------------
(***************************************************************************)
(* Proofs about UsageService: its types, that no usage is lost and that    *)
(* the sequence numbers have no hole, for any number of sessions, replicas *)
(* and failures; and that one finisher ends every session for good.        *)
(*                                                                         *)
(* The argument does not need a goroutine's copy of a row to be up to      *)
(* date.  It needs it to be backed by the outbox: whatever last_billed_at  *)
(* and billing_sequence a copy shows, the chunks up to that instant and    *)
(* the chunk with that number have been committed.  Chunks are never       *)
(* removed, so that what was once backed is backed for ever, and a chunk   *)
(* computed from a backed copy extends what the outbox covers without gap. *)
(***************************************************************************)
EXTENDS UsageService, TLAPS

(* The outbox holds what row says has been billed of session s. *)
Backed(chunks, s, row) ==
  /\ BilledThroughout(chunks, s, row.startAt, row.lastBilledAt)
  /\ row.billingSequence > 0 => HasChunk(chunks, s, row.billingSequence)

RowsBacked ==
  \A s \in Sessions : Present(sessions[s]) =>
    /\ Backed(outbox, s, sessions[s])
    /\ sessions[s].endAt # Null =>
         BilledThroughout(outbox, s, sessions[s].startAt, sessions[s].endAt)

(* The copies that goroutine p holds. *)
CopiesBacked(p) ==
  \A s \in Sessions : Present(held[p][s]) =>
    /\ Backed(outbox, s, held[p][s])
    /\ Present(sessions[s])
    /\ held[p][s].startAt = sessions[s].startAt

(* Its chunk may be committed. *)
TxnBacked(p) ==
  pc[p] = "commit" =>
    /\ txn[p] \in BillingChunk
    /\ Present(sessions[txn[p].session])
    /\ BilledThroughout(outbox, txn[p].session,
                        sessions[txn[p].session].startAt, txn[p].from)
    /\ txn[p].sequence > 0
    /\ txn[p].sequence > 1 => HasChunk(outbox, txn[p].session, txn[p].sequence - 1)

(* The rows that its next steps read are there. *)
BatchHeld(p) ==
  /\ p \in Scanners => \A s \in todo[p] : Present(held[p][s])
  /\ p \in Finishers => \A s \in todo[p] : Present(sessions[s])
  /\ pc[p] = "stamp" => /\ txn[p].session \in Sessions
                        /\ Present(held[p][txn[p].session])

Safe(p) == CopiesBacked(p) /\ TxnBacked(p) /\ BatchHeld(p)

(* The inductive invariant. *)
IndInv ==
  TypeOK /\ RowsBacked /\ NoSequenceHole /\ \A p \in Goroutines : Safe(p)
-----------------------------------------------------------------------------
(* A work list is a part of the rows that its WHERE clause selects. *)
LEMMA WorkLists ==
  /\ \A p : \A B \in UnbilledAfterCursor(p) : B \subseteq Unbilled(p) /\ B \subseteq Active
  /\ \A B \in ActiveSessionIDs : B \subseteq Active
  /\ \A p : FirstOf(todo[p], LAMBDA a, b : a <= b) \subseteq todo[p]
  /\ \A p : FirstOf(todo[p], LAMBDA a, b :
              sessions[a].startAt <= sessions[b].startAt) \subseteq todo[p]
BY DEF UnbilledAfterCursor, ActiveSessionIDs, OrderByLimit, FirstOf, Unbilled

(* The chunk computed from a well-formed row is well-formed. *)
LEMMA NewChunkType ==
  ASSUME NEW s \in Sessions, NEW r \in UsageSession, NEW to \in Int
  PROVE  NewChunk(s, r, to) \in BillingChunk
BY DEF NewChunk, UsageSession, BillingChunk

LEMMA ClockType ==
  ASSUME NEW p, now \in Nat
  PROVE  Clock(p) \in Int
BY ClockAssumption DEF Clock

(* A scanner bills up to an instant. *)
LEMMA PeriodEndType ==
  ASSUME NEW p, NEW r \in UsageSession, now \in Nat
  PROVE  PeriodEnd(p, r) \in Int
BY ClockType DEF PeriodEnd, UsageSession

(* Both UPDATE statements write well-formed rows. *)
LEMMA RowTypes ==
  ASSUME NEW r \in UsageSession, NEW c \in BillingChunk
  PROVE  BilledRow(r, c) \in UsageSession /\ CompletedRow(r, c) \in UsageSession
BY DEF BilledRow, CompletedRow, UsageSession, BillingChunk, Status

LEMMA AbsentType == Absent \in UsageSession
BY DEF Absent, UsageSession, Status

(* A commit leaves the tables well-formed. *)
LEMMA CommitTxType ==
  ASSUME TypeOK, NEW c \in BillingChunk, NEW r \in UsageSession, CommitTx(c, r)
  PROVE  sessions' \in [Sessions -> UsageSession] /\ outbox' \in Seq(BillingChunk)
<1>1. sessions' \in [Sessions -> UsageSession]
  BY DEF TypeOK, CommitTx
<1>2. outbox' = Append(outbox, c) /\ outbox \in Seq(BillingChunk)
  BY DEF TypeOK, CommitTx
<1>3. outbox' \in Seq(BillingChunk)
  BY <1>2
<1> QED BY <1>1, <1>3

(* Going on with the batch keeps the types of a goroutine's state. *)
LEMMA AdvanceType ==
  ASSUME TypeOK, NEW p \in Goroutines, NEW s \in Sessions,
         NEW again \in {"idle", "fetch", "item"},
         NEW next \in {"idle", "fetch", "item"},
         Advance(p, s, again, next)
  PROVE  /\ todo' \in [Goroutines -> SUBSET Sessions]
         /\ held' \in [Goroutines -> [Sessions -> UsageSession]]
         /\ txn' \in [Goroutines -> BillingChunk \cup
              [session : {0} \cup Sessions, sequence : {0}, from : {0}, to : {0}]]
         /\ pc' \in [Goroutines -> {"idle", "fetch", "item", "stamp", "commit"}]
<1>1. todo' \in [Goroutines -> SUBSET Sessions]
  BY DEF Advance, TypeOK
<1>2. held' \in [Goroutines -> [Sessions -> UsageSession]]
  <2>1. [held[p] EXCEPT ![s] = Absent] \in [Sessions -> UsageSession]
    BY AbsentType DEF TypeOK
  <2> QED BY <2>1 DEF Advance, TypeOK
<1>3. NoTxn \in [session : {0} \cup Sessions, sequence : {0}, from : {0}, to : {0}]
  BY DEF NoTxn
<1>4. pc' \in [Goroutines -> {"idle", "fetch", "item", "stamp", "commit"}]
  BY DEF Advance, TypeOK
<1> QED BY <1>1, <1>2, <1>3, <1>4 DEF Advance, TypeOK
-----------------------------------------------------------------------------
(* Types. *)

LEMMA InitType == Init => TypeOK
<1> SUFFICES ASSUME Init PROVE TypeOK
  OBVIOUS
<1>1. NoTxn \in [session : {0} \cup Sessions, sequence : {0}, from : {0}, to : {0}]
  BY DEF NoTxn
<1>2. [s \in Sessions |-> Absent] \in [Sessions -> UsageSession]
  BY AbsentType
<1> QED BY <1>1, <1>2 DEF Init, TypeOK

(* The goroutine of a transaction that may commit has a chunk of its own. *)
ChunkReady == \A p \in Goroutines : pc[p] = "commit" => txn[p] \in BillingChunk

(* The session whose turn it is. *)
StampReady == \A p \in Goroutines : pc[p] = "stamp" => txn[p].session \in Sessions

LEMMA ScannerType ==
  ASSUME TypeOK, ChunkReady, NEW p \in Scanners,
         ScannerStep(p) \/ ScanError(p) \/ ScanAbort(p)
  PROVE  TypeOK'
<1>0. p \in Goroutines
  BY DEF Goroutines
<1>1. CASE ScanNothing(p)
  BY <1>1 DEF ScanNothing, vars, TypeOK
<1>2. CASE ScanCount(p)
  BY <1>2, <1>0 DEF ScanCount, db, TypeOK
<1>3. CASE ScanFetch(p)
  <2>1. PICK B \in UnbilledAfterCursor(p) :
          /\ todo' = [todo EXCEPT ![p] = B]
          /\ held' = [held EXCEPT ![p] =
               [s \in Sessions |-> IF s \in B THEN sessions[s] ELSE Absent]]
          /\ pc' = [pc EXCEPT ![p] = IF B = {} THEN "idle" ELSE "item"]
    BY <1>3 DEF ScanFetch
  <2>2. B \subseteq Sessions
    BY <2>1, WorkLists DEF Active
  <2>3. [s \in Sessions |-> IF s \in B THEN sessions[s] ELSE Absent]
          \in [Sessions -> UsageSession]
    BY AbsentType DEF TypeOK
  <2>4. todo' \in [Goroutines -> SUBSET Sessions]
    BY <2>1, <2>2, <1>0 DEF TypeOK
  <2>5. held' \in [Goroutines -> [Sessions -> UsageSession]]
    BY <2>1, <2>3, <1>0 DEF TypeOK
  <2>6. pc' \in [Goroutines -> {"idle", "fetch", "item", "stamp", "commit"}]
    BY <2>1, <1>0 DEF TypeOK
  <2> QED BY <1>3, <2>4, <2>5, <2>6 DEF ScanFetch, db, TypeOK
<1>4. CASE ScanBegin(p)
  <2>1. PICK s \in todo[p] :
          txn' = [txn EXCEPT ![p] =
                    NewChunk(s, held[p][s], PeriodEnd(p, held[p][s]))]
    BY <1>4, WorkLists DEF ScanBegin
  <2>2. s \in Sessions /\ held[p][s] \in UsageSession
    BY <1>0, <2>1 DEF TypeOK
  <2>3. PeriodEnd(p, held[p][s]) \in Int
    BY <2>2, PeriodEndType DEF TypeOK
  <2>4. NewChunk(s, held[p][s], PeriodEnd(p, held[p][s])) \in BillingChunk
    BY <2>2, <2>3, NewChunkType
  <2> QED BY <1>4, <1>0, <2>1, <2>4 DEF ScanBegin, db, TypeOK
<1>5. CASE ScanCommit(p)
  <2>1. txn[p] \in BillingChunk /\ txn[p].session \in Sessions
    BY <1>5, <1>0 DEF ScanCommit, ChunkReady, BillingChunk
  <2>2. BilledRow(sessions[txn[p].session], txn[p]) \in UsageSession
    BY <2>1, RowTypes DEF TypeOK
  <2>3. sessions' \in [Sessions -> UsageSession] /\ outbox' \in Seq(BillingChunk)
    BY <1>5, <2>1, <2>2, CommitTxType DEF ScanCommit
  <2>4. Advance(p, txn[p].session, "item", "fetch")
    BY <1>5 DEF ScanCommit
  <2>5. cursor' \in [Goroutines -> Nat]
    BY <1>5, <1>0, <2>1, SessionsAssumption DEF ScanCommit, TypeOK
  <2> QED BY <1>5, <1>0, <2>1, <2>3, <2>4, <2>5, AdvanceType DEF ScanCommit, TypeOK
<1>6. CASE ScanError(p)
  <2>1. faults' \in Nat
    <3>1. faults' = faults + 1
      BY <1>6 DEF ScanError, Fault
    <3> QED BY <3>1 DEF TypeOK
  <2>2. CASE /\ pc[p] = "item"
             /\ \E s \in FirstOf(todo[p], LAMBDA a, b : a <= b) :
                  Advance(p, s, "item", "fetch")
             /\ UNCHANGED db
    <3>1. PICK s \in todo[p] : Advance(p, s, "item", "fetch")
      BY <2>2, WorkLists
    <3>2. s \in Sessions
      BY <1>0, <3>1 DEF TypeOK
    <3> QED BY <1>6, <1>0, <2>1, <2>2, <3>1, <3>2, AdvanceType
            DEF ScanError, db, TypeOK
  <2>3. CASE /\ pc[p] = "commit"
             /\ Advance(p, txn[p].session, "item", "fetch")
             /\ \/ UNCHANGED db
                \/ CommitTx(txn[p], BilledRow(sessions[txn[p].session], txn[p]))
    <3>1. txn[p] \in BillingChunk /\ txn[p].session \in Sessions
      BY <2>3, <1>0 DEF ChunkReady, BillingChunk
    <3>2. BilledRow(sessions[txn[p].session], txn[p]) \in UsageSession
      BY <3>1, RowTypes DEF TypeOK
    <3>3. sessions' \in [Sessions -> UsageSession] /\ outbox' \in Seq(BillingChunk)
      BY <2>3, <3>1, <3>2, CommitTxType DEF db, TypeOK
    <3> QED BY <1>6, <1>0, <2>1, <2>3, <3>1, <3>3, AdvanceType DEF ScanError, TypeOK
  <2> QED BY <1>6, <2>2, <2>3 DEF ScanError
<1>7. CASE ScanAbort(p)
  BY <1>7, <1>0 DEF ScanAbort, Fault, db, TypeOK
<1>8. CASE ScanSkip(p)
  <2>1. PICK s \in todo[p] : Advance(p, s, "item", "fetch")
    BY <1>8, WorkLists DEF ScanSkip
  <2>2. s \in Sessions
    BY <1>0, <2>1 DEF TypeOK
  <2> QED BY <1>8, <1>0, <2>1, <2>2, AdvanceType DEF ScanSkip, db, TypeOK
<1> QED BY <1>1, <1>2, <1>3, <1>4, <1>5, <1>6, <1>7, <1>8 DEF ScannerStep

LEMMA FinisherType ==
  ASSUME TypeOK, ChunkReady, StampReady, NEW p \in Finishers,
         FinisherStep(p) \/ FinishError(p) \/ FinishAbort(p)
  PROVE  TypeOK'
<1>0. p \in Goroutines
  BY DEF Goroutines
<1>b. BatchEnd(p) \in {"idle", "fetch", "item"}
  BY DEF BatchEnd
<1>1. CASE FinishNothing(p)
  BY <1>1 DEF FinishNothing, vars, TypeOK
<1>2. CASE FinishCount(p)
  BY <1>2, <1>0 DEF FinishCount, db, TypeOK
<1>3. CASE FinishFetch(p)
  <2>1. PICK B \in ActiveSessionIDs :
          /\ todo' = [todo EXCEPT ![p] = B]
          /\ more' = [more EXCEPT ![p] = Cardinality(B) = FinishBatch]
          /\ pc' = [pc EXCEPT ![p] = IF B = {} THEN "idle" ELSE "item"]
    BY <1>3 DEF FinishFetch
  <2>2. B \subseteq Sessions
    BY <2>1, WorkLists DEF Active
  <2>3. todo' \in [Goroutines -> SUBSET Sessions]
    BY <2>1, <2>2, <1>0 DEF TypeOK
  <2>4. more' \in [Goroutines -> BOOLEAN]
    BY <2>1, <1>0, Zenon DEF TypeOK
  <2>5. pc' \in [Goroutines -> {"idle", "fetch", "item", "stamp", "commit"}]
    BY <2>1, <1>0 DEF TypeOK
  <2> QED BY <1>3, <2>3, <2>4, <2>5 DEF FinishFetch, db, TypeOK
<1>4. CASE FinishRead(p)
  <2>1. PICK s \in todo[p] :
          /\ held' = [held EXCEPT ![p] = [@ EXCEPT ![s] = sessions[s]]]
          /\ txn' = [txn EXCEPT ![p] = [NoTxn EXCEPT !.session = s]]
    BY <1>4, WorkLists DEF FinishRead
  <2>2. s \in Sessions
    BY <1>0, <2>1 DEF TypeOK
  <2>3. [NoTxn EXCEPT !.session = s]
          \in [session : {0} \cup Sessions, sequence : {0}, from : {0}, to : {0}]
    BY <2>2 DEF NoTxn
  <2>4. [held[p] EXCEPT ![s] = sessions[s]] \in [Sessions -> UsageSession]
    BY <1>0, <2>2 DEF TypeOK
  <2>5. held' \in [Goroutines -> [Sessions -> UsageSession]]
    BY <2>1, <2>4 DEF TypeOK
  <2> QED BY <1>4, <1>0, <2>1, <2>3, <2>5 DEF FinishRead, db, TypeOK
<1>5. CASE FinishStamp(p)
  <2>1. txn[p].session \in Sessions
    BY <1>5, <1>0 DEF FinishStamp, StampReady
  <2>2. NewChunk(txn[p].session, held[p][txn[p].session], Clock(p)) \in BillingChunk
    <3>1. held[p][txn[p].session] \in UsageSession /\ Clock(p) \in Int
      BY <2>1, <1>0, ClockType DEF TypeOK
    <3> QED BY <2>1, <3>1, NewChunkType
  <2> QED BY <1>5, <1>0, <2>2 DEF FinishStamp, db, TypeOK
<1>6. CASE FinishCommit(p)
  <2>1. txn[p] \in BillingChunk /\ txn[p].session \in Sessions
    BY <1>6, <1>0 DEF FinishCommit, ChunkReady, BillingChunk
  <2>2. CompletedRow(sessions[txn[p].session], txn[p]) \in UsageSession
    BY <2>1, RowTypes DEF TypeOK
  <2>3. sessions' \in [Sessions -> UsageSession] /\ outbox' \in Seq(BillingChunk)
    BY <1>6, <2>1, <2>2, CommitTxType DEF FinishCommit
  <2>4. Advance(p, txn[p].session, "item", BatchEnd(p))
    BY <1>6 DEF FinishCommit
  <2> QED BY <1>6, <1>0, <1>b, <2>1, <2>3, <2>4, AdvanceType DEF FinishCommit, TypeOK
<1>7. CASE FinishError(p)
  <2>0. now' = now /\ cursor' = cursor /\ more' = more
    BY <1>7 DEF FinishError
  <2>1. faults' \in Nat
    <3>1. faults' = faults + 1
      BY <1>7 DEF FinishError, Fault
    <3> QED BY <3>1 DEF TypeOK
  <2>2. CASE /\ pc[p] = "item"
             /\ \E s \in FirstOf(todo[p], LAMBDA a, b :
                              sessions[a].startAt <= sessions[b].startAt) :
                  Advance(p, s, "item", BatchEnd(p))
             /\ UNCHANGED db
    <3>1. PICK s \in todo[p] : Advance(p, s, "item", BatchEnd(p))
      BY <2>2, WorkLists
    <3>2. s \in Sessions
      BY <1>0, <3>1 DEF TypeOK
    <3>3. sessions' = sessions /\ outbox' = outbox
      BY <2>2 DEF db
    <3> QED BY <1>0, <1>b, <2>0, <2>1, <3>1, <3>2, <3>3, AdvanceType DEF TypeOK
  <2>3. CASE /\ pc[p] \in {"stamp", "commit"}
             /\ Advance(p, txn[p].session, "item", BatchEnd(p))
             /\ \/ UNCHANGED db
                \/ /\ pc[p] = "commit"
                   /\ CommitTx(txn[p], CompletedRow(sessions[txn[p].session], txn[p]))
    <3>1. txn[p].session \in Sessions
      BY <2>3, <1>0 DEF ChunkReady, StampReady, BillingChunk
    <3>2. sessions' \in [Sessions -> UsageSession] /\ outbox' \in Seq(BillingChunk)
      <4>1. CASE UNCHANGED db
        BY <4>1 DEF db, TypeOK
      <4>2. CASE /\ pc[p] = "commit"
                 /\ CommitTx(txn[p], CompletedRow(sessions[txn[p].session], txn[p]))
        <5>1. txn[p] \in BillingChunk
          BY <4>2, <1>0 DEF ChunkReady
        <5>2. CompletedRow(sessions[txn[p].session], txn[p]) \in UsageSession
          BY <3>1, <5>1, RowTypes DEF TypeOK
        <5> QED BY <4>2, <5>1, <5>2, CommitTxType
      <4> QED BY <2>3, <4>1, <4>2
    <3> QED BY <1>0, <1>b, <2>0, <2>1, <2>3, <3>1, <3>2, AdvanceType DEF TypeOK
  <2> QED BY <1>7, <2>2, <2>3 DEF FinishError
<1>8. CASE FinishAbort(p)
  BY <1>8, <1>0 DEF FinishAbort, Fault, db, TypeOK
<1>9. CASE FinishSkip(p)
  <2>1. PICK s \in todo[p] : Advance(p, s, "item", BatchEnd(p))
    BY <1>9, WorkLists DEF FinishSkip
  <2>2. s \in Sessions
    BY <1>0, <2>1 DEF TypeOK
  <2>3. UNCHANGED <<now, sessions, outbox, cursor, more, faults>>
    BY <1>9 DEF FinishSkip, db
  <2> QED BY <1>0, <1>b, <2>1, <2>2, <2>3, AdvanceType DEF TypeOK
<1> QED BY <1>1, <1>2, <1>3, <1>4, <1>5, <1>6, <1>7, <1>8, <1>9 DEF FinisherStep

LEMMA OtherType ==
  ASSUME TypeOK,
         \/ Tick
         \/ GenerateBulkActiveSessions
         \/ \E h \in Hosts : Crash(h)
         \/ UNCHANGED vars
  PROVE  TypeOK'
<1>1. CASE Tick
  BY <1>1 DEF Tick, db, local, TypeOK
<1>2. CASE GenerateBulkActiveSessions
  <2>1. PICK s \in Sessions, age \in StartAges : CreateSession(s, now - age)
    BY <1>2 DEF GenerateBulkActiveSessions
  <2>2. [status |-> "SESSION_ACTIVE", startAt |-> now - age, endAt |-> Null,
         lastBilledAt |-> now - age, billingSequence |-> 0] \in UsageSession
    BY AgesAssumption DEF TypeOK, UsageSession, Status
  <2> QED BY <2>1, <2>2 DEF CreateSession, local, TypeOK
<1>3. CASE \E h \in Hosts : Crash(h)
  <2>1. PICK h \in Hosts : Crash(h)
    BY <1>3
  <2>2. NoTxn \in [session : {0} \cup Sessions, sequence : {0}, from : {0}, to : {0}]
    BY DEF NoTxn
  <2>3. [s \in Sessions |-> Absent] \in [Sessions -> UsageSession]
    BY AbsentType
  <2>4. more' \in [Goroutines -> BOOLEAN]
    BY <2>1, Zenon DEF Crash, TypeOK
  <2>5. todo' \in [Goroutines -> SUBSET Sessions] /\ cursor' \in [Goroutines -> Nat]
    BY <2>1 DEF Crash, TypeOK
  <2>6. held' \in [Goroutines -> [Sessions -> UsageSession]]
    BY <2>1, <2>3 DEF Crash, TypeOK
  <2>7. pc' \in [Goroutines -> {"idle", "fetch", "item", "stamp", "commit"}]
    BY <2>1 DEF Crash, TypeOK
  <2>8. txn' \in [Goroutines -> BillingChunk \cup
          [session : {0} \cup Sessions, sequence : {0}, from : {0}, to : {0}]]
    BY <2>1, <2>2 DEF Crash, TypeOK
  <2>9. faults' \in Nat
    BY <2>1 DEF Crash, Fault, TypeOK
  <2> QED BY <2>1, <2>4, <2>5, <2>6, <2>7, <2>8, <2>9 DEF Crash, db, TypeOK
<1>4. CASE UNCHANGED vars
  BY <1>4 DEF vars, TypeOK
<1> QED BY <1>1, <1>2, <1>3, <1>4
-----------------------------------------------------------------------------
(* The outbox only grows, and so does what it covers. *)

LEMMA CoverageGrows ==
  ASSUME NEW chunks \in Seq(BillingChunk), NEW c \in BillingChunk
  PROVE  /\ \A s, a, b : BilledThroughout(chunks, s, a, b) =>
                         BilledThroughout(Append(chunks, c), s, a, b)
         /\ \A s, n : HasChunk(chunks, s, n) => HasChunk(Append(chunks, c), s, n)
<1>1. \A i \in DOMAIN chunks : /\ i \in DOMAIN Append(chunks, c)
                              /\ Append(chunks, c)[i] = chunks[i]
  OBVIOUS
<1>2. \A s, n : HasChunk(chunks, s, n) => HasChunk(Append(chunks, c), s, n)
  BY <1>1 DEF HasChunk
<1>3. \A s, n : Billed(chunks, s, n) => Billed(Append(chunks, c), s, n)
  BY <1>1 DEF Billed
<1> QED BY <1>2, <1>3 DEF BilledThroughout

(* A chunk that begins no later than where the coverage ends extends it to *)
(* the chunk's own end.                                                    *)
LEMMA ChunkExtends ==
  ASSUME NEW chunks \in Seq(BillingChunk), NEW c \in BillingChunk,
         NEW a \in Int, BilledThroughout(chunks, c.session, a, c.from)
  PROVE  /\ BilledThroughout(Append(chunks, c), c.session, a, c.to)
         /\ HasChunk(Append(chunks, c), c.session, c.sequence)
<1>1. /\ Len(chunks) + 1 \in DOMAIN Append(chunks, c)
      /\ Append(chunks, c)[Len(chunks) + 1] = c
  OBVIOUS
<1>2. c.from \in Int /\ c.to \in Int
  BY DEF BillingChunk
<1>3. BilledThroughout(Append(chunks, c), c.session, a, c.from)
  BY CoverageGrows
<1>4. \A n \in Int : c.from <= n /\ n < c.to => Billed(Append(chunks, c), c.session, n)
  BY <1>1 DEF Billed
<1>5. ASSUME NEW n \in a .. (c.to - 1)
      PROVE  Billed(Append(chunks, c), c.session, n)
  <2>1. CASE n < c.from
    BY <1>2, <1>3, <2>1 DEF BilledThroughout
  <2>2. CASE c.from <= n
    BY <1>2, <1>4, <2>2
  <2> QED BY <1>2, <2>1, <2>2
<1> QED BY <1>1, <1>5 DEF BilledThroughout, HasChunk

(* What every step does to the tables: rows stay, with the start of their  *)
(* session, and the outbox covers no less.                                 *)
Extends ==
  /\ \A s \in Sessions : Present(sessions[s]) =>
       Present(sessions'[s]) /\ sessions'[s].startAt = sessions[s].startAt
  /\ \A s, a, b : BilledThroughout(outbox, s, a, b) => BilledThroughout(outbox', s, a, b)
  /\ \A s, n : HasChunk(outbox, s, n) => HasChunk(outbox', s, n)

LEMMA DbUnchanged ==
  ASSUME IndInv, sessions' = sessions, outbox' = outbox
  PROVE  Extends /\ RowsBacked' /\ NoSequenceHole'
BY DEF IndInv, Extends, RowsBacked, NoSequenceHole, Backed

(* A goroutine that does not move stays safe. *)
LEMMA OthersSafe ==
  ASSUME IndInv, Extends, NEW q \in Goroutines,
         pc'[q] = pc[q], todo'[q] = todo[q], held'[q] = held[q], txn'[q] = txn[q]
  PROVE  Safe(q)'
<1> USE DEF IndInv, Safe
<1>1. CopiesBacked(q)'
  BY DEF CopiesBacked, Backed, Extends
<1>2. TxnBacked(q)'
  <2>1. pc[q] = "commit" => txn[q].session \in Sessions
    BY DEF TxnBacked, BillingChunk
  <2> QED BY <2>1 DEF TxnBacked, Extends
<1>3. BatchHeld(q)'
  BY DEF BatchHeld, Extends, TypeOK
<1> QED BY <1>1, <1>2, <1>3

(* A goroutine that goes on with its batch is safe. *)
LEMMA AdvanceSafe ==
  ASSUME IndInv, Extends, NEW p \in Goroutines, NEW s \in Sessions,
         NEW again \in {"idle", "fetch", "item"},
         NEW next \in {"idle", "fetch", "item"},
         Advance(p, s, again, next)
  PROVE  \A q \in Goroutines : Safe(q)'
<1> USE DEF IndInv
<1>1. ASSUME NEW q \in Goroutines, q # p
      PROVE  Safe(q)'
  <2>1. pc'[q] = pc[q] /\ todo'[q] = todo[q] /\ held'[q] = held[q] /\ txn'[q] = txn[q]
    BY <1>1 DEF Advance, TypeOK
  <2> QED BY <2>1, OthersSafe
<1>2. /\ todo'[p] = todo[p] \ {s}
      /\ \A r \in Sessions : held'[p][r] = IF r = s THEN Absent ELSE held[p][r]
      /\ pc'[p] \in {"idle", "fetch", "item"}
  BY DEF Advance, TypeOK
<1>3. CopiesBacked(p)'
  <2>1. ~ Present(Absent)
    BY DEF Absent, Present
  <2> QED BY <1>2, <2>1 DEF CopiesBacked, Backed, Extends, Safe
<1>4. BatchHeld(p)'
  BY <1>2 DEF BatchHeld, Extends, Safe, TypeOK
<1> QED BY <1>1, <1>2, <1>3, <1>4 DEF Safe, TxnBacked
(* Committing a backed chunk keeps the tables backed, whichever of the two *)
(* UPDATE statements goes with it.                                         *)
LEMMA CommitBacked ==
  ASSUME IndInv, NEW p \in Goroutines, pc[p] = "commit",
         \/ CommitTx(txn[p], BilledRow(sessions[txn[p].session], txn[p]))
         \/ CommitTx(txn[p], CompletedRow(sessions[txn[p].session], txn[p]))
  PROVE  Extends /\ RowsBacked' /\ NoSequenceHole'
<1> DEFINE c == txn[p]
           s == c.session
           old == sessions[s]
           new == sessions'[s]
<1>1. /\ c \in BillingChunk /\ s \in Sessions /\ c.from \in Int /\ c.to \in Int
      /\ c.sequence \in Nat /\ c.sequence > 0
  BY DEF IndInv, Safe, TxnBacked, BillingChunk
<1>2. /\ Present(old)
      /\ BilledThroughout(outbox, s, old.startAt, c.from)
      /\ c.sequence > 1 => HasChunk(outbox, s, c.sequence - 1)
  BY DEF IndInv, Safe, TxnBacked
<1>3. old \in UsageSession /\ old.startAt \in Int /\ outbox \in Seq(BillingChunk)
  BY <1>1 DEF IndInv, TypeOK, UsageSession
<1>4. outbox' = Append(outbox, c)
  BY DEF CommitTx
<1>5. \A r \in Sessions : r # s => sessions'[r] = sessions[r]
  BY DEF CommitTx, IndInv, TypeOK
<1>6. new = BilledRow(old, c) \/ new = CompletedRow(old, c)
  BY <1>1 DEF CommitTx, IndInv, TypeOK
<1>7. /\ Present(new) /\ new.startAt = old.startAt
      /\ new.lastBilledAt = c.to /\ new.billingSequence = c.sequence
      /\ new.endAt = old.endAt \/ new.endAt = c.to
  <2>1. CASE new = BilledRow(old, c)
    BY <1>2, <1>3, <2>1 DEF BilledRow, UsageSession, Present
  <2>2. CASE new = CompletedRow(old, c)
    BY <1>2, <1>3, <2>2 DEF CompletedRow, BilledRow, UsageSession, Present
  <2> QED BY <1>6, <2>1, <2>2
<1>8. /\ \A r, a, b : BilledThroughout(outbox, r, a, b) =>
                      BilledThroughout(outbox', r, a, b)
      /\ \A r, n : HasChunk(outbox, r, n) => HasChunk(outbox', r, n)
  BY <1>1, <1>3, <1>4, CoverageGrows
<1>9. Extends
  BY <1>1, <1>5, <1>7, <1>8 DEF Extends
<1>10. /\ BilledThroughout(outbox', s, old.startAt, c.to)
       /\ HasChunk(outbox', s, c.sequence)
  BY <1>1, <1>2, <1>3, <1>4, ChunkExtends
<1>11. RowsBacked'
  <2>1. ASSUME NEW r \in Sessions, r # s, Present(sessions'[r])
        PROVE  /\ Backed(outbox', r, sessions'[r])
               /\ sessions'[r].endAt # Null =>
                    BilledThroughout(outbox', r, sessions'[r].startAt, sessions'[r].endAt)
    BY <1>5, <1>8, <2>1 DEF IndInv, RowsBacked, Backed
  <2>2. /\ Backed(outbox', s, new)
        /\ new.endAt # Null => BilledThroughout(outbox', s, new.startAt, new.endAt)
    BY <1>1, <1>2, <1>7, <1>8, <1>10 DEF IndInv, RowsBacked, Backed
  <2> QED BY <2>1, <2>2 DEF RowsBacked
<1>12. NoSequenceHole'
  <2> SUFFICES ASSUME NEW i \in DOMAIN outbox', outbox'[i].sequence > 1
               PROVE  HasChunk(outbox', outbox'[i].session, outbox'[i].sequence - 1)
    BY DEF NoSequenceHole
  <2>1. CASE i \in DOMAIN outbox
    <3>1. outbox'[i] = outbox[i]
      BY <1>3, <1>4, <2>1
    <3> QED BY <1>8, <2>1, <3>1 DEF IndInv, NoSequenceHole
  <2>2. CASE i \notin DOMAIN outbox
    <3>1. outbox'[i] = c
      BY <1>3, <1>4, <2>2
    <3> QED BY <1>2, <1>8, <3>1
  <2> QED BY <2>1, <2>2
<1> QED BY <1>9, <1>11, <1>12
-----------------------------------------------------------------------------
(* Every step keeps the invariant. *)

Stepped == Extends /\ RowsBacked' /\ NoSequenceHole' /\ \A p \in Goroutines : Safe(p)'

(* A step of goroutine p that only reads the tables. *)
LEMMA LocalStep ==
  ASSUME IndInv, NEW p \in Goroutines, sessions' = sessions, outbox' = outbox,
         \A q \in Goroutines \ {p} :
           /\ pc'[q] = pc[q] /\ todo'[q] = todo[q]
           /\ held'[q] = held[q] /\ txn'[q] = txn[q],
         Safe(p)'
  PROVE  Stepped
<1>1. Extends /\ RowsBacked' /\ NoSequenceHole'
  BY DbUnchanged
<1>2. \A q \in Goroutines \ {p} : Safe(q)'
  BY <1>1, OthersSafe
<1> QED BY <1>1, <1>2 DEF Stepped

LEMMA ScannerSafe ==
  ASSUME IndInv, NEW p \in Scanners,
         ScannerStep(p) \/ ScanError(p) \/ ScanAbort(p)
  PROVE  Stepped
<1> USE DEF IndInv
<1>0. p \in Goroutines /\ p \notin Finishers
  BY GoroutinesAssumption DEF Goroutines
<1>t. TypeOK
  OBVIOUS
<1>1. CASE ScanNothing(p)
  <2>1. UNCHANGED vars
    BY <1>1 DEF ScanNothing
  <2>2. Extends /\ RowsBacked' /\ NoSequenceHole'
    BY <2>1, DbUnchanged DEF vars
  <2> QED BY <2>1, <2>2, OthersSafe DEF vars, Stepped
<1>2. CASE ScanCount(p)
  <2>1. /\ pc' = [pc EXCEPT ![p] = "fetch"]
        /\ todo' = todo /\ held' = held /\ txn' = txn
        /\ sessions' = sessions /\ outbox' = outbox
    BY <1>2 DEF ScanCount, db
  <2>2. Safe(p)'
    BY <2>1, <1>0, <1>t DEF TypeOK, Safe, CopiesBacked, TxnBacked, BatchHeld, Backed
  <2> QED BY <2>1, <2>2, <1>0, <1>t, LocalStep DEF TypeOK
<1>3. CASE ScanFetch(p)
  <2>1. PICK B \in UnbilledAfterCursor(p) :
          /\ todo' = [todo EXCEPT ![p] = B]
          /\ held' = [held EXCEPT ![p] =
               [s \in Sessions |-> IF s \in B THEN sessions[s] ELSE Absent]]
          /\ pc' = [pc EXCEPT ![p] = IF B = {} THEN "idle" ELSE "item"]
    BY <1>3 DEF ScanFetch
  <2>2. sessions' = sessions /\ outbox' = outbox /\ txn' = txn
    BY <1>3 DEF ScanFetch, db
  <2>3. \A s \in B : s \in Sessions /\ Present(sessions[s])
    BY <2>1, WorkLists DEF Active, Present
  <2>4. /\ todo'[p] = B
        /\ \A s \in Sessions : held'[p][s] = IF s \in B THEN sessions[s] ELSE Absent
        /\ pc'[p] \in {"idle", "item"}
    BY <2>1, <1>0, <1>t DEF TypeOK
  <2>5. CopiesBacked(p)'
    <3>1. ~ Present(Absent)
      BY DEF Absent, Present
    <3> QED BY <2>2, <2>3, <2>4, <3>1 DEF CopiesBacked, RowsBacked
  <2>6. BatchHeld(p)'
    BY <1>0, <2>3, <2>4 DEF BatchHeld
  <2>7. Safe(p)'
    BY <2>4, <2>5, <2>6 DEF Safe, TxnBacked
  <2> QED BY <2>1, <2>2, <2>7, <1>0, <1>t, LocalStep DEF TypeOK
<1>4. CASE ScanBegin(p)
  <2>1. PICK s \in todo[p] :
          txn' = [txn EXCEPT ![p] =
                    NewChunk(s, held[p][s], PeriodEnd(p, held[p][s]))]
    BY <1>4, WorkLists DEF ScanBegin
  <2>2. /\ sessions' = sessions /\ outbox' = outbox /\ held' = held /\ todo' = todo
        /\ pc' = [pc EXCEPT ![p] = "commit"]
    BY <1>4 DEF ScanBegin, db
  <2>3. s \in Sessions /\ held[p][s] \in UsageSession /\ Present(held[p][s])
    BY <1>0, <2>1, <1>t DEF TypeOK, Safe, BatchHeld
  <2>4. NewChunk(s, held[p][s], PeriodEnd(p, held[p][s])) \in BillingChunk
    BY <2>3, <1>t, PeriodEndType, NewChunkType DEF TypeOK
  <2>5. /\ txn'[p] = NewChunk(s, held[p][s], PeriodEnd(p, held[p][s]))
        /\ pc'[p] = "commit"
    BY <1>0, <1>t, <2>1, <2>2 DEF TypeOK
  <2>6. /\ txn'[p].session = s
        /\ txn'[p].from = held[p][s].lastBilledAt
        /\ txn'[p].sequence = held[p][s].billingSequence + 1
        /\ held[p][s].billingSequence \in Nat
    BY <2>3, <2>5 DEF NewChunk, UsageSession
  <2>7. TxnBacked(p)'
    <3>1. /\ Backed(outbox, s, held[p][s]) /\ Present(sessions[s])
          /\ held[p][s].startAt = sessions[s].startAt
      BY <1>0, <2>3 DEF Safe, CopiesBacked
    <3> QED BY <2>2, <2>4, <2>5, <2>6, <3>1 DEF TxnBacked, Backed
  <2>8. CopiesBacked(p)' /\ BatchHeld(p)'
    BY <1>0, <2>2, <2>5 DEF Safe, CopiesBacked, BatchHeld, Backed
  <2>9. Safe(p)'
    BY <2>7, <2>8 DEF Safe
  <2> QED BY <2>1, <2>2, <2>9, <1>0, <1>t, LocalStep DEF TypeOK
<1>5. CASE ScanCommit(p)
  <2>1. /\ pc[p] = "commit"
        /\ CommitTx(txn[p], BilledRow(sessions[txn[p].session], txn[p]))
        /\ Advance(p, txn[p].session, "item", "fetch")
    BY <1>5 DEF ScanCommit
  <2>2. Extends /\ RowsBacked' /\ NoSequenceHole'
    BY <1>0, <2>1, CommitBacked
  <2>3. txn[p].session \in Sessions
    BY <1>0, <2>1 DEF Safe, TxnBacked, BillingChunk
  <2> QED BY <1>0, <2>1, <2>2, <2>3, AdvanceSafe DEF Stepped
<1>6. CASE ScanError(p)
  <2>1. CASE /\ pc[p] = "item"
             /\ \E s \in FirstOf(todo[p], LAMBDA a, b : a <= b) :
                  Advance(p, s, "item", "fetch")
             /\ UNCHANGED db
    <3>1. PICK s \in todo[p] : Advance(p, s, "item", "fetch")
      BY <2>1, WorkLists
    <3>2. s \in Sessions
      BY <1>0, <1>t, <3>1 DEF TypeOK
    <3>3. Extends /\ RowsBacked' /\ NoSequenceHole'
      BY <2>1, DbUnchanged DEF db
    <3> QED BY <1>0, <3>1, <3>2, <3>3, AdvanceSafe DEF Stepped
  <2>2. CASE /\ pc[p] = "commit"
             /\ Advance(p, txn[p].session, "item", "fetch")
             /\ \/ UNCHANGED db
                \/ CommitTx(txn[p], BilledRow(sessions[txn[p].session], txn[p]))
    <3>1. txn[p].session \in Sessions
      BY <1>0, <2>2 DEF Safe, TxnBacked, BillingChunk
    <3>2. Extends /\ RowsBacked' /\ NoSequenceHole'
      BY <1>0, <2>2, DbUnchanged, CommitBacked DEF db
    <3> QED BY <1>0, <2>2, <3>1, <3>2, AdvanceSafe DEF Stepped
  <2> QED BY <1>6, <2>1, <2>2 DEF ScanError
<1>7. CASE ScanAbort(p)
  <2>1. /\ pc' = [pc EXCEPT ![p] = "idle"]
        /\ todo' = todo /\ held' = held /\ txn' = txn
        /\ sessions' = sessions /\ outbox' = outbox
    BY <1>7 DEF ScanAbort, db
  <2>2. Safe(p)'
    BY <2>1, <1>0, <1>t DEF TypeOK, Safe, CopiesBacked, TxnBacked, BatchHeld, Backed
  <2> QED BY <2>1, <2>2, <1>0, <1>t, LocalStep DEF TypeOK
<1>8. CASE ScanSkip(p)
  <2>1. PICK s \in todo[p] : Advance(p, s, "item", "fetch")
    BY <1>8, WorkLists DEF ScanSkip
  <2>2. s \in Sessions
    BY <1>0, <1>t, <2>1 DEF TypeOK
  <2>3. Extends /\ RowsBacked' /\ NoSequenceHole'
    BY <1>8, DbUnchanged DEF ScanSkip, db
  <2> QED BY <1>0, <2>1, <2>2, <2>3, AdvanceSafe DEF Stepped
<1> QED BY <1>1, <1>2, <1>3, <1>4, <1>5, <1>6, <1>7, <1>8 DEF ScannerStep

LEMMA FinisherSafe ==
  ASSUME IndInv, NEW p \in Finishers,
         FinisherStep(p) \/ FinishError(p) \/ FinishAbort(p)
  PROVE  Stepped
<1> USE DEF IndInv
<1>0. p \in Goroutines /\ p \notin Scanners
  BY GoroutinesAssumption DEF Goroutines
<1>t. TypeOK
  OBVIOUS
<1>b. BatchEnd(p) \in {"idle", "fetch", "item"}
  BY DEF BatchEnd
<1>1. CASE FinishNothing(p)
  <2>1. UNCHANGED vars
    BY <1>1 DEF FinishNothing
  <2>2. Extends /\ RowsBacked' /\ NoSequenceHole'
    BY <2>1, DbUnchanged DEF vars
  <2> QED BY <2>1, <2>2, OthersSafe DEF vars, Stepped
<1>2. CASE FinishCount(p) \/ FinishAbort(p)
  <2>1. /\ pc' = [pc EXCEPT ![p] = "fetch"] \/ pc' = [pc EXCEPT ![p] = "idle"]
        /\ todo' = todo /\ held' = held /\ txn' = txn
        /\ sessions' = sessions /\ outbox' = outbox
    BY <1>2 DEF FinishCount, FinishAbort, db
  <2>2. Safe(p)'
    BY <2>1, <1>0, <1>t DEF TypeOK, Safe, CopiesBacked, TxnBacked, BatchHeld, Backed
  <2> QED BY <2>1, <2>2, <1>0, <1>t, LocalStep DEF TypeOK
<1>3. CASE FinishFetch(p)
  <2>1. PICK B \in ActiveSessionIDs :
          /\ todo' = [todo EXCEPT ![p] = B]
          /\ pc' = [pc EXCEPT ![p] = IF B = {} THEN "idle" ELSE "item"]
    BY <1>3 DEF FinishFetch
  <2>2. sessions' = sessions /\ outbox' = outbox /\ txn' = txn /\ held' = held
    BY <1>3 DEF FinishFetch, db
  <2>3. \A s \in B : Present(sessions[s])
    BY <2>1, WorkLists DEF Active, Present
  <2>4. todo'[p] = B /\ pc'[p] \in {"idle", "item"}
    BY <2>1, <1>0, <1>t DEF TypeOK
  <2>5. Safe(p)'
    BY <1>0, <2>2, <2>3, <2>4 DEF Safe, CopiesBacked, TxnBacked, BatchHeld, Backed
  <2> QED BY <2>1, <2>2, <2>5, <1>0, <1>t, LocalStep DEF TypeOK
<1>4. CASE FinishRead(p)
  <2>1. PICK s \in todo[p] :
          /\ held' = [held EXCEPT ![p] = [@ EXCEPT ![s] = sessions[s]]]
          /\ txn' = [txn EXCEPT ![p] = [NoTxn EXCEPT !.session = s]]
    BY <1>4, WorkLists DEF FinishRead
  <2>2. /\ sessions' = sessions /\ outbox' = outbox /\ todo' = todo
        /\ pc' = [pc EXCEPT ![p] = "stamp"]
    BY <1>4 DEF FinishRead, db
  <2>3. s \in Sessions /\ Present(sessions[s])
    BY <1>0, <2>1, <1>t DEF TypeOK, Safe, BatchHeld
  <2>4. /\ \A r \in Sessions : held'[p][r] = IF r = s THEN sessions[s] ELSE held[p][r]
        /\ txn'[p].session = s
        /\ pc'[p] = "stamp"
    BY <1>0, <1>t, <2>1, <2>2, <2>3 DEF TypeOK, NoTxn
  <2>5. CopiesBacked(p)'
    BY <1>0, <2>2, <2>3, <2>4 DEF Safe, CopiesBacked, RowsBacked
  <2>6. BatchHeld(p)'
    BY <1>0, <2>2, <2>3, <2>4 DEF Safe, BatchHeld
  <2>7. Safe(p)'
    BY <2>4, <2>5, <2>6 DEF Safe, TxnBacked
  <2> QED BY <2>1, <2>2, <2>7, <1>0, <1>t, LocalStep DEF TypeOK
<1>5. CASE FinishStamp(p)
  <2> DEFINE s == txn[p].session
  <2>1. /\ txn' = [txn EXCEPT ![p] = NewChunk(s, held[p][s], Clock(p))]
        /\ sessions' = sessions /\ outbox' = outbox /\ held' = held /\ todo' = todo
        /\ pc[p] = "stamp" /\ pc' = [pc EXCEPT ![p] = "commit"]
    BY <1>5 DEF FinishStamp, db
  <2>2. s \in Sessions /\ Present(held[p][s])
    BY <1>0, <2>1 DEF Safe, BatchHeld
  <2>3. held[p][s] \in UsageSession /\ Clock(p) \in Int
    BY <1>0, <2>2, <1>t, ClockType DEF TypeOK
  <2>4. NewChunk(s, held[p][s], Clock(p)) \in BillingChunk
    BY <2>2, <2>3, NewChunkType
  <2>5. txn'[p] = NewChunk(s, held[p][s], Clock(p)) /\ pc'[p] = "commit"
    BY <1>0, <1>t, <2>1 DEF TypeOK
  <2>6. /\ txn'[p].session = s
        /\ txn'[p].from = held[p][s].lastBilledAt
        /\ txn'[p].sequence = held[p][s].billingSequence + 1
        /\ held[p][s].billingSequence \in Nat
    BY <2>3, <2>5 DEF NewChunk, UsageSession
  <2>7. TxnBacked(p)'
    <3>1. /\ Backed(outbox, s, held[p][s]) /\ Present(sessions[s])
          /\ held[p][s].startAt = sessions[s].startAt
      BY <1>0, <2>2 DEF Safe, CopiesBacked
    <3>2. /\ txn'[p] \in BillingChunk /\ txn'[p].sequence > 0
          /\ txn'[p].sequence - 1 = held[p][s].billingSequence
      BY <2>4, <2>5, <2>6
    <3>3. /\ BilledThroughout(outbox, s, sessions[s].startAt, txn'[p].from)
          /\ txn'[p].sequence > 1 => HasChunk(outbox, s, txn'[p].sequence - 1)
      BY <2>6, <3>1, <3>2 DEF Backed
    <3> QED BY <2>1, <2>6, <3>1, <3>2, <3>3 DEF TxnBacked
  <2>8. CopiesBacked(p)' /\ BatchHeld(p)'
    BY <1>0, <2>1, <2>5 DEF Safe, CopiesBacked, BatchHeld, Backed
  <2>9. Safe(p)'
    BY <2>7, <2>8 DEF Safe
  <2> QED BY <2>1, <2>9, <1>0, <1>t, LocalStep DEF TypeOK
<1>6. CASE FinishCommit(p)
  <2>1. /\ pc[p] = "commit"
        /\ CommitTx(txn[p], CompletedRow(sessions[txn[p].session], txn[p]))
        /\ Advance(p, txn[p].session, "item", BatchEnd(p))
    BY <1>6 DEF FinishCommit
  <2>2. Extends /\ RowsBacked' /\ NoSequenceHole'
    BY <1>0, <2>1, CommitBacked
  <2>3. txn[p].session \in Sessions
    BY <1>0, <2>1 DEF Safe, TxnBacked, BillingChunk
  <2> QED BY <1>0, <1>b, <2>1, <2>2, <2>3, AdvanceSafe DEF Stepped
<1>7. CASE FinishError(p)
  <2>1. CASE /\ pc[p] = "item"
             /\ \E s \in FirstOf(todo[p], LAMBDA a, b :
                              sessions[a].startAt <= sessions[b].startAt) :
                  Advance(p, s, "item", BatchEnd(p))
             /\ UNCHANGED db
    <3>1. PICK s \in todo[p] : Advance(p, s, "item", BatchEnd(p))
      BY <2>1, WorkLists
    <3>2. s \in Sessions
      BY <1>0, <1>t, <3>1 DEF TypeOK
    <3>3. Extends /\ RowsBacked' /\ NoSequenceHole'
      BY <2>1, DbUnchanged DEF db
    <3> QED BY <1>0, <1>b, <3>1, <3>2, <3>3, AdvanceSafe DEF Stepped
  <2>2. CASE /\ pc[p] \in {"stamp", "commit"}
             /\ Advance(p, txn[p].session, "item", BatchEnd(p))
             /\ \/ UNCHANGED db
                \/ /\ pc[p] = "commit"
                   /\ CommitTx(txn[p], CompletedRow(sessions[txn[p].session], txn[p]))
    <3>1. txn[p].session \in Sessions
      BY <1>0, <2>2 DEF Safe, TxnBacked, BatchHeld, BillingChunk
    <3>2. Extends /\ RowsBacked' /\ NoSequenceHole'
      BY <1>0, <2>2, DbUnchanged, CommitBacked DEF db
    <3> QED BY <1>0, <1>b, <2>2, <3>1, <3>2, AdvanceSafe DEF Stepped
  <2> QED BY <1>7, <2>1, <2>2 DEF FinishError
<1>8. CASE FinishSkip(p)
  <2>1. PICK s \in todo[p] : Advance(p, s, "item", BatchEnd(p))
    BY <1>8, WorkLists DEF FinishSkip
  <2>2. s \in Sessions
    BY <1>0, <1>t, <2>1 DEF TypeOK
  <2>3. Extends /\ RowsBacked' /\ NoSequenceHole'
    BY <1>8, DbUnchanged DEF FinishSkip, db
  <2> QED BY <1>0, <1>b, <2>1, <2>2, <2>3, AdvanceSafe DEF Stepped
<1> QED BY <1>1, <1>2, <1>3, <1>4, <1>5, <1>6, <1>7, <1>8 DEF FinisherStep

LEMMA OtherSafe ==
  ASSUME IndInv,
         \/ Tick
         \/ GenerateBulkActiveSessions
         \/ \E h \in Hosts : Crash(h)
         \/ UNCHANGED vars
  PROVE  Stepped
<1> USE DEF IndInv
<1>1. CASE Tick \/ UNCHANGED vars
  <2>1. UNCHANGED <<db, local>>
    BY <1>1 DEF Tick, vars, db, local
  <2>2. Extends /\ RowsBacked' /\ NoSequenceHole'
    BY <2>1, DbUnchanged DEF db
  <2> QED BY <2>1, <2>2, OthersSafe DEF local, Stepped
<1>2. CASE GenerateBulkActiveSessions
  <2>1. PICK s \in Sessions, age \in StartAges : CreateSession(s, now - age)
    BY <1>2 DEF GenerateBulkActiveSessions
  <2>2. /\ outbox' = outbox /\ UNCHANGED local
        /\ ~ Present(sessions[s])
        /\ \A r \in Sessions : r # s => sessions'[r] = sessions[r]
        /\ sessions'[s].startAt = sessions'[s].lastBilledAt
        /\ sessions'[s].startAt = now - age
        /\ sessions'[s].billingSequence = 0
        /\ sessions'[s].endAt = Null
    BY <2>1 DEF CreateSession, Absent, Present, TypeOK
  <2>3. Extends
    BY <2>2 DEF Extends
  <2>4. now - age \in Int
    BY AgesAssumption DEF TypeOK
  <2>5. RowsBacked'
    <3>1. Backed(outbox, s, sessions'[s])
      BY <2>2, <2>4 DEF Backed, BilledThroughout
    <3> QED BY <2>2, <3>1 DEF RowsBacked, Backed
  <2>6. NoSequenceHole'
    BY <2>2 DEF NoSequenceHole
  <2> QED BY <2>2, <2>3, <2>5, <2>6, OthersSafe DEF local, Stepped
<1>3. CASE \E h \in Hosts : Crash(h)
  <2>1. PICK h \in Hosts : Crash(h)
    BY <1>3
  <2>2. Extends /\ RowsBacked' /\ NoSequenceHole'
    BY <2>1, DbUnchanged DEF Crash, db
  <2>3. ASSUME NEW q \in Goroutines, q \in h
        PROVE  Safe(q)'
    <3>1. /\ pc'[q] = "idle" /\ todo'[q] = {}
          /\ \A s \in Sessions : held'[q][s] = Absent
      BY <2>1, <2>3 DEF Crash
    <3>2. ~ Present(Absent)
      BY DEF Absent, Present
    <3> QED BY <3>1, <3>2 DEF Safe, CopiesBacked, TxnBacked, BatchHeld
  <2>4. ASSUME NEW q \in Goroutines, q \notin h
        PROVE  Safe(q)'
    <3>1. pc'[q] = pc[q] /\ todo'[q] = todo[q] /\ held'[q] = held[q] /\ txn'[q] = txn[q]
      BY <2>1, <2>4 DEF Crash
    <3> QED BY <2>2, <3>1, OthersSafe
  <2> QED BY <2>2, <2>3, <2>4 DEF Stepped
<1> QED BY <1>1, <1>2, <1>3

LEMMA InitSafe == Init => IndInv
<1> SUFFICES ASSUME Init PROVE IndInv
  OBVIOUS
<1>1. TypeOK
  BY InitType
<1>2. ~ Present(Absent)
  BY DEF Absent, Present
<1>3. RowsBacked
  BY <1>2 DEF Init, RowsBacked
<1>4. NoSequenceHole
  BY DEF Init, NoSequenceHole
<1>5. ASSUME NEW p \in Goroutines PROVE Safe(p)
  BY <1>2 DEF Init, Safe, CopiesBacked, TxnBacked, BatchHeld
<1> QED BY <1>1, <1>3, <1>4, <1>5 DEF IndInv

LEMMA NextSafe == IndInv /\ [Next]_vars => IndInv'
<1> SUFFICES ASSUME IndInv, [Next]_vars PROVE IndInv'
  OBVIOUS
<1>1. TypeOK /\ ChunkReady /\ StampReady
  BY DEF IndInv, Safe, TxnBacked, BatchHeld, ChunkReady, StampReady
<1>2. CASE \E p \in Scanners : ScannerStep(p) \/ ScanError(p) \/ ScanAbort(p)
  BY <1>1, <1>2, ScannerType, ScannerSafe DEF IndInv, Stepped
<1>3. CASE \E p \in Finishers : FinisherStep(p) \/ FinishError(p) \/ FinishAbort(p)
  BY <1>1, <1>3, FinisherType, FinisherSafe DEF IndInv, Stepped
<1>4. CASE \/ Tick
          \/ GenerateBulkActiveSessions
          \/ \E h \in Hosts : Crash(h)
  BY <1>1, <1>4, OtherType, OtherSafe DEF IndInv, Stepped
<1>5. CASE Next
  <2>1. \/ Tick
        \/ GenerateBulkActiveSessions
        \/ \E p \in Scanners : ScannerStep(p) \/ ScanError(p) \/ ScanAbort(p)
        \/ \E p \in Finishers : FinisherStep(p) \/ FinishError(p) \/ FinishAbort(p)
        \/ \E h \in Hosts : Crash(h)
    BY <1>5 DEF Next
  <2> QED BY <1>2, <1>3, <1>4, <2>1
<1>6. CASE UNCHANGED vars
  BY <1>1, <1>6, OtherType, OtherSafe DEF IndInv, Stepped
<1> QED BY <1>5, <1>6

LEMMA Invariance == Spec => []IndInv
BY InitSafe, NextSafe, PTL DEF Spec

(* All variables keep their types, for any number of sessions, replicas    *)
(* and failures: in particular a chunk that is committed names a session   *)
(* and spans two instants.                                                 *)
THEOREM TypeCorrect == Spec => []TypeOK
<1>1. IndInv => TypeOK
  BY DEF IndInv
<1> QED BY <1>1, Invariance, PTL

(* However scanners and finishers of any number of replicas race, fail and *)
(* crash, the outbox bills every session for all the time up to its        *)
(* last_billed_at and to its end.                                          *)
THEOREM UsageIsNotLost == Spec => []NoUsageGap
<1>1. IndInv => NoUsageGap
  BY DEF IndInv, RowsBacked, Backed, NoUsageGap
<1> QED BY <1>1, Invariance, PTL

(* However they race, the sequence numbers of a session have no hole.      *)
THEOREM SequencesAreDense == Spec => []NoSequenceHole
<1>1. IndInv => NoSequenceHole
  BY DEF IndInv
<1> QED BY <1>1, Invariance, PTL
-----------------------------------------------------------------------------
(* What a step of goroutine p does. *)

Moves(p) ==
  \/ p \in Scanners /\ (ScannerStep(p) \/ ScanError(p) \/ ScanAbort(p))
  \/ p \in Finishers /\ (FinisherStep(p) \/ FinishError(p) \/ FinishAbort(p))

(* Its transaction takes effect. *)
Bills(p) ==
  /\ pc[p] = "commit"
  /\ \/ /\ p \in Scanners
        /\ CommitTx(txn[p], BilledRow(sessions[txn[p].session], txn[p]))
     \/ /\ p \in Finishers
        /\ CommitTx(txn[p], CompletedRow(sessions[txn[p].session], txn[p]))

(* It has sessions of a batch before it. *)
Busy(p) == pc[p] \in {"item", "stamp", "commit"}

Fetched(p) ==
  /\ pc'[p] = "item" /\ todo'[p] \subseteq Active
  /\ UNCHANGED <<now, sessions>>
  /\ p \in Scanners => \A s \in todo'[p] :
       held'[p][s] = sessions[s] /\ sessions[s].lastBilledAt <= Clock(p)

Begun(p) ==
  /\ pc[p] = "item" /\ todo'[p] = todo[p]
  /\ UNCHANGED <<now, sessions>>
  /\ \E s \in todo[p] :
       \/ /\ p \in Scanners /\ pc'[p] = "commit"
          /\ held'[p] = held[p]
          /\ txn'[p] = NewChunk(s, held[p][s], PeriodEnd(p, held[p][s]))
       \/ /\ p \in Finishers /\ pc'[p] = "stamp"
          /\ txn'[p].session = s /\ held'[p][s] = sessions[s]

Stamped(p) ==
  /\ p \in Finishers /\ pc[p] = "stamp" /\ pc'[p] = "commit"
  /\ todo'[p] = todo[p] /\ held'[p] = held[p]
  /\ UNCHANGED <<now, sessions>>
  /\ txn'[p] = NewChunk(txn[p].session, held[p][txn[p].session], Clock(p))

Advanced(p) ==
  /\ Busy(p) /\ pc'[p] = "item"
  /\ \E s \in Sessions :
       /\ todo'[p] = todo[p] \ {s}
       /\ \A r \in Sessions \ {s} :
            held'[p][r] = held[p][r] /\ sessions'[r] = sessions[r]

LEMMA MovesLocal ==
  ASSUME TypeOK, NEW p \in Goroutines, Moves(p)
  PROVE  /\ now' = now
         /\ UNCHANGED db \/ Bills(p)
         /\ \A q \in Goroutines \ {p} : /\ pc'[q] = pc[q] /\ todo'[q] = todo[q]
                                       /\ held'[q] = held[q] /\ txn'[q] = txn[q]
<1>1. CASE p \in Scanners /\ (ScannerStep(p) \/ ScanError(p) \/ ScanAbort(p))
  <2>1. now' = now /\ (UNCHANGED db \/ Bills(p))
    BY <1>1 DEF ScannerStep, ScanNothing, ScanCount, ScanFetch, ScanBegin, ScanCommit,
                ScanSkip, ScanError, ScanAbort, Bills, vars, db
  <2>2. \A q \in Goroutines \ {p} : /\ pc'[q] = pc[q] /\ todo'[q] = todo[q]
                                   /\ held'[q] = held[q] /\ txn'[q] = txn[q]
    BY <1>1 DEF ScannerStep, ScanNothing, ScanCount, ScanFetch, ScanBegin, ScanCommit,
                ScanSkip, ScanError, ScanAbort, Advance, vars, TypeOK
  <2> QED BY <2>1, <2>2
<1>2. CASE p \in Finishers /\ (FinisherStep(p) \/ FinishError(p) \/ FinishAbort(p))
  <2>1. now' = now /\ (UNCHANGED db \/ Bills(p))
    BY <1>2 DEF FinisherStep, FinishNothing, FinishCount, FinishFetch, FinishRead,
                FinishStamp, FinishCommit, FinishSkip, FinishError, FinishAbort,
                Bills, vars, db
  <2>2. \A q \in Goroutines \ {p} : /\ pc'[q] = pc[q] /\ todo'[q] = todo[q]
                                   /\ held'[q] = held[q] /\ txn'[q] = txn[q]
    BY <1>2 DEF FinisherStep, FinishNothing, FinishCount, FinishFetch, FinishRead,
                FinishStamp, FinishCommit, FinishSkip, FinishError, FinishAbort,
                Advance, vars, TypeOK
  <2> QED BY <2>1, <2>2
<1> QED BY <1>1, <1>2 DEF Moves

(* Another session's row is not touched when a goroutine is done with one. *)
LEMMA AdvanceAdvances ==
  ASSUME TypeOK, NEW p \in Goroutines, NEW s \in Sessions, NEW next,
         Busy(p), Advance(p, s, "item", next), next \in {"idle", "fetch"},
         \/ UNCHANGED db
         \/ \E row : CommitTx(txn[p], row) /\ txn[p].session = s
  PROVE  Advanced(p) \/ pc'[p] \in {"idle", "fetch"}
<1>1. pc'[p] = "item" \/ pc'[p] \in {"idle", "fetch"}
  BY DEF Advance, TypeOK
<1>2. /\ todo'[p] = todo[p] \ {s}
      /\ \A r \in Sessions \ {s} : held'[p][r] = held[p][r]
  BY DEF Advance, TypeOK
<1>3. \A r \in Sessions \ {s} : sessions'[r] = sessions[r]
  BY DEF CommitTx, TypeOK, db
<1> QED BY <1>1, <1>2, <1>3 DEF Advanced

LEMMA BatchStep ==
  ASSUME TypeOK, ChunkReady, StampReady, NEW p \in Goroutines, Moves(p)
  PROVE  \/ Fetched(p) \/ Begun(p) \/ Stamped(p) \/ Advanced(p)
         \/ pc'[p] \in {"idle", "fetch"}
<1>0. /\ pc[p] = "commit" => txn[p].session \in Sessions
      /\ pc[p] = "stamp" => txn[p].session \in Sessions
      /\ todo[p] \subseteq Sessions
      /\ BatchEnd(p) \in {"idle", "fetch"}
  BY DEF ChunkReady, StampReady, BillingChunk, BatchEnd, TypeOK
<1>1. CASE \/ ScanNothing(p) \/ ScanCount(p) \/ ScanAbort(p)
           \/ FinishNothing(p) \/ FinishCount(p) \/ FinishAbort(p)
  BY <1>1 DEF ScanNothing, ScanCount, ScanAbort, FinishNothing, FinishCount, FinishAbort,
              vars, TypeOK
<1>2. CASE ScanFetch(p)
  <2>1. PICK B \in UnbilledAfterCursor(p) :
          /\ todo' = [todo EXCEPT ![p] = B]
          /\ held' = [held EXCEPT ![p] =
               [s \in Sessions |-> IF s \in B THEN sessions[s] ELSE Absent]]
          /\ pc' = [pc EXCEPT ![p] = IF B = {} THEN "idle" ELSE "item"]
          /\ UNCHANGED <<now, sessions>>
    BY <1>2 DEF ScanFetch, db
  <2>2. B \subseteq Active /\ B \subseteq Sessions /\ B \subseteq Unbilled(p)
    BY <2>1, WorkLists DEF Active
  <2>3. \A s \in B : sessions[s].lastBilledAt <= Clock(p)
    <3>1. \A s \in B : sessions[s].lastBilledAt \in Int
      BY <2>2 DEF TypeOK, UsageSession
    <3>2. \A s \in B : sessions[s].lastBilledAt < Clock(p) - Interval
      BY <2>2 DEF Unbilled
    <3>3. Clock(p) \in Int
      BY ClockAssumption DEF Clock, TypeOK
    <3> QED BY <3>1, <3>2, <3>3, IntervalAssumption
  <2>4. /\ todo'[p] = B /\ pc'[p] \in {"idle", "item"}
        /\ \A s \in B : held'[p][s] = sessions[s]
    BY <2>1, <2>2 DEF TypeOK
  <2> QED BY <2>1, <2>2, <2>3, <2>4 DEF Fetched
<1>3. CASE p \in Scanners /\ ScanBegin(p)
  <2>1. PICK s \in todo[p] :
          txn' = [txn EXCEPT ![p] =
                    NewChunk(s, held[p][s], PeriodEnd(p, held[p][s]))]
    BY <1>3, WorkLists DEF ScanBegin
  <2> QED BY <1>3, <2>1 DEF ScanBegin, Begun, TypeOK, db
<1>4. CASE ScanCommit(p)
  <2>1. /\ Busy(p) /\ Advance(p, txn[p].session, "item", "fetch")
        /\ \E row : CommitTx(txn[p], row)
        /\ txn[p].session \in Sessions
    BY <1>0, <1>4 DEF ScanCommit, Busy
  <2> QED BY <2>1, AdvanceAdvances
<1>5. CASE ScanSkip(p)
  <2>1. PICK s \in todo[p] : Advance(p, s, "item", "fetch")
    BY <1>5, WorkLists DEF ScanSkip
  <2>2. Busy(p) /\ UNCHANGED db
    BY <1>5 DEF ScanSkip, Busy
  <2> QED BY <1>0, <2>1, <2>2, AdvanceAdvances
<1>6. CASE ScanError(p)
  <2>1. CASE /\ pc[p] = "item"
             /\ \E s \in FirstOf(todo[p], LAMBDA a, b : a <= b) :
                  Advance(p, s, "item", "fetch")
             /\ UNCHANGED db
    <3>1. PICK s \in todo[p] : Advance(p, s, "item", "fetch")
      BY <2>1, WorkLists
    <3>2. Busy(p)
      BY <2>1 DEF Busy
    <3> QED BY <1>0, <2>1, <3>1, <3>2, AdvanceAdvances
  <2>2. CASE /\ pc[p] = "commit"
             /\ Advance(p, txn[p].session, "item", "fetch")
             /\ \/ UNCHANGED db
                \/ CommitTx(txn[p], BilledRow(sessions[txn[p].session], txn[p]))
    <3>1. Busy(p) /\ txn[p].session \in Sessions
      BY <1>0, <2>2 DEF Busy
    <3> QED BY <2>2, <3>1, AdvanceAdvances
  <2> QED BY <1>6, <2>1, <2>2 DEF ScanError
<1>7. CASE FinishFetch(p) /\ p \notin Scanners
  <2>1. PICK B \in ActiveSessionIDs :
          /\ todo' = [todo EXCEPT ![p] = B]
          /\ pc' = [pc EXCEPT ![p] = IF B = {} THEN "idle" ELSE "item"]
          /\ UNCHANGED <<now, sessions>>
    BY <1>7 DEF FinishFetch, db
  <2>2. B \subseteq Active
    BY <2>1, WorkLists
  <2>3. todo'[p] = B /\ pc'[p] \in {"idle", "item"}
    BY <2>1 DEF TypeOK
  <2> QED BY <1>7, <2>1, <2>2, <2>3 DEF Fetched
<1>8. CASE p \in Finishers /\ FinishRead(p)
  <2>1. PICK s \in todo[p] :
          /\ held' = [held EXCEPT ![p] = [@ EXCEPT ![s] = sessions[s]]]
          /\ txn' = [txn EXCEPT ![p] = [NoTxn EXCEPT !.session = s]]
    BY <1>8, WorkLists DEF FinishRead
  <2>2. /\ txn'[p].session = s /\ held'[p][s] = sessions[s]
        /\ s \in Sessions
    BY <1>0, <2>1 DEF TypeOK, NoTxn
  <2>3. /\ pc[p] = "item" /\ pc'[p] = "stamp" /\ todo'[p] = todo[p]
        /\ UNCHANGED <<now, sessions>>
    BY <1>8 DEF FinishRead, TypeOK, db
  <2> QED BY <1>8, <2>1, <2>2, <2>3 DEF Begun
<1>9. CASE p \in Finishers /\ FinishStamp(p)
  BY <1>9 DEF FinishStamp, Stamped, TypeOK, db
<1>10. CASE FinishCommit(p)
  <2>1. /\ Busy(p) /\ Advance(p, txn[p].session, "item", BatchEnd(p))
        /\ \E row : CommitTx(txn[p], row)
        /\ txn[p].session \in Sessions
    BY <1>0, <1>10 DEF FinishCommit, Busy
  <2> QED BY <1>0, <2>1, AdvanceAdvances
<1>11. CASE FinishSkip(p)
  <2>1. PICK s \in todo[p] : Advance(p, s, "item", BatchEnd(p))
    BY <1>11, WorkLists DEF FinishSkip
  <2>2. Busy(p) /\ UNCHANGED db
    BY <1>11 DEF FinishSkip, Busy
  <2> QED BY <1>0, <2>1, <2>2, AdvanceAdvances
<1>12. CASE FinishError(p)
  <2>1. CASE /\ pc[p] = "item"
             /\ \E s \in FirstOf(todo[p], LAMBDA a, b :
                              sessions[a].startAt <= sessions[b].startAt) :
                  Advance(p, s, "item", BatchEnd(p))
             /\ UNCHANGED db
    <3>1. PICK s \in todo[p] : Advance(p, s, "item", BatchEnd(p))
      BY <2>1, WorkLists
    <3>2. Busy(p)
      BY <2>1 DEF Busy
    <3> QED BY <1>0, <2>1, <3>1, <3>2, AdvanceAdvances
  <2>2. CASE /\ pc[p] \in {"stamp", "commit"}
             /\ Advance(p, txn[p].session, "item", BatchEnd(p))
             /\ \/ UNCHANGED db
                \/ /\ pc[p] = "commit"
                   /\ CommitTx(txn[p], CompletedRow(sessions[txn[p].session], txn[p]))
    <3>1. Busy(p) /\ txn[p].session \in Sessions
      BY <1>0, <2>2 DEF Busy
    <3> QED BY <1>0, <2>2, <3>1, AdvanceAdvances
  <2> QED BY <1>12, <2>1, <2>2 DEF FinishError
<1>13. p \in Finishers => p \notin Scanners
  BY GoroutinesAssumption
<1> QED BY <1>1, <1>2, <1>3, <1>4, <1>5, <1>6, <1>7, <1>8, <1>9, <1>10, <1>11, <1>12, <1>13
        DEF Moves, ScannerStep, FinisherStep
-----------------------------------------------------------------------------
(* The end of a session. *)

(* The sessions before goroutine p are still active. *)
Chosen(p) ==
  Busy(p) =>
    /\ \A s \in todo[p] : sessions[s].status = "SESSION_ACTIVE"
    /\ pc[p] # "item" => txn[p].session \in todo[p]

LEMMA ChosenKept ==
  ASSUME IndInv, NEW p \in Goroutines, Moves(p), Chosen(p)
  PROVE  Chosen(p)'
<1>1. /\ TypeOK /\ ChunkReady /\ StampReady
      /\ todo[p] \subseteq Sessions
  BY DEF IndInv, Safe, TxnBacked, BatchHeld, ChunkReady, StampReady, TypeOK
<1>2. CASE Fetched(p)
  BY <1>2 DEF Fetched, Chosen, Active
<1>3. CASE Begun(p)
  <2>1. \A s, r, t : NewChunk(s, r, t).session = s
    BY DEF NewChunk
  <2>2. txn'[p].session \in todo[p]
    BY <1>3, <2>1 DEF Begun
  <2> QED BY <1>3, <2>2 DEF Begun, Chosen, Busy
<1>4. CASE Stamped(p)
  <2>1. txn'[p].session = txn[p].session
    BY <1>4 DEF Stamped, NewChunk
  <2> QED BY <1>4, <2>1 DEF Stamped, Chosen, Busy
<1>5. CASE Advanced(p)
  BY <1>1, <1>5 DEF Advanced, Chosen
<1>6. CASE pc'[p] \in {"idle", "fetch"}
  BY <1>6 DEF Chosen, Busy
<1> QED BY <1>1, <1>2, <1>3, <1>4, <1>5, <1>6, BatchStep

OneFinisher == \A p, q \in Finishers : p = q

FinalInv == OneFinisher /\ IndInv /\ \A p \in Finishers : Chosen(p)

EndsKept ==
  \A s \in Sessions : sessions[s].status = "SESSION_FINISHED" =>
    /\ sessions'[s].status = "SESSION_FINISHED"
    /\ sessions'[s].endAt = sessions[s].endAt

LEMMA NextFinal ==
  ASSUME FinalInv, [Next]_vars
  PROVE  EndsKept /\ \A p \in Finishers : Chosen(p)'
<1>1. /\ TypeOK /\ IndInv /\ ChunkReady
      /\ Finishers \subseteq Goroutines /\ Scanners \subseteq Goroutines
      /\ \A p \in Goroutines : todo[p] \subseteq Sessions
  BY DEF FinalInv, IndInv, TypeOK, Safe, TxnBacked, ChunkReady, Goroutines
<1>2. CASE \E p \in Scanners : ScannerStep(p) \/ ScanError(p) \/ ScanAbort(p)
  <2>1. PICK p \in Scanners : Moves(p)
    BY <1>2 DEF Moves
  <2>2. \A s \in Sessions : /\ sessions'[s].status = sessions[s].status
                            /\ sessions'[s].endAt = sessions[s].endAt
    <3>1. CASE UNCHANGED db
      BY <3>1 DEF db
    <3>2. CASE Bills(p)
      <4>1. /\ CommitTx(txn[p], BilledRow(sessions[txn[p].session], txn[p]))
            /\ txn[p].session \in Sessions
        BY <1>1, <2>1, <3>2, GoroutinesAssumption DEF Bills, ChunkReady, BillingChunk
      <4>2. sessions[txn[p].session] \in UsageSession
        BY <1>1, <4>1 DEF TypeOK
      <4>3. \A r \in UsageSession : \A c : /\ BilledRow(r, c).status = r.status
                                         /\ BilledRow(r, c).endAt = r.endAt
        BY DEF BilledRow, UsageSession
      <4> QED BY <1>1, <4>1, <4>2, <4>3 DEF CommitTx, TypeOK
    <3> QED BY <1>1, <2>1, <3>1, <3>2, MovesLocal
  <2>3. ASSUME NEW q \in Finishers PROVE Chosen(q)'
    <3>1. q # p /\ q \in Goroutines /\ p \in Goroutines
      BY <1>1, GoroutinesAssumption
    <3>2. pc'[q] = pc[q] /\ todo'[q] = todo[q] /\ txn'[q] = txn[q]
      BY <1>1, <2>1, <3>1, MovesLocal
    <3> QED BY <1>1, <2>2, <3>1, <3>2 DEF FinalInv, Chosen, Busy
  <2> QED BY <2>2, <2>3 DEF EndsKept
<1>3. CASE \E p \in Finishers : FinisherStep(p) \/ FinishError(p) \/ FinishAbort(p)
  <2>1. PICK p \in Finishers : Moves(p)
    BY <1>3 DEF Moves
  <2>2. p \in Goroutines /\ Chosen(p)
    BY <1>1 DEF FinalInv
  <2>3. \A q \in Finishers : Chosen(q)'
    BY <1>1, <2>1, <2>2, ChosenKept DEF FinalInv, OneFinisher
  <2>4. CASE UNCHANGED db
    BY <2>3, <2>4 DEF EndsKept, db
  <2>5. CASE Bills(p)
    <3>1. /\ \E row : CommitTx(txn[p], row)
          /\ txn[p].session \in Sessions
          /\ sessions[txn[p].session].status = "SESSION_ACTIVE"
      BY <1>1, <2>2, <2>5 DEF Bills, ChunkReady, BillingChunk, Chosen, Busy
    <3>2. EndsKept
      BY <1>1, <3>1 DEF EndsKept, CommitTx, TypeOK
    <3> QED BY <2>3, <3>2
  <2> QED BY <1>1, <2>1, <2>2, <2>4, <2>5, MovesLocal
<1>4. CASE Tick \/ UNCHANGED vars
  <2>1. UNCHANGED <<sessions, pc, todo, txn>>
    BY <1>4 DEF Tick, vars, db, local
  <2> QED BY <2>1 DEF FinalInv, EndsKept, Chosen, Busy
<1>5. CASE GenerateBulkActiveSessions
  <2>1. PICK s \in Sessions, age \in StartAges : CreateSession(s, now - age)
    BY <1>5 DEF GenerateBulkActiveSessions
  <2>2. /\ sessions[s].status = "NONE"
        /\ \A r \in Sessions \ {s} : sessions'[r] = sessions[r]
        /\ UNCHANGED <<pc, todo, txn>>
    BY <1>1, <2>1 DEF CreateSession, Absent, local, TypeOK
  <2>3. EndsKept
    BY <2>2 DEF EndsKept
  <2> QED BY <1>1, <2>2, <2>3 DEF FinalInv, Chosen, Busy
<1>6. CASE \E h \in Hosts : Crash(h)
  <2>1. PICK h \in Hosts : Crash(h)
    BY <1>6
  <2>2. UNCHANGED sessions
    BY <2>1 DEF Crash, db
  <2>3. \A q \in Goroutines :
          \/ pc'[q] = "idle"
          \/ pc'[q] = pc[q] /\ todo'[q] = todo[q] /\ txn'[q] = txn[q]
    BY <2>1 DEF Crash
  <2> QED BY <1>1, <2>2, <2>3 DEF FinalInv, EndsKept, Chosen, Busy
<1> QED BY <1>2, <1>3, <1>4, <1>5, <1>6 DEF Next

(* With one finisher the end of a session is final, for any number of      *)
(* scanners: none of them writes the end, and the finisher chooses only    *)
(* sessions that are active and that nobody else can end.                  *)
THEOREM EndsAreFinal == OneFinisher => (Spec => EndIsFinal)
<1>1. OneFinisher /\ Init => FinalInv
  BY InitSafe DEF Init, FinalInv, Chosen, Busy, Goroutines
<1>2. FinalInv /\ [Next]_vars => FinalInv'
  BY NextFinal, NextSafe DEF FinalInv
<1>3. FinalInv /\ [Next]_vars => EndsKept
  BY NextFinal
<1>4. EndIsFinal <=> [][EndsKept]_vars
  BY DEF EndIsFinal, EndsKept
<1> QED BY <1>1, <1>2, <1>3, <1>4, PTL DEF Spec
=============================================================================
