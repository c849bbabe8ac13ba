---------------------------- MODULE UsageService ----------------------------
(***************************************************************************)
(* usage-service: the tables usage_sessions and outbox_events, and the     *)
(* three goroutines of every replica that write them: the session creator, *)
(* the periodic outbox scanner and the periodic session finisher.          *)
(*                                                                         *)
(* A goroutine reads rows, computes a billing chunk from its private copy  *)
(* and writes chunk and row back in one transaction of READ COMMITTED      *)
(* isolation whose UPDATE names the row by its id alone.  Row locks make   *)
(* such transactions take effect one after the other, at their commits, so *)
(* a commit is one step; everything the goroutine did before it may be     *)
(* stale by then.                                                          *)
(*                                                                         *)
(* Time is a counter.  A replica reads it from a clock of its own, which   *)
(* may be behind: the queries compare with the clock of the replica that   *)
(* asks, not with that of the database.                                    *)
(*                                                                         *)
(* A definition named D_... is D with a mistake in it.  Nothing uses it;   *)
(* it is there to be put in the place of D, to see a property fail.        *)
(***************************************************************************)
EXTENDS Integers, Sequences, FiniteSets, SqlQueries

CONSTANTS
  Sessions,     \* the session ids, as numbers: their order is the ORDER BY id
  Scanners,     \* scanner goroutines
  Finishers,    \* finisher goroutines
  Hosts,        \* the replicas: each is the set of the goroutines it runs
  Interval,     \* test_outbox_interval: how long usage may stay unbilled
  ScanBatch,    \* BatchSize of the scanner
  FinishBatch,  \* SESSION_FINISH_BATCH_SIZE
  StartAges,    \* how long before its creation a generated session started
  Failing,      \* sessions whose transaction fails every time it is tried,
                \* for instance because the payload cannot be encoded
  Slow,         \* goroutines of replicas whose clock is behind
  Drift,        \* how far it is behind
  Null,         \* SQL NULL
  MaxTime,      \* bound: the last instant of the clock
  MaxFaults     \* bound: failed calls and crashes in one behaviour

Goroutines == Scanners \cup Finishers

ASSUME SessionsAssumption   == Sessions \subseteq Nat \ {0}
ASSUME GoroutinesAssumption == Scanners \cap Finishers = {}
ASSUME HostsAssumption      == Hosts \subseteq SUBSET Goroutines
ASSUME IntervalAssumption   == Interval \in Nat
ASSUME BatchAssumption      == ScanBatch \in Nat \ {0} /\ FinishBatch \in Nat \ {0}
ASSUME AgesAssumption       == StartAges \subseteq Nat
ASSUME FailingAssumption    == Failing \subseteq Sessions
ASSUME ClockAssumption      ==
  Drift \in Nat /\ \A h \in Hosts : h \subseteq Slow \/ h \cap Slow = {}
ASSUME NullAssumption       == Null \notin Int
ASSUME BoundsAssumption     == MaxTime \in Nat /\ MaxFaults \in Nat

VARIABLES
  now,          \* the clock
  sessions,     \* table usage_sessions, by id
  outbox,       \* the billing chunks in outbox_events, in commit order
  pc,           \* where each goroutine is
  todo,         \* the rest of its batch
  held,         \* its copies of the rows of the batch
  cursor,       \* a scanner's lastID
  more,         \* a finisher's batch was full: it will fetch another
  txn,          \* the chunk of its open transaction
  faults

db    == <<sessions, outbox>>
local == <<pc, todo, held, cursor, more, txn>>
vars  == <<now, sessions, outbox, pc, todo, held, cursor, more, txn, faults>>
-----------------------------------------------------------------------------
(* Rows and billing chunks. *)

Status == {"NONE", "SESSION_ACTIVE", "SESSION_FINISHED"}

(* "NONE" marks an id that is not in the table, or a row not held. *)
UsageSession ==
  [status : Status, startAt : Int, endAt : Int \cup {Null},
   lastBilledAt : Int, billingSequence : Nat]

Absent ==
  [status |-> "NONE", startAt |-> 0, endAt |-> Null,
   lastBilledAt |-> 0, billingSequence |-> 0]

Present(row) == row.status # "NONE"

(* What time.Now() returns to goroutine p. *)
Clock(p) == IF p \in Slow THEN now - Drift ELSE now

BillingChunk == [session : Sessions, sequence : Nat, from : Int, to : Int]

NoTxn == [session |-> 0, sequence |-> 0, from |-> 0, to |-> 0]

(* The chunk that bills the session of row up to the instant to. *)
NewChunk(s, row, to) ==
  [session |-> s, sequence |-> row.billingSequence + 1,
   from |-> row.lastBilledAt, to |-> to]

PeriodEnd_Unchecked(p, row) == row.endAt

(* A scanner bills up to now, or up to the end of a session that its copy  *)
(* of the row says has ended.                                              *)
PeriodEnd(p, row) ==
  IF row.endAt # Null /\ row.endAt < Clock(p) THEN row.endAt ELSE Clock(p)

BilledRow_ClockAtCommit(row, c) ==
  [row EXCEPT !.lastBilledAt = now, !.billingSequence = c.sequence]

BilledRow_InstantNotStored(row, c) == [row EXCEPT !.billingSequence = c.sequence]

BilledRow_SequenceNotStored(row, c) == [row EXCEPT !.lastBilledAt = c.to]

BilledRow_IncrementedTwice(row, c) ==
  [row EXCEPT !.lastBilledAt = c.to, !.billingSequence = c.sequence + 1]

(* The UPDATE of a scanner: last_billed_at and billing_sequence, no more.  *)
BilledRow(row, c) ==
  [row EXCEPT !.lastBilledAt = c.to, !.billingSequence = c.sequence]

CompletedRow_EndsWhereChunkBegins(row, c) ==
  [BilledRow(row, c) EXCEPT !.status = "SESSION_FINISHED", !.endAt = c.from]

(* UpdateUsageSessionComplete. *)
CompletedRow(row, c) ==
  [BilledRow(row, c) EXCEPT !.status = "SESSION_FINISHED", !.endAt = c.to]
-----------------------------------------------------------------------------
(* The work lists. *)

Active == { s \in Sessions : sessions[s].status = "SESSION_ACTIVE" }

Unbilled(p) == { s \in Active : sessions[s].lastBilledAt < Clock(p) - Interval }

UnbilledAfterCursor(p) ==
  OrderByLimit({ s \in Unbilled(p) : s > cursor[p] }, ScanBatch,
               LAMBDA a, b : a <= b)

ActiveSessionIDs_AnyStatus ==
  OrderByLimit({ s \in Sessions : Present(sessions[s]) }, FinishBatch,
               LAMBDA a, b : sessions[a].startAt <= sessions[b].startAt)

ActiveSessionIDs ==
  OrderByLimit(Active, FinishBatch,
               LAMBDA a, b : sessions[a].startAt <= sessions[b].startAt)
-----------------------------------------------------------------------------
Init ==
  /\ now = 0
  /\ sessions = [s \in Sessions |-> Absent]
  /\ outbox = << >>
  /\ pc = [p \in Goroutines |-> "idle"]
  /\ todo = [p \in Goroutines |-> {}]
  /\ held = [p \in Goroutines |-> [s \in Sessions |-> Absent]]
  /\ cursor = [p \in Goroutines |-> 0]
  /\ more = [p \in Goroutines |-> FALSE]
  /\ txn = [p \in Goroutines |-> NoTxn]
  /\ faults = 0

Tick ==
  /\ now < MaxTime
  /\ now' = now + 1
  /\ UNCHANGED <<db, local, faults>>

(* The creator inserts a session with a fresh id that started at startAt:  *)
(* nothing of it is billed yet.                                            *)
CreateSession(s, startAt) ==
  /\ sessions[s] = Absent
  /\ sessions' = [sessions EXCEPT ![s] =
       [status |-> "SESSION_ACTIVE", startAt |-> startAt, endAt |-> Null,
        lastBilledAt |-> startAt, billingSequence |-> 0]]
  /\ UNCHANGED <<now, outbox, local, faults>>

GenerateBulkActiveSessions ==
  \E s \in Sessions, age \in StartAges : CreateSession(s, now - age)
-----------------------------------------------------------------------------
(* What the scanner and the finisher share. *)

Fault == faults < MaxFaults /\ faults' = faults + 1

CommitTx_RowNotUpdated(c, row) == outbox' = Append(outbox, c) /\ UNCHANGED sessions

(* The transaction of p takes effect: the chunk is in the outbox, the row  *)
(* is overwritten.                                                         *)
CommitTx(c, row) ==
  /\ outbox' = Append(outbox, c)
  /\ sessions' = [sessions EXCEPT ![c.session] = row]

(* Goroutine p is done with session s of its batch, well or badly; at the  *)
(* end of the batch it goes on at the label next.                          *)
Advance(p, s, again, next) ==
  /\ todo' = [todo EXCEPT ![p] = @ \ {s}]
  /\ held' = [held EXCEPT ![p] = [@ EXCEPT ![s] = Absent]]
  /\ txn' = [txn EXCEPT ![p] = NoTxn]
  /\ pc' = [pc EXCEPT ![p] = IF todo[p] = {s} THEN next ELSE again]
-----------------------------------------------------------------------------
(* The scanner: ScanAndCreateOutboxEvents and CreateOutboxEvent. *)

(* Nothing to bill: wait for the next tick. *)
ScanNothing(p) == pc[p] = "idle" /\ Unbilled(p) = {} /\ UNCHANGED vars

ScanCount_CursorKept(p) ==
  /\ pc[p] = "idle"
  /\ Unbilled(p) # {}
  /\ pc' = [pc EXCEPT ![p] = "fetch"]
  /\ UNCHANGED <<now, db, todo, held, cursor, more, txn, faults>>

ScanCount(p) ==
  /\ pc[p] = "idle"
  /\ Unbilled(p) # {}
  /\ cursor' = [cursor EXCEPT ![p] = 0]
  /\ pc' = [pc EXCEPT ![p] = "fetch"]
  /\ UNCHANGED <<now, db, todo, held, more, txn, faults>>

(* Fetch the rows after the cursor; an empty result ends the scan. *)
ScanFetch(p) ==
  /\ pc[p] = "fetch"
  /\ \E B \in UnbilledAfterCursor(p) :
       /\ todo' = [todo EXCEPT ![p] = B]
       /\ held' = [held EXCEPT ![p] =
            [s \in Sessions |-> IF s \in B THEN sessions[s] ELSE Absent]]
       /\ pc' = [pc EXCEPT ![p] = IF B = {} THEN "idle" ELSE "item"]
  /\ UNCHANGED <<now, db, cursor, more, txn, faults>>

(* Open a transaction for the next session of the batch and compute its    *)
(* chunk from the copy fetched with the batch.                             *)
ScanBegin(p) ==
  /\ pc[p] = "item"
  /\ \E s \in FirstOf(todo[p], LAMBDA a, b : a <= b) \ Failing :
       txn' = [txn EXCEPT ![p] =
                 NewChunk(s, held[p][s], PeriodEnd(p, held[p][s]))]
  /\ pc' = [pc EXCEPT ![p] = "commit"]
  /\ UNCHANGED <<now, db, todo, held, cursor, more, faults>>

ScanCommit(p) ==
  /\ pc[p] = "commit"
  /\ LET c == txn[p] IN
       /\ CommitTx(c, BilledRow(sessions[c.session], c))
       /\ cursor' = [cursor EXCEPT ![p] = c.session]
       /\ Advance(p, c.session, "item", "fetch")
  /\ UNCHANGED <<now, more, faults>>

(* A session that cannot be billed is skipped each time; the cursor stays. *)
ScanSkip(p) ==
  /\ pc[p] = "item"
  /\ \E s \in FirstOf(todo[p], LAMBDA a, b : a <= b) \cap Failing :
       Advance(p, s, "item", "fetch")
  /\ UNCHANGED <<now, db, cursor, more, faults>>

(* A call of CreateOutboxEvent fails: the session is skipped and the       *)
(* cursor stays.  A commit that fails may have taken effect.               *)
ScanError(p) ==
  /\ Fault
  /\ \/ /\ pc[p] = "item"
        /\ \E s \in FirstOf(todo[p], LAMBDA a, b : a <= b) :
             Advance(p, s, "item", "fetch")
        /\ UNCHANGED db
     \/ /\ pc[p] = "commit"
        /\ Advance(p, txn[p].session, "item", "fetch")
        /\ \/ UNCHANGED db
           \/ CommitTx(txn[p], BilledRow(sessions[txn[p].session], txn[p]))
  /\ UNCHANGED <<now, cursor, more>>

(* The query for the next batch fails: the scan is given up. *)
ScanAbort(p) ==
  /\ Fault
  /\ pc[p] = "fetch"
  /\ pc' = [pc EXCEPT ![p] = "idle"]
  /\ UNCHANGED <<now, db, todo, held, cursor, more, txn>>

ScannerStep(p) ==
  ScanNothing(p) \/ ScanCount(p) \/ ScanFetch(p) \/ ScanBegin(p) \/ ScanCommit(p)
    \/ ScanSkip(p)
-----------------------------------------------------------------------------
(* The finisher: FinishActiveSessions and FinishSession. *)

FinishNothing(p) == pc[p] = "idle" /\ Active = {} /\ UNCHANGED vars

FinishCount(p) ==
  /\ pc[p] = "idle"
  /\ Active # {}
  /\ pc' = [pc EXCEPT ![p] = "fetch"]
  /\ UNCHANGED <<now, db, todo, held, cursor, more, txn, faults>>

FinishFetch_ShortBatchDropped(p) ==
  /\ pc[p] = "fetch"
  /\ \E B \in ActiveSessionIDs :
       IF Cardinality(B) < FinishBatch
         THEN pc' = [pc EXCEPT ![p] = "idle"] /\ UNCHANGED <<todo, more>>
         ELSE /\ todo' = [todo EXCEPT ![p] = B]
              /\ more' = [more EXCEPT ![p] = TRUE]
              /\ pc' = [pc EXCEPT ![p] = "item"]
  /\ UNCHANGED <<now, db, held, cursor, txn, faults>>

(* Fetch ids; a batch that is not full is the last one. *)
FinishFetch(p) ==
  /\ pc[p] = "fetch"
  /\ \E B \in ActiveSessionIDs :
       /\ todo' = [todo EXCEPT ![p] = B]
       /\ more' = [more EXCEPT ![p] = Cardinality(B) = FinishBatch]
       /\ pc' = [pc EXCEPT ![p] = IF B = {} THEN "idle" ELSE "item"]
  /\ UNCHANGED <<now, db, held, cursor, txn, faults>>

(* Read the session, outside of any transaction. *)
FinishRead(p) ==
  /\ pc[p] = "item"
  /\ \E s \in FirstOf(todo[p], LAMBDA a, b : sessions[a].startAt <= sessions[b].startAt)
               \ Failing :
       /\ held' = [held EXCEPT ![p] = [@ EXCEPT ![s] = sessions[s]]]
       /\ txn' = [txn EXCEPT ![p] = [NoTxn EXCEPT !.session = s]]
  /\ pc' = [pc EXCEPT ![p] = "stamp"]
  /\ UNCHANGED <<now, db, todo, cursor, more, faults>>

(* Take the time of the end of the session, and open the transaction. *)
FinishStamp(p) ==
  /\ pc[p] = "stamp"
  /\ LET s == txn[p].session IN
       txn' = [txn EXCEPT ![p] = NewChunk(s, held[p][s], Clock(p))]
  /\ pc' = [pc EXCEPT ![p] = "commit"]
  /\ UNCHANGED <<now, db, todo, held, cursor, more, faults>>

BatchEnd(p) == IF more[p] THEN "fetch" ELSE "idle"

FinishCommit(p) ==
  /\ pc[p] = "commit"
  /\ LET c == txn[p] IN
       /\ CommitTx(c, CompletedRow(sessions[c.session], c))
       /\ Advance(p, c.session, "item", BatchEnd(p))
  /\ UNCHANGED <<now, cursor, more, faults>>

(* A session that cannot be finished is passed over each time. *)
FinishSkip(p) ==
  /\ pc[p] = "item"
  /\ \E s \in FirstOf(todo[p], LAMBDA a, b : sessions[a].startAt <= sessions[b].startAt)
               \cap Failing :
       Advance(p, s, "item", BatchEnd(p))
  /\ UNCHANGED <<now, db, cursor, more, faults>>

(* FinishSession fails: the loop goes on with the next id. *)
FinishError(p) ==
  /\ Fault
  /\ \/ /\ pc[p] = "item"
        /\ \E s \in FirstOf(todo[p], LAMBDA a, b : sessions[a].startAt <= sessions[b].startAt) :
             Advance(p, s, "item", BatchEnd(p))
        /\ UNCHANGED db
     \/ /\ pc[p] \in {"stamp", "commit"}
        /\ Advance(p, txn[p].session, "item", BatchEnd(p))
        /\ \/ UNCHANGED db
           \/ /\ pc[p] = "commit"
              /\ CommitTx(txn[p], CompletedRow(sessions[txn[p].session], txn[p]))
  /\ UNCHANGED <<now, cursor, more>>

(* The query for the next batch fails: the round is given up. *)
FinishAbort(p) ==
  /\ Fault
  /\ pc[p] = "fetch"
  /\ pc' = [pc EXCEPT ![p] = "idle"]
  /\ UNCHANGED <<now, db, todo, held, cursor, more, txn>>

FinisherStep(p) ==
  FinishNothing(p) \/ FinishCount(p) \/ FinishFetch(p) \/ FinishRead(p)
    \/ FinishStamp(p) \/ FinishCommit(p) \/ FinishSkip(p)
-----------------------------------------------------------------------------
(* A replica dies and is started again: its goroutines begin anew, and the *)
(* transactions it had open are rolled back.                               *)
Crash(h) ==
  /\ Fault
  /\ pc' = [p \in Goroutines |-> IF p \in h THEN "idle" ELSE pc[p]]
  /\ todo' = [p \in Goroutines |-> IF p \in h THEN {} ELSE todo[p]]
  /\ held' = [p \in Goroutines |->
                IF p \in h THEN [s \in Sessions |-> Absent] ELSE held[p]]
  /\ cursor' = [p \in Goroutines |-> IF p \in h THEN 0 ELSE cursor[p]]
  /\ more' = [p \in Goroutines |-> IF p \in h THEN FALSE ELSE more[p]]
  /\ txn' = [p \in Goroutines |-> IF p \in h THEN NoTxn ELSE txn[p]]
  /\ UNCHANGED <<now, db>>

Next ==
  \/ Tick
  \/ GenerateBulkActiveSessions
  \/ \E p \in Scanners : ScannerStep(p) \/ ScanError(p) \/ ScanAbort(p)
  \/ \E p \in Finishers : FinisherStep(p) \/ FinishError(p) \/ FinishAbort(p)
  \/ \E h \in Hosts : Crash(h)

Spec == Init /\ [][Next]_vars

(* The loops of both goroutines run on tickers until the service stops,    *)
(* and every call they make returns.  Nothing makes sessions, faults or    *)
(* the end of the bounded clock happen.                                    *)
ScannerFairness  == \A p \in Scanners : WF_vars(ScannerStep(p))
FinisherFairness == \A p \in Finishers : WF_vars(FinisherStep(p))

FairSpec == Spec /\ ScannerFairness /\ FinisherFairness

(* What the scanners achieve with no help from the finishers, which may    *)
(* interfere or be stuck.                                                  *)
ScannerFairSpec == Spec /\ ScannerFairness
-----------------------------------------------------------------------------
TypeOK ==
  /\ now \in Nat
  /\ sessions \in [Sessions -> UsageSession]
  /\ outbox \in Seq(BillingChunk)
  /\ pc \in [Goroutines -> {"idle", "fetch", "item", "stamp", "commit"}]
  /\ todo \in [Goroutines -> SUBSET Sessions]
  /\ held \in [Goroutines -> [Sessions -> UsageSession]]
  /\ cursor \in [Goroutines -> Nat]
  /\ more \in [Goroutines -> BOOLEAN]
  /\ txn \in [Goroutines -> BillingChunk \cup
                [session : {0} \cup Sessions, sequence : {0}, from : {0}, to : {0}]]
  /\ faults \in Nat

(* Some of the chunks bills session s for the instant t. *)
Billed(chunks, s, t) ==
  \E i \in DOMAIN chunks :
    chunks[i].session = s /\ chunks[i].from <= t /\ t < chunks[i].to

BilledThroughout(chunks, s, from, to) ==
  \A t \in from .. (to - 1) : Billed(chunks, s, t)

(* Some of the chunks is the n-th of session s. *)
HasChunk(chunks, s, n) ==
  \E i \in DOMAIN chunks : chunks[i].session = s /\ chunks[i].sequence = n

(* No usage is lost: whatever order scans, finishes and crashes of any     *)
(* replicas take, the outbox holds chunks for all the time from the start  *)
(* of a session to its last_billed_at and, once it has ended, to its end.  *)
(* This is what makes it safe for the next chunk to begin at               *)
(* last_billed_at.                                                         *)
NoUsageGap ==
  \A s \in Sessions : Present(sessions[s]) =>
    /\ BilledThroughout(outbox, s, sessions[s].startAt, sessions[s].lastBilledAt)
    /\ sessions[s].endAt # Null =>
         BilledThroughout(outbox, s, sessions[s].startAt, sessions[s].endAt)

(* The sequence numbers of a session's chunks have no holes: where there   *)
(* is a chunk with number n > 1 there is one with number n - 1, in spite   *)
(* of stale reads and of commits whose outcome the service does not learn. *)
NoSequenceHole ==
  \A i \in DOMAIN outbox : outbox[i].sequence > 1 =>
    HasChunk(outbox, outbox[i].session, outbox[i].sequence - 1)

(* The end of a session is final: no stale copy of a scanner reopens a     *)
(* finished session or moves its end.  This needs a single finisher: two   *)
(* that fetch the same session both write its end.                         *)
EndIsFinal ==
  [][\A s \in Sessions : sessions[s].status = "SESSION_FINISHED" =>
       /\ sessions'[s].status = "SESSION_FINISHED"
       /\ sessions'[s].endAt = sessions[s].endAt]_vars

(* No chunk bills a finished session beyond its end. *)
NothingBilledPastEnd ==
  \A i \in DOMAIN outbox :
    LET row == sessions[outbox[i].session] IN
    row.endAt # Null => outbox[i].to <= row.endAt

(* A session whose usage has been waiting for longer than the interval is  *)
(* billed by a scan, or finished, if the scanners run: no page boundary,   *)
(* no restart, no racing scanner or finisher and no failing session that   *)
(* has a sound one behind it in its page makes the scanners pass over it   *)
(* for ever.  A page in which everything fails does.                       *)
UnbilledIsBilled ==
  \A p \in Scanners, s \in Sessions \ Failing :
    s \in Unbilled(p) ~> s \notin Unbilled(p)

(* Every active session is finished in the end if the finishers run, in    *)
(* spite of batches cut off by the limit, of single failures, and of       *)
(* sessions that fail each time and take up a part of every batch.         *)
ActiveIsFinished ==
  FinisherFairness =>
    \A s \in Sessions \ Failing :
      sessions[s].status = "SESSION_ACTIVE" ~> sessions[s].status = "SESSION_FINISHED"
=============================================================================
