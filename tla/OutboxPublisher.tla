--------------------------- MODULE OutboxPublisher ---------------------------
(***************************************************************************)
(* outbox-publisher: leasing workers that move billing chunks from the     *)
(* table outbox_events to the Kafka topic usage-billing-chunks, the        *)
(* replayer of the same process, and the duplicate injector by which       *)
(* usage-service interferes with the table.                                *)
(*                                                                         *)
(* A worker leases a batch with SELECT ... FOR UPDATE SKIP LOCKED and      *)
(* keeps that one transaction open while it sends: its locks, its rows of  *)
(* processed_outbox_events and its published_at marks all end with the     *)
(* transaction, but what it sent stays sent.                               *)
(*                                                                         *)
(* A definition named D_... is D with a mistake in it.  Nothing uses it;   *)
(* it is there to be put in the place of D, to see a property fail.        *)
(***************************************************************************)
EXTENDS Integers, Sequences, FiniteSets, SqlQueries

CONSTANTS
  Events,       \* the events usage-service may insert, in created_at order
  Invalid,      \* those whose payload does not decode or validate
  Workers,      \* leasing workers
  Replayers,    \* replayer goroutines; none unless REPLAY_ENABLED
  Hosts,        \* the replicas: each is the set of the goroutines it runs
  BatchSize,    \* BATCH_SIZE of a lease
  ResetBatch,   \* DuplicateBatchSize of the injector
  ReplayBatch,  \* replayBatchSize
  MaxAttempts,  \* KAFKA_MAX_ATTEMPTS: tries of the Kafka writer in one call
  MaxFaults,    \* bound: failed calls, repeated writes and crashes
  MaxResets,    \* bound: rounds of the injector
  MaxReplays    \* bound: rounds of the replayers

Goroutines == Workers \cup Replayers

ASSUME EventsAssumption     == Events \subseteq Nat /\ Invalid \subseteq Events
ASSUME GoroutinesAssumption == Workers \cap Replayers = {}
ASSUME HostsAssumption      == Hosts \subseteq SUBSET Goroutines
ASSUME BatchAssumption      == {BatchSize, ResetBatch, ReplayBatch, MaxAttempts}
                                 \subseteq Nat \ {0}
ASSUME BoundsAssumption     == {MaxFaults, MaxResets, MaxReplays} \subseteq Nat

VARIABLES
  row,        \* table outbox_events: published_at of each event
  processed,  \* table processed_outbox_events
  topic,      \* the event of every message in the topic, in order
  pc,         \* where each goroutine is
  lease,      \* the rows locked by a worker's transaction
  todo,       \* the rest of its batch
  success,    \* successIDs: what it will mark published
  claimed,    \* its uncommitted rows of processed_outbox_events
  faults, resets, replays

tx     == <<lease, todo, success, claimed>>
bounds == <<faults, resets, replays>>
vars   == <<row, processed, topic, pc, lease, todo, success, claimed,
            faults, resets, replays>>
-----------------------------------------------------------------------------
Published == { e \in Events : row[e] = "published" }

Locked == UNION { lease[w] : w \in Workers }

Leasable_LockedToo == { e \in Events : row[e] = "unpublished" }

(* The WHERE clause of a lease; SKIP LOCKED hides the locked rows. *)
Leasable == { e \in Events \ Locked : row[e] = "unpublished" }

(* The event of the batch whose turn it is. *)
Current(w) == FirstOf(todo[w], LAMBDA a, b : a <= b)

Sent == { topic[i] : i \in DOMAIN topic }

(* n writes of event e reach the topic. *)
Write(e, n) == topic' = topic \o [i \in 1 .. n |-> e]

Fault(n) ==
  /\ faults + n <= MaxFaults
  /\ faults' = faults + n
  /\ UNCHANGED <<resets, replays>>
-----------------------------------------------------------------------------
Init ==
  /\ row = [e \in Events |-> "absent"]
  /\ processed = {}
  /\ topic = << >>
  /\ pc = [g \in Goroutines |-> "idle"]
  /\ lease = [g \in Goroutines |-> {}]
  /\ todo = [g \in Goroutines |-> {}]
  /\ success = [g \in Goroutines |-> {}]
  /\ claimed = [g \in Goroutines |-> {}]
  /\ faults = 0 /\ resets = 0 /\ replays = 0

(* usage-service commits an event.  Its created_at was taken earlier, so   *)
(* events may appear in another order.                                     *)
InsertOutboxEvent(e) ==
  /\ row[e] = "absent"
  /\ row' = [row EXCEPT ![e] = "unpublished"]
  /\ UNCHANGED <<processed, topic, pc, tx, bounds>>

(* The duplicate injector of usage-service: some published events become   *)
(* unpublished.                                                            *)
ResetRandomPublishedOutboxEvents ==
  /\ resets < MaxResets
  /\ Published # {}
  /\ \E B \in OrderByLimit(Published, ResetBatch, LAMBDA a, b : TRUE) :
       row' = [e \in Events |-> IF e \in B THEN "unpublished" ELSE row[e]]
  /\ resets' = resets + 1
  /\ UNCHANGED <<processed, topic, pc, tx, faults, replays>>
-----------------------------------------------------------------------------
(* A worker: processOnce. *)

(* An empty lease: sleep for the poll interval. *)
LeaseNothing(w) == pc[w] = "idle" /\ Leasable = {} /\ UNCHANGED vars

Lease(w) ==
  /\ pc[w] = "idle"
  /\ Leasable # {}
  /\ \E B \in OrderByLimit(Leasable, BatchSize, LAMBDA a, b : a <= b) :
       /\ lease' = [lease EXCEPT ![w] = B]
       /\ todo' = [todo EXCEPT ![w] = B]
  /\ pc' = [pc EXCEPT ![w] = "item"]
  /\ UNCHANGED <<row, processed, topic, success, claimed, bounds>>

(* The worker is done with event e and goes to the next, or to the end. *)
Continue(w, e) ==
  /\ todo' = [todo EXCEPT ![w] = @ \ {e}]
  /\ pc' = [pc EXCEPT ![w] = IF todo[w] = {e} THEN "commit" ELSE "item"]

(* The transaction ends, whatever became of it. *)
EndTx_SuccessKept(w) ==
  /\ lease' = [lease EXCEPT ![w] = {}]
  /\ todo' = [todo EXCEPT ![w] = {}]
  /\ claimed' = [claimed EXCEPT ![w] = {}]
  /\ pc' = [pc EXCEPT ![w] = "idle"]
  /\ UNCHANGED success

EndTx_LocksKept(w) ==
  /\ success' = [success EXCEPT ![w] = {}]
  /\ todo' = [todo EXCEPT ![w] = {}]
  /\ claimed' = [claimed EXCEPT ![w] = {}]
  /\ pc' = [pc EXCEPT ![w] = "idle"]
  /\ UNCHANGED lease

EndTx(w) ==
  /\ lease' = [lease EXCEPT ![w] = {}]
  /\ todo' = [todo EXCEPT ![w] = {}]
  /\ success' = [success EXCEPT ![w] = {}]
  /\ claimed' = [claimed EXCEPT ![w] = {}]
  /\ pc' = [pc EXCEPT ![w] = "idle"]

(* Processed by an earlier run: only to be marked published. *)
SkipProcessed(w) ==
  /\ pc[w] = "item"
  /\ \E e \in Current(w) \cap processed :
       /\ success' = [success EXCEPT ![w] = @ \cup {e}]
       /\ Continue(w, e)
  /\ UNCHANGED <<row, processed, topic, lease, claimed, bounds>>

SkipInvalid(w) ==
  /\ pc[w] = "item"
  /\ \E e \in (Current(w) \cap Invalid) \ processed : Continue(w, e)
  /\ UNCHANGED <<row, processed, topic, lease, success, claimed, bounds>>

CheckIfProcessed_Dropped(w) ==
  /\ pc[w] = "item"
  /\ Current(w) \ Invalid # {}
  /\ pc' = [pc EXCEPT ![w] = "produce"]
  /\ UNCHANGED <<row, processed, topic, tx, bounds>>

CheckIfProcessed(w) ==
  /\ pc[w] = "item"
  /\ Current(w) \ (processed \cup Invalid) # {}
  /\ pc' = [pc EXCEPT ![w] = "produce"]
  /\ UNCHANGED <<row, processed, topic, tx, bounds>>

(* A failed query aborts the whole transaction: every later statement of   *)
(* it fails too, nothing more is sent, and it cannot commit.               *)
CheckError(w) ==
  /\ pc[w] = "item"
  /\ Fault(1)
  /\ EndTx(w)
  /\ UNCHANGED <<row, processed, topic>>

(* The writer may have tried more than once before the broker's answer.    *)
Produce(w) ==
  /\ pc[w] = "produce"
  /\ \E e \in Current(w), n \in 1 .. MaxAttempts : Write(e, n) /\ Fault(n - 1)
  /\ pc' = [pc EXCEPT ![w] = "claim"]
  /\ UNCHANGED <<row, processed, tx>>

ProduceError_TakenForSuccess(w) ==
  /\ pc[w] = "produce"
  /\ \E e \in Current(w), n \in 0 .. MaxAttempts : Write(e, n) /\ Fault(n + 1)
  /\ pc' = [pc EXCEPT ![w] = "claim"]
  /\ UNCHANGED <<row, processed, tx>>

(* All tries failed as far as the writer knows: the event is left for a    *)
(* later lease and the batch goes on.                                      *)
ProduceError(w) ==
  /\ pc[w] = "produce"
  /\ \E e \in Current(w), n \in 0 .. MaxAttempts :
       Write(e, n) /\ Fault(IF n = 0 THEN 1 ELSE n) /\ Continue(w, e)
  /\ UNCHANGED <<row, processed, lease, success, claimed>>

InsertProcessed(w) ==
  /\ pc[w] = "claim"
  /\ \E e \in Current(w) \ processed :
       /\ claimed' = [claimed EXCEPT ![w] = @ \cup {e}]
       /\ success' = [success EXCEPT ![w] = @ \cup {e}]
       /\ Continue(w, e)
  /\ UNCHANGED <<row, processed, topic, lease, bounds>>

(* The insert violates UNIQUE(event_id) or fails: the worker returns, and  *)
(* its transaction is rolled back.                                         *)
InsertProcessedError(w) ==
  /\ pc[w] = "claim"
  /\ Fault(IF Current(w) \subseteq processed THEN 0 ELSE 1)
  /\ EndTx(w)
  /\ UNCHANGED <<row, processed, topic>>

(* BatchMarkOutboxEventsPublishedTx and Commit. *)
MarkPublished(w) ==
  /\ row' = [e \in Events |-> IF e \in success[w] THEN "published" ELSE row[e]]
  /\ processed' = processed \cup claimed[w]

Commit(w) ==
  /\ pc[w] = "commit"
  /\ MarkPublished(w)
  /\ EndTx(w)
  /\ UNCHANGED <<topic, bounds>>

(* The mark or the commit fails; a failed commit may have taken effect. *)
CommitError(w) ==
  /\ pc[w] = "commit"
  /\ Fault(1)
  /\ MarkPublished(w) \/ UNCHANGED <<row, processed>>
  /\ EndTx(w)
  /\ UNCHANGED topic

WorkerStep(w) ==
  LeaseNothing(w) \/ Lease(w) \/ SkipProcessed(w) \/ SkipInvalid(w)
    \/ CheckIfProcessed(w) \/ Produce(w) \/ InsertProcessed(w) \/ Commit(w)

WorkerError(w) ==
  CheckError(w) \/ ProduceError(w) \/ InsertProcessedError(w) \/ CommitError(w)
-----------------------------------------------------------------------------
(* The replayer: replayOnce sends published events again, unconditionally. *)

ReplayFetch(r) ==
  /\ pc[r] = "idle"
  /\ replays < MaxReplays
  /\ Published # {}
  /\ \E B \in OrderByLimit(Published, ReplayBatch, LAMBDA a, b : TRUE) :
       todo' = [todo EXCEPT ![r] = B \ Invalid]
  /\ pc' = [pc EXCEPT ![r] = "replay"]
  /\ replays' = replays + 1
  /\ UNCHANGED <<row, processed, topic, lease, success, claimed, faults, resets>>

ReplaySent(r, e) ==
  /\ todo' = [todo EXCEPT ![r] = @ \ {e}]
  /\ pc' = [pc EXCEPT ![r] = IF todo[r] = {e} THEN "idle" ELSE "replay"]
  /\ UNCHANGED <<row, processed, lease, success, claimed>>

ReplaySend(r) ==
  /\ pc[r] = "replay"
  /\ \E e \in todo[r], n \in 1 .. MaxAttempts :
       Write(e, n) /\ Fault(n - 1) /\ ReplaySent(r, e)

ReplayError(r) ==
  /\ pc[r] = "replay"
  /\ \E e \in todo[r], n \in 0 .. MaxAttempts :
       Write(e, n) /\ Fault(IF n = 0 THEN 1 ELSE n) /\ ReplaySent(r, e)
-----------------------------------------------------------------------------
(* A replica dies, or shuts down without waiting for its goroutines: the   *)
(* open transactions are rolled back.                                      *)
Crash(h) ==
  /\ Fault(1)
  /\ pc' = [g \in Goroutines |-> IF g \in h THEN "idle" ELSE pc[g]]
  /\ lease' = [g \in Goroutines |-> IF g \in h THEN {} ELSE lease[g]]
  /\ todo' = [g \in Goroutines |-> IF g \in h THEN {} ELSE todo[g]]
  /\ success' = [g \in Goroutines |-> IF g \in h THEN {} ELSE success[g]]
  /\ claimed' = [g \in Goroutines |-> IF g \in h THEN {} ELSE claimed[g]]
  /\ UNCHANGED <<row, processed, topic>>

Next ==
  \/ \E e \in Events : InsertOutboxEvent(e)
  \/ ResetRandomPublishedOutboxEvents
  \/ \E w \in Workers : WorkerStep(w) \/ WorkerError(w)
  \/ \E r \in Replayers : ReplayFetch(r) \/ ReplaySend(r) \/ ReplayError(r)
  \/ \E h \in Hosts : Crash(h)

Spec == Init /\ [][Next]_vars

(* Every worker loops until its context is cancelled, and its calls return. *)
Fairness == \A w \in Workers : WF_vars(WorkerStep(w))

FairSpec == Spec /\ Fairness
-----------------------------------------------------------------------------
Copies(e) == Cardinality({ i \in DOMAIN topic : topic[i] = e })

TypeOK ==
  /\ row \in [Events -> {"absent", "unpublished", "published"}]
  /\ processed \subseteq Events
  /\ topic \in Seq(Events)
  /\ pc \in [Goroutines ->
               {"idle", "item", "produce", "claim", "commit", "replay"}]
  /\ lease \in [Goroutines -> SUBSET Events]
  /\ todo \in [Goroutines -> SUBSET Events]
  /\ \A w \in Workers : todo[w] \subseteq lease[w]
  /\ success \in [Goroutines -> SUBSET Events]
  /\ \A g \in Goroutines : success[g] \subseteq lease[g]
  /\ claimed \in [Goroutines -> SUBSET Events]
  /\ \A g \in Goroutines : claimed[g] \subseteq success[g]
  /\ faults \in Nat /\ resets \in Nat /\ replays \in Nat

(* The outbox loses nothing: an event is marked published or processed     *)
(* only after a message of it reached the topic, whatever fails, crashes   *)
(* or is reset in between, so a billing chunk can be left behind only in   *)
(* the state unpublished, where it will be leased again.                   *)
PublishedWasDelivered ==
  /\ Published \subseteq processed
  /\ processed \subseteq Sent

(* At most one worker has an event in its hands between the check and the  *)
(* insert, so that the unique key of processed_outbox_events never has to  *)
(* reject an event that was already sent.                                  *)
ClaimIsFresh ==
  \A w \in Workers : pc[w] \in {"produce", "claim"} =>
    /\ Current(w) \cap processed = {}
    /\ \A v \in Workers \ {w} : Current(w) \cap (lease[v] \cup claimed[v]) = {}

(* A repeated message has a cause: the topic holds no more copies of an    *)
(* event than one, plus one for every failure and every replay.  Workers   *)
(* that compete for the outbox do not duplicate.                           *)
DuplicatesHaveCause ==
  \A e \in Events : Copies(e) <= 1 + faults + replays

(* A worker never sends an event that is already recorded as processed,    *)
(* even one that the injector has made unpublished again: the check before *)
(* the send finds it and marks its row, whatever other workers do.         *)
ResetIsSilent ==
  [][\A w \in Workers : topic' # topic /\ pc'[w] # pc[w] =>
       \A i \in DOMAIN topic' \ DOMAIN topic : topic'[i] \notin processed]_vars

(* What the comment on the injector says: an event that it has reset is    *)
(* sent again, as a duplicate for the consumers.                           *)
ResetIsReemitted ==
  \A e \in Events, n \in 1 .. (1 + MaxFaults + MaxReplays) :
    row[e] = "unpublished" /\ e \in processed /\ Copies(e) = n ~> Copies(e) > n

(* Events of the topic, which here all belong to one sandbox, appear for   *)
(* the first time in the order in which they were created.                 *)
SandboxOrder ==
  \A i, j \in DOMAIN topic :
    i < j /\ topic[j] < topic[i] =>
      \E k \in 1 .. (i - 1) : topic[k] = topic[j]

(* Every valid event is published in the end, whatever fails, although     *)
(* invalid events stay in the table and are leased again and again.        *)
ValidIsPublished ==
  \A e \in Events \ Invalid : row[e] = "unpublished" ~> row[e] = "published"
-----------------------------------------------------------------------------
(* The publisher as a stage of the pipeline, from the outbox to the topic. *)
Stage == INSTANCE Relay WITH
  input  <- { e \in Events : row[e] # "absent" },
  output <- Sent,
  done   <- processed

(* Workers, replayers and the injector together only ever send events of   *)
(* the outbox, and record an event after it was sent: no step of any of    *)
(* them, and no failure or crash, takes an event or a record back.         *)
ImplementsRelay == Stage!Spec
=============================================================================
