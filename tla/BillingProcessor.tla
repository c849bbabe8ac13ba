--------------------------- MODULE BillingProcessor ---------------------------
(***************************************************************************)
(* billing-processor: the consumers of the group billing-processors read   *)
(* billing chunks from a partition of usage-billing-chunks, submit them to *)
(* Metronome, publish them on billing-processed and record them in         *)
(* processed_billing_events.                                               *)
(*                                                                         *)
(* Messages are read with ReadMessage, which hands the offset to a         *)
(* background commit (CommitInterval) together with the message, before    *)
(* any of the work on it.                                                  *)
(*                                                                         *)
(* A definition named D_... is D with a mistake in it.  Nothing uses it;   *)
(* it is there to be put in the place of D, to see a property fail.        *)
(***************************************************************************)
EXTENDS ConsumerGroup

CONSTANTS
  NoEvent,        \* no message in hand
  MaxAttempts     \* tries of the Kafka writer in one call

ASSUME NoEventAssumption  == NoEvent \notin Events
ASSUME AttemptsAssumption == MaxAttempts \in Nat \ {0}

VARIABLES
  pending,     \* the last offset each consumer has handed to the background commit
  pc,          \* where each consumer is in ProcessBillingChunk
  msg,         \* the event it works on
  processed,   \* table processed_billing_events
  metronome,   \* submissions accepted by Metronome, by event
  billed       \* the topic billing-processed, by event

offsets == <<group, pending>>
work    == <<pc, msg>>
effects == <<processed, metronome, billed>>
vars    == <<topic, offsets, work, effects, faults, rebalances>>

(* Consumer c goes on at a label; back at the read loop it has no message. *)
Goto(c, label) ==
  /\ pc' = [pc EXCEPT ![c] = label]
  /\ msg' = [msg EXCEPT ![c] = IF label = "read" THEN NoEvent ELSE @]
-----------------------------------------------------------------------------
Init ==
  /\ GroupInit(0)
  /\ pending = [c \in Consumers |-> 0]
  /\ pc = [c \in Consumers |-> "read"]
  /\ msg = [c \in Consumers |-> NoEvent]
  /\ processed = {}
  /\ metronome = << >>
  /\ billed = << >>

(* outbox-publisher writes a message, perhaps one more for the same event. *)
DeliverBillingChunk(e) ==
  /\ Deliver(e)
  /\ UNCHANGED <<pending, work, effects>>
-----------------------------------------------------------------------------
(* The consumer group. *)

(* The ticker of CommitInterval: all offsets handed over so far. *)
FlushCommit(c) ==
  /\ owner = c
  /\ committed < pending[c]
  /\ committed' = pending[c]
  /\ UNCHANGED <<topic, owner, position, pending, work, effects, faults, rebalances>>

(* The partition is assigned anew.  The previous owner may still commit    *)
(* what it has handed over; it is not interrupted in its work.             *)
Rebalance(c) ==
  /\ rebalances < MaxRebalances
  /\ rebalances' = rebalances + 1
  /\ \/ committed' = committed
     \/ committed' = pending[owner]
  /\ owner' = c
  /\ StartAt(c, committed')
  /\ pending' = [pending EXCEPT ![c] = committed']
  /\ UNCHANGED <<topic, work, effects, faults>>

(* A replica dies and starts again; while the group does not notice, its   *)
(* new consumer begins at the committed offset.                            *)
Crash(c) ==
  /\ Fault(1)
  /\ Goto(c, "read")
  /\ StartAt(c, committed)
  /\ pending' = [pending EXCEPT ![c] = committed]
  /\ UNCHANGED <<topic, committed, owner, effects, rebalances>>
-----------------------------------------------------------------------------
(* StartConsumer: the read loop. *)

(* The read times out after five seconds and is tried again. *)
ReadNothing(c) == pc[c] = "read" /\ ~ Fetchable(c) /\ UNCHANGED vars

ReadMessage_CommitsNext(c) ==
  /\ pc[c] = "read"
  /\ Fetch(c)
  /\ pending' = [pending EXCEPT ![c] = NextOffset(c) + 1]
  /\ msg' = [msg EXCEPT ![c] = topic[NextOffset(c)]]
  /\ pc' = [pc EXCEPT ![c] = "check"]
  /\ UNCHANGED <<topic, committed, owner, effects, faults, rebalances>>

ReadMessage(c) ==
  /\ pc[c] = "read"
  /\ Fetch(c)
  /\ pending' = [pending EXCEPT ![c] = NextOffset(c)]
  /\ msg' = [msg EXCEPT ![c] = topic[NextOffset(c)]]
  /\ pc' = [pc EXCEPT ![c] = "check"]
  /\ UNCHANGED <<topic, committed, owner, effects, faults, rebalances>>

(* The timeout strikes after the fetch, before the offset is handed over:  *)
(* ReadMessage returns the error, the message is gone.                     *)
ReadTimeout(c) ==
  /\ pc[c] = "read"
  /\ Fault(1)
  /\ Fetch(c)
  /\ UNCHANGED <<topic, committed, owner, pending, work, effects, rebalances>>
-----------------------------------------------------------------------------
(* ProcessBillingChunk. *)

CheckIdempotency_Dropped(c) ==
  /\ pc[c] = "check"
  /\ Goto(c, "submit")
  /\ UNCHANGED <<topic, offsets, effects, faults, rebalances>>

CheckIdempotency(c) ==
  /\ pc[c] = "check"
  /\ Goto(c, IF msg[c] \in processed THEN "read" ELSE "submit")
  /\ UNCHANGED <<topic, offsets, effects, faults, rebalances>>

SendToMetronome_NotSent(c) ==
  /\ pc[c] = "submit"
  /\ Goto(c, "publish")
  /\ UNCHANGED <<topic, offsets, effects, faults, rebalances>>

SendToMetronome(c) ==
  /\ pc[c] = "submit"
  /\ metronome' = Append(metronome, msg[c])
  /\ Goto(c, "publish")
  /\ UNCHANGED <<topic, offsets, processed, billed, faults, rebalances>>

(* n messages reach billing-processed.  The writer sets no RequiredAcks:   *)
(* it does not wait for the broker, and a message may be lost unnoticed.   *)
Write(c, n) ==
  /\ billed' = billed \o [i \in 1 .. n |-> msg[c]]
  /\ UNCHANGED <<topic, offsets, processed, metronome, rebalances>>

PublishBillingProcessed(c) ==
  /\ pc[c] = "publish"
  /\ Goto(c, "insert")
  /\ \E n \in 0 .. MaxAttempts :
       Write(c, n) /\ Fault(IF n = 0 THEN 1 ELSE n - 1)

(* The error is logged by the read loop, which goes on: no later read      *)
(* returns this message unless the consumer starts anew.                   *)
PublishError(c) ==
  /\ pc[c] = "publish"
  /\ Goto(c, "read")
  /\ \E n \in 0 .. MaxAttempts : Write(c, n) /\ Fault(IF n = 0 THEN 1 ELSE n)

(* A row of the same event that another transaction has inserted but not   *)
(* committed makes the insert wait.                                        *)
Blocked(c) ==
  \E d \in Consumers \ {c} : pc[d] = "commit" /\ msg[d] = msg[c]

(* Against the unique key the event is taken as done. *)
InsertProcessedBillingEvent(c) ==
  /\ pc[c] = "insert"
  /\ ~ Blocked(c)
  /\ Goto(c, IF msg[c] \in processed THEN "read" ELSE "commit")
  /\ UNCHANGED <<topic, offsets, effects, faults, rebalances>>

Commit_RolledBack(c) ==
  /\ pc[c] = "commit"
  /\ Goto(c, "read")
  /\ UNCHANGED <<topic, offsets, effects, faults, rebalances>>

Commit(c) ==
  /\ pc[c] = "commit"
  /\ processed' = processed \cup {msg[c]}
  /\ Goto(c, "read")
  /\ UNCHANGED <<topic, offsets, metronome, billed, faults, rebalances>>

(* A statement or the commit fails; a failed commit may have taken effect. *)
ProcessError(c) ==
  /\ Fault(1)
  /\ \/ pc[c] \in {"check", "insert", "commit"} /\ UNCHANGED processed
     \/ pc[c] = "commit" /\ processed' = processed \cup {msg[c]}
  /\ Goto(c, "read")
  /\ UNCHANGED <<topic, offsets, metronome, billed, rebalances>>

ConsumerStep(c) ==
  ReadNothing(c) \/ ReadMessage(c) \/ CheckIdempotency(c) \/ SendToMetronome(c)
    \/ PublishBillingProcessed(c) \/ InsertProcessedBillingEvent(c) \/ Commit(c)

ConsumerError(c) == ReadTimeout(c) \/ PublishError(c) \/ ProcessError(c) \/ Crash(c)

Next ==
  \/ \E e \in Events : DeliverBillingChunk(e)
  \/ \E c \in Consumers :
       FlushCommit(c) \/ Rebalance(c) \/ ConsumerStep(c) \/ ConsumerError(c)

Spec == Init /\ [][Next]_vars

(* The read loop runs until the service stops, and its calls return.       *)
Fairness == \A c \in Consumers : WF_vars(ConsumerStep(c))

FairSpec == Spec /\ Fairness
-----------------------------------------------------------------------------
InHand == { msg[c] : c \in { d \in Consumers : pc[d] # "read" } }

Submissions(e) == Cardinality({ i \in DOMAIN metronome : metronome[i] = e })

TypeOK ==
  /\ GroupTypeOK
  /\ committed \in 0 .. Len(topic)
  /\ pending \in [Consumers -> 0 .. Len(topic)]
  /\ \A c \in Consumers : pending[c] <= position[c]
  /\ pc \in [Consumers ->
               {"read", "check", "submit", "publish", "insert", "commit"}]
  /\ msg \in [Consumers -> Events \cup {NoEvent}]
  /\ processed \subseteq Events
  /\ metronome \in Seq(Events)
  /\ billed \in Seq(Events)

(* The record of a chunk is never ahead of its effects: an event in        *)
(* processed_billing_events, which no delivery will bill again, has been   *)
(* submitted to Metronome, and so has every event on billing-processed.    *)
(* Without a failure it is on billing-processed as well.                   *)
ProcessedWasSubmitted ==
  /\ \A e \in processed : Submissions(e) > 0
  /\ \A i \in DOMAIN billed : Submissions(billed[i]) > 0
  /\ faults = 0 => processed \subseteq { billed[i] : i \in DOMAIN billed }

(* A charge is submitted twice only for a cause: duplicates in the topic   *)
(* do not add to the submissions of an event, only failures and            *)
(* rebalances do, and each of them adds at most one.                       *)
ResubmissionHasCause ==
  \A e \in Events : Submissions(e) <= 1 + faults + rebalances

(* What the group has committed and nobody works on is processed, but for  *)
(* at most one event per failure: rebalances and redeliveries lose nothing *)
(* by themselves, and a failure loses no more than the message it hit.     *)
LossIsBounded ==
  Cardinality({ topic[i] : i \in 1 .. committed } \ (processed \cup InHand))
    <= faults

(* An offset is committed only after its message was processed.            *)
OffsetsFollowProcessing == \A i \in 1 .. committed : topic[i] \in processed

(* Every message in the topic is processed, wherever rebalances interrupt  *)
(* its readers, unless a failure loses it.                                 *)
DeliveredIsProcessed ==
  \A e \in Events :
    (\E i \in DOMAIN topic : topic[i] = e) ~> (e \in processed \/ faults > 0)
-----------------------------------------------------------------------------
(* The processor as a stage of the pipeline, from the topic to Metronome. *)
Stage == INSTANCE Relay WITH
  input  <- { topic[i] : i \in Offsets },
  output <- { metronome[i] : i \in DOMAIN metronome },
  done   <- processed

(* Whatever the group, the failures and the redeliveries do, only events   *)
(* of the topic are submitted to Metronome, and an event is recorded, and  *)
(* from then on skipped, only after it was submitted.                      *)
ImplementsRelay == Stage!Spec
=============================================================================
