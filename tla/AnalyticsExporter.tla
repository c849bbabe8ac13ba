-------------------------- MODULE AnalyticsExporter --------------------------
(***************************************************************************)
(* analytics-exporter: the consumers of the group analytics-exporters read *)
(* billing-processed and export every message to ClickHouse.               *)
(*                                                                         *)
(* ReadMessage, without a CommitInterval, fetches a message and commits    *)
(* its offset before it returns; only then is the message exported.  Any   *)
(* error of ReadMessage ends the consumer for good: StartConsumer returns, *)
(* and the process goes on without it until it is started again.           *)
(*                                                                         *)
(* A definition named D_... is D with a mistake in it.  Nothing uses it;   *)
(* it is there to be put in the place of D, to see a property fail.        *)
(***************************************************************************)
EXTENDS ConsumerGroup

VARIABLES
  pc,         \* where each consumer is: in ReadMessage, exporting, or stopped
  hand,       \* the offset of the message it works on, 0 if none
  expired,    \* those whose generation has ended since they began to commit
  exported,   \* the offsets of the messages exported, in order
  origin      \* the last offset at which the group, having committed none, began

work == <<pc, hand, expired>>
vars == <<topic, group, faults, rebalances, work, exported, origin>>

(* The group has not committed yet. *)
NoOffset == -1

(* Consumer c goes on at a label with the message at offset i in hand. *)
Goto(c, label, i) ==
  /\ pc' = [pc EXCEPT ![c] = label]
  /\ hand' = [hand EXCEPT ![c] = i]
  /\ expired' = expired \ {c}
-----------------------------------------------------------------------------
Init ==
  /\ GroupInit(NoOffset)
  /\ pc = [c \in Consumers |-> "fetch"]
  /\ hand = [c \in Consumers |-> 0]
  /\ expired = {}
  /\ exported = << >>
  /\ origin = 0

(* billing-processor publishes a message, perhaps one more for its event. *)
PublishBillingProcessed(e) ==
  /\ Deliver(e)
  /\ UNCHANGED <<work, exported, origin>>
-----------------------------------------------------------------------------
(* The consumer group. *)

Begin_AtTheEnd(c) ==
  /\ StartAt(c, Len(topic))
  /\ origin' = IF committed = NoOffset THEN Len(topic) ELSE origin

(* StartOffset is LastOffset: while the group has committed nothing, a     *)
(* consumer begins behind whatever is in the topic.                        *)
Begin(c) ==
  IF committed = NoOffset
    THEN StartAt(c, Len(topic)) /\ origin' = Len(topic)
    ELSE StartAt(c, committed) /\ UNCHANGED origin

Rebalance_NotClosed(c) ==
  /\ pc[c] # "stopped"
  /\ rebalances < MaxRebalances
  /\ rebalances' = rebalances + 1
  /\ owner' = c
  /\ Begin(c)
  /\ expired' = { d \in Consumers : pc[d] = "commit" }
  /\ UNCHANGED <<topic, committed, faults, pc, hand, exported>>

(* The partition is assigned to a consumer that runs; always so when its   *)
(* owner has stopped, and closed its reader.  Whoever has a message in     *)
(* hand goes on, but the generation in which it may be committing ends,    *)
(* even if the partition stays where it was.                               *)
Rebalance(c) ==
  /\ pc[c] # "stopped"
  /\ rebalances < MaxRebalances \/ pc[owner] = "stopped"
  /\ rebalances' = rebalances + 1
  /\ owner' = c
  /\ Begin(c)
  /\ expired' = { d \in Consumers : pc[d] = "commit" }
  /\ UNCHANGED <<topic, committed, faults, pc, hand, exported>>

(* The process dies and starts again, or is started again by hand. *)
Crash(c) ==
  /\ Fault(1)
  /\ Goto(c, "fetch", 0)
  /\ IF owner = c THEN Begin(c) ELSE UNCHANGED <<position, origin>>
  /\ UNCHANGED <<topic, committed, owner, rebalances, exported>>
-----------------------------------------------------------------------------
(* StartConsumer: the read loop. *)

FetchNothing(c) == pc[c] = "fetch" /\ ~ Fetchable(c) /\ UNCHANGED vars

FetchMessage(c) ==
  /\ pc[c] = "fetch"
  /\ Fetch(c)
  /\ Goto(c, "commit", NextOffset(c))
  /\ UNCHANGED <<topic, committed, owner, faults, rebalances, exported, origin>>

CommitMessages_OneBehind(c) ==
  /\ pc[c] = "commit"
  /\ committed' = hand[c] - 1
  /\ Goto(c, "export", hand[c])
  /\ UNCHANGED <<topic, owner, position, faults, rebalances, exported, origin>>

(* The broker stores the offset, even below the committed one: a consumer  *)
(* that has lost the partition may commit what it has in hand with its new *)
(* membership of the group.                                                *)
CommitMessages(c) ==
  /\ pc[c] = "commit"
  /\ committed' = hand[c]
  /\ Goto(c, "export", hand[c])
  /\ UNCHANGED <<topic, owner, position, faults, rebalances, exported, origin>>

ExportToClickhouse(c) ==
  /\ pc[c] = "export"
  /\ exported' = Append(exported, hand[c])
  /\ Goto(c, "fetch", 0)
  /\ UNCHANGED <<topic, group, faults, rebalances, origin>>

(* An export that fails is logged; the loop goes on without it. *)
ExportError(c) ==
  /\ pc[c] = "export"
  /\ Fault(1)
  /\ Goto(c, "fetch", 0)
  /\ UNCHANGED <<topic, group, rebalances, exported, origin>>

ReadError_MessageKept(c) ==
  /\ Goto(c, "stopped", hand[c])
  /\ UNCHANGED <<topic, owner, position, rebalances, exported, origin>>

(* ReadMessage returns an error: the consumer ends. *)
ReadError(c) ==
  /\ Goto(c, "stopped", 0)
  /\ UNCHANGED <<topic, owner, position, rebalances, exported, origin>>

FetchError(c) ==
  pc[c] = "fetch" /\ Fault(1) /\ UNCHANGED committed /\ ReadError(c)

(* A commit that fails may have been stored. *)
CommitError(c) ==
  /\ pc[c] = "commit"
  /\ Fault(1)
  /\ committed' \in {committed, hand[c]}
  /\ ReadError(c)

(* The generation has ended while the commit was on its way: no failure,   *)
(* but an error to ReadMessage all the same.                               *)
CommitRejected(c) ==
  /\ c \in expired
  /\ UNCHANGED <<committed, faults>>
  /\ ReadError(c)

ConsumerStep(c) ==
  FetchNothing(c) \/ FetchMessage(c) \/ CommitMessages(c) \/ ExportToClickhouse(c)

ConsumerError(c) ==
  ExportError(c) \/ FetchError(c) \/ CommitError(c) \/ CommitRejected(c) \/ Crash(c)

Next ==
  \/ \E e \in Events : PublishBillingProcessed(e)
  \/ \E c \in Consumers : Rebalance(c) \/ ConsumerStep(c) \/ ConsumerError(c)

Spec == Init /\ [][Next]_vars

(* The read loop runs until it returns, and its calls return.  A consumer  *)
(* that has closed its reader loses the partition to another that runs.    *)
Fairness ==
  /\ \A c \in Consumers : WF_vars(ConsumerStep(c))
  /\ WF_vars(pc[owner] = "stopped" /\ \E c \in Consumers : Rebalance(c))

FairSpec == Spec /\ Fairness
-----------------------------------------------------------------------------
Exports(i) == Cardinality({ n \in DOMAIN exported : exported[n] = i })

TypeOK ==
  /\ GroupTypeOK
  /\ committed \in {NoOffset} \cup Offsets
  /\ pc \in [Consumers -> {"fetch", "commit", "export", "stopped"}]
  /\ \A c \in Consumers :
       IF pc[c] \in {"commit", "export"} THEN hand[c] \in Offsets ELSE hand[c] = 0
  /\ expired \subseteq { c \in Consumers : pc[c] = "commit" }
  /\ exported \in Seq(Offsets)
  /\ origin \in 0 .. Len(topic)

(* A message is exported again only because of rebalances, at most once    *)
(* more for each: the offset is committed before the export, so that a     *)
(* crash or an error alone never repeats one.                              *)
ReexportHasCause == \A i \in Offsets : Exports(i) <= 1 + rebalances

(* Of the messages that the reader of the partition has passed since the   *)
(* group began, all but one for each failure are exported or in somebody's *)
(* hands: the early commit loses nothing when consumers only come and go.  *)
LossIsBounded ==
  Cardinality((origin + 1 .. position[owner])
                \ ({ exported[n] : n \in DOMAIN exported }
                     \cup { hand[c] : c \in Consumers }))
    <= faults

(* While not every consumer has stopped, some reader gets to every message *)
(* of the topic, whatever fails.                                           *)
MessageIsReached ==
  \A i \in 1 .. MaxDeliveries :
    i \in Offsets ~>
      (i <= position[owner] \/ \A c \in Consumers : pc[c] = "stopped")
=============================================================================
