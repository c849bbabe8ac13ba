---------------------------- MODULE ConsumerGroup ----------------------------
(***************************************************************************)
(* What billing-processor and analytics-exporter see of Kafka: a consumer  *)
(* group that reads one partition of a topic through the kafka-go Reader.  *)
(* Partitions share nothing but the consumers, so one is modelled.         *)
(*                                                                         *)
(* The group assigns the partition to one of its consumers and remembers   *)
(* an offset; a consumer reads on from its own position, which it takes    *)
(* from the group whenever it is started or assigned the partition.  When  *)
(* and what a consumer commits is up to the services.                      *)
(***************************************************************************)
EXTENDS Integers, Sequences, FiniteSets

CONSTANTS
  Events,         \* event ids
  Consumers,      \* the replicas of the service, one consumer each
  MaxDeliveries,  \* bound: messages in the partition
  MaxFaults,      \* bound: failed calls, lost or repeated writes and crashes
  MaxRebalances   \* bound: rebalances that no failure explains

ASSUME BoundsAssumption == {MaxDeliveries, MaxFaults, MaxRebalances} \subseteq Nat

VARIABLES
  topic,       \* the partition: the event of every message, offsets from 1
  committed,   \* the last offset committed by the group
  owner,       \* the consumer that the partition is assigned to
  position,    \* the last offset each consumer has fetched
  faults, rebalances

group == <<committed, owner, position>>

Fault(n) == faults + n <= MaxFaults /\ faults' = faults + n

GroupInit(noOffset) ==
  /\ topic = << >>
  /\ committed = noOffset
  /\ owner \in Consumers
  /\ position = [c \in Consumers |-> 0]
  /\ faults = 0 /\ rebalances = 0

(* A producer writes a message of event e, perhaps one more for it. *)
Deliver(e) ==
  /\ Len(topic) < MaxDeliveries
  /\ topic' = Append(topic, e)
  /\ UNCHANGED <<group, faults, rebalances>>

Fetchable(c) == owner = c /\ position[c] < Len(topic)

NextOffset(c) == position[c] + 1

Fetch(c) == Fetchable(c) /\ position' = [position EXCEPT ![c] = NextOffset(c)]

StartAt(c, offset) == position' = [position EXCEPT ![c] = offset]

Offsets == DOMAIN topic

GroupTypeOK ==
  /\ topic \in Seq(Events)
  /\ owner \in Consumers
  /\ position \in [Consumers -> 0 .. Len(topic)]
  /\ faults \in Nat /\ rebalances \in Nat
=============================================================================
