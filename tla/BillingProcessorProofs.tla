------------------------ MODULE BillingProcessorProofs ------------------------
(***************************************************************************)
(* Proofs about BillingProcessor: its types, that what it has recorded or  *)
(* published was submitted to Metronome, and that it is a Relay from the   *)
(* topic to Metronome, for any number of events, consumers, deliveries,    *)
(* rebalances and failures.                                                *)
(*                                                                         *)
(* Nothing here depends on the offsets: the argument follows each consumer *)
(* through the steps of its work on one message.                           *)
(***************************************************************************)
EXTENDS BillingProcessor, FiniteSetTheorems, TLAPS

Delivered == { topic[i] : i \in Offsets }
Submitted == { metronome[i] : i \in DOMAIN metronome }
Announced == { billed[i] : i \in DOMAIN billed }

(* How far consumer c is with its message, read off from its label. *)
OnTheWay(c) ==
  /\ pc[c] # "read" => msg[c] \in Delivered
  /\ pc[c] \in {"publish", "insert", "commit"} => msg[c] \in Submitted
  /\ pc[c] \in {"insert", "commit"} /\ faults = 0 => msg[c] \in Announced

(* What ProcessedWasSubmitted says, in sets. *)
RecordsAgree ==
  /\ processed \subseteq Submitted
  /\ Announced \subseteq Submitted
  /\ faults = 0 => processed \subseteq Announced

(* The inductive invariant. *)
IndInv ==
  /\ TypeOK
  /\ RecordsAgree
  /\ \A c \in Consumers : OnTheWay(c)
-----------------------------------------------------------------------------
(* Sequences that grow. *)

LEMMA AppendAdds ==
  ASSUME NEW S, NEW s \in Seq(S), NEW e \in S, NEW t, t = Append(s, e)
  PROVE  /\ t \in Seq(S) /\ Len(t) = Len(s) + 1
         /\ \A i \in DOMAIN s : t[i] = s[i]
         /\ { t[i] : i \in DOMAIN t } = { s[i] : i \in DOMAIN s } \cup {e}
<1>1. t \in Seq(S) /\ Len(t) = Len(s) + 1 /\ t[Len(t)] = e
  OBVIOUS
<1>2. \A i \in DOMAIN s : t[i] = s[i] /\ i \in DOMAIN t
  OBVIOUS
<1>3. \A i \in DOMAIN t : i \in DOMAIN s \/ i = Len(t)
  BY <1>1
<1>4. Len(t) \in DOMAIN t
  BY <1>1
<1> QED BY <1>1, <1>2, <1>3, <1>4

LEMMA WriteAdds ==
  ASSUME TypeOK, NEW c \in Consumers, msg[c] \in Events, NEW n \in Nat, Write(c, n)
  PROVE  /\ billed' \in Seq(Events)
         /\ Announced \subseteq Announced'
         /\ Announced' \subseteq Announced \cup {msg[c]}
         /\ n > 0 => msg[c] \in Announced'
<1> DEFINE copies == [i \in 1 .. n |-> msg[c]]
<1>1. billed \in Seq(Events) /\ copies \in Seq(Events) /\ Len(copies) = n
  BY DEF TypeOK
<1>2. \A i \in 1 .. n : copies[i] = msg[c]
  OBVIOUS
<1>3. billed' = billed \o copies
  BY DEF Write
<1> HIDE DEF copies
<1>4. billed' \in Seq(Events) /\ Len(billed') = Len(billed) + n
  <2>1. billed \o copies \in Seq(Events)
    BY <1>1
  <2>2. Len(billed \o copies) = Len(billed) + n
    BY <1>1
  <2> QED BY <1>3, <2>1, <2>2
<1>5. \A i \in 1 .. Len(billed) : billed'[i] = billed[i]
  BY <1>1, <1>3
<1>6. ASSUME NEW i \in 1 .. Len(billed') PROVE billed'[i] \in Announced \cup {msg[c]}
  <2>1. CASE i <= Len(billed)
    BY <1>1, <1>4, <1>5, <2>1 DEF Announced
  <2>2. CASE i > Len(billed)
    <3>1. i - Len(billed) \in 1 .. n /\ billed'[i] = copies[i - Len(billed)]
      BY <1>1, <1>3, <1>4, <2>2
    <3> QED BY <1>2, <3>1
  <2> QED BY <1>1, <1>4, <2>1, <2>2
<1>7. ASSUME n > 0 PROVE msg[c] \in Announced'
  <2>1. Len(billed) + 1 \in DOMAIN billed' /\ billed'[Len(billed) + 1] = copies[1]
    BY <1>1, <1>3, <1>4, <1>7
  <2> QED BY <1>2, <1>7, <2>1 DEF Announced
<1>8. Announced' \subseteq Announced \cup {msg[c]}
  BY <1>4, <1>6 DEF Announced
<1>9. Announced \subseteq Announced'
  <2>1. \A i \in DOMAIN billed : i \in DOMAIN billed' /\ billed'[i] = billed[i]
    BY <1>1, <1>4, <1>5
  <2> QED BY <2>1 DEF Announced
<1> QED BY <1>4, <1>7, <1>8, <1>9

(* An event that was submitted has a submission to count. *)
LEMMA SubmittedCounts ==
  ASSUME metronome \in Seq(Events), NEW e \in Submitted
  PROVE  Submissions(e) > 0
<1> DEFINE I == { i \in DOMAIN metronome : metronome[i] = e }
<1>1. IsFiniteSet(1 .. Len(metronome)) /\ I \subseteq 1 .. Len(metronome)
  BY FS_Interval
<1>2. IsFiniteSet(I)
  BY <1>1, FS_Subset
<1>3. I # {}
  BY DEF Submitted
<1>4. Cardinality(I) \in Nat /\ Cardinality(I) # 0
  BY <1>2, <1>3, FS_CardinalityType, FS_EmptySet
<1> QED BY <1>4 DEF Submissions
(* Types. *)

LEMMA InHandIsEvent ==
  ASSUME IndInv, NEW c \in Consumers, pc[c] # "read"
  PROVE  msg[c] \in Events
BY DEF IndInv, TypeOK, GroupTypeOK, OnTheWay, Delivered, Offsets

WorkType ==
  /\ pc \in [Consumers ->
               {"read", "check", "submit", "publish", "insert", "commit"}]
  /\ msg \in [Consumers -> Events \cup {NoEvent}]

LEMMA GotoType ==
  ASSUME TypeOK, NEW c \in Consumers,
         NEW label \in {"read", "check", "submit", "publish", "insert", "commit"},
         Goto(c, label)
  PROVE  WorkType' /\ pc'[c] = label
BY DEF TypeOK, Goto, WorkType

LEMMA FaultType ==
  ASSUME TypeOK, NEW n \in Nat, Fault(n)
  PROVE  faults' \in Nat /\ (faults' = 0 => faults = 0 /\ n = 0)
BY DEF TypeOK, GroupTypeOK, Fault

(* The partition and the offsets of the group. *)
OffsetType ==
  /\ topic \in Seq(Events)
  /\ owner \in Consumers
  /\ position \in [Consumers -> 0 .. Len(topic)]
  /\ committed \in 0 .. Len(topic)
  /\ pending \in [Consumers -> 0 .. Len(topic)]
  /\ \A c \in Consumers : pending[c] <= position[c]

LEMMA GroupStepType ==
  ASSUME IndInv,
         \/ \E e \in Events : DeliverBillingChunk(e)
         \/ \E c \in Consumers : FlushCommit(c) \/ Rebalance(c) \/ Crash(c)
         \/ \E c \in Consumers : ReadMessage(c) \/ ReadTimeout(c)
  PROVE  OffsetType'
<1>1. TypeOK /\ OffsetType
  BY DEF IndInv, TypeOK, GroupTypeOK, OffsetType
<1>2. CASE \E e \in Events : DeliverBillingChunk(e)
  <2>1. PICK e \in Events : topic' = Append(topic, e) /\ UNCHANGED <<group, pending>>
    BY <1>2 DEF DeliverBillingChunk, Deliver
  <2>2. topic' \in Seq(Events) /\ Len(topic') = Len(topic) + 1
    BY <1>1, <2>1 DEF OffsetType
  <2>3. 0 .. Len(topic) \subseteq 0 .. Len(topic')
    BY <1>1, <2>2 DEF OffsetType
  <2> QED BY <1>1, <2>1, <2>2, <2>3 DEF OffsetType, group
<1>3. ASSUME NEW c \in Consumers, FlushCommit(c) PROVE OffsetType'
  BY <1>1, <1>3 DEF FlushCommit, OffsetType
<1>4. ASSUME NEW c \in Consumers, NEW o \in 0 .. Len(topic), owner' \in Consumers,
             position' = [position EXCEPT ![c] = o],
             pending' = [pending EXCEPT ![c] = o],
             committed' \in 0 .. Len(topic), topic' = topic
      PROVE  OffsetType'
  BY <1>1, <1>4 DEF OffsetType
<1>5. ASSUME NEW c \in Consumers, Rebalance(c) PROVE OffsetType'
  <2>1. committed' \in 0 .. Len(topic)
    BY <1>1, <1>5 DEF Rebalance, OffsetType
  <2> QED BY <1>4, <1>5, <2>1 DEF Rebalance, StartAt
<1>6. ASSUME NEW c \in Consumers, Crash(c) PROVE OffsetType'
  BY <1>1, <1>4, <1>6 DEF Crash, StartAt, OffsetType
<1>7. ASSUME NEW c \in Consumers, Fetch(c), topic' = topic,
             UNCHANGED <<committed, owner>>,
             pending' \in {pending, [pending EXCEPT ![c] = NextOffset(c)]}
      PROVE  OffsetType'
  <2>1. NextOffset(c) \in 0 .. Len(topic) /\ NextOffset(c) = position[c] + 1
    BY <1>1, <1>7 DEF Fetch, Fetchable, NextOffset, OffsetType
  <2>2. position' = [position EXCEPT ![c] = NextOffset(c)]
    BY <1>7 DEF Fetch
  <2> QED BY <1>1, <1>7, <2>1, <2>2 DEF OffsetType
<1>8. ASSUME NEW c \in Consumers, ReadMessage(c) \/ ReadTimeout(c) PROVE OffsetType'
  BY <1>7, <1>8 DEF ReadMessage, ReadTimeout
<1> QED BY <1>2, <1>3, <1>5, <1>6, <1>8
-----------------------------------------------------------------------------
(* The invariant. *)

EffectType ==
  /\ processed \subseteq Events
  /\ metronome \in Seq(Events)
  /\ billed \in Seq(Events)
  /\ faults \in Nat /\ rebalances \in Nat

LEMMA TypeParts ==
  /\ TypeOK <=> OffsetType /\ WorkType /\ EffectType
  /\ (TypeOK <=> OffsetType /\ WorkType /\ EffectType)'
BY DEF TypeOK, GroupTypeOK, OffsetType, WorkType, EffectType

(* What a step leaves to those who have no part in it. *)
Grows ==
  /\ Delivered \subseteq Delivered'
  /\ Submitted \subseteq Submitted'
  /\ Announced \subseteq Announced'
  /\ faults' = 0 => faults = 0

LEMMA OtherOnTheWay ==
  ASSUME NEW d, OnTheWay(d), Grows, pc'[d] = pc[d], msg'[d] = msg[d]
  PROVE  OnTheWay(d)'
BY DEF OnTheWay, Grows

(* A step of consumer c in its work on a message. *)
LEMMA WorkFrame ==
  ASSUME IndInv, NEW c \in Consumers,
         NEW label \in {"read", "check", "submit", "publish", "insert", "commit"},
         Goto(c, label), topic' = topic, OffsetType', EffectType', Grows,
         RecordsAgree', OnTheWay(c)'
  PROVE  IndInv'
<1>1. WorkType' /\ TypeOK'
  BY GotoType, TypeParts DEF IndInv
<1>2. ASSUME NEW d \in Consumers, d # c PROVE OnTheWay(d)'
  <2>1. pc'[d] = pc[d] /\ msg'[d] = msg[d]
    BY <1>2, TypeParts DEF Goto, IndInv, WorkType
  <2> QED BY <2>1, OtherOnTheWay DEF IndInv
<1> QED BY <1>1, <1>2 DEF IndInv

(* Where Goto takes consumer c. *)
LEMMA GotoLocal ==
  ASSUME IndInv, NEW c \in Consumers, NEW label, Goto(c, label)
  PROVE  pc'[c] = label /\ (label # "read" => msg'[c] = msg[c])
BY TypeParts DEF Goto, IndInv, WorkType

LEMMA OffsetsKept ==
  ASSUME IndInv, UNCHANGED <<topic, offsets>>
  PROVE  OffsetType' /\ Delivered' = Delivered
BY TypeParts DEF IndInv, OffsetType, offsets, group, Delivered, Offsets

(* Back at the read loop, with nothing done. *)
LEMMA GiveUp ==
  ASSUME IndInv, NEW c \in Consumers, Goto(c, "read"), topic' = topic, OffsetType',
         UNCHANGED <<effects, rebalances>>,
         faults' \in Nat, faults' = 0 => faults = 0
  PROVE  IndInv'
<1>1. EffectType'
  BY TypeParts DEF IndInv, EffectType, effects
<1>2. Delivered' = Delivered /\ Submitted' = Submitted /\ Announced' = Announced
  BY DEF effects, Delivered, Offsets, Submitted, Announced
<1>3. Grows /\ RecordsAgree'
  BY <1>2 DEF IndInv, Grows, RecordsAgree, effects
<1>4. OnTheWay(c)'
  BY GotoLocal DEF OnTheWay
<1> QED BY <1>1, <1>3, <1>4, WorkFrame

LEMMA GroupSafe ==
  ASSUME IndInv,
         \/ \E e \in Events : DeliverBillingChunk(e)
         \/ \E c \in Consumers : FlushCommit(c) \/ Rebalance(c) \/ Crash(c)
         \/ \E c \in Consumers : ReadMessage(c) \/ ReadTimeout(c)
  PROVE  IndInv'
<1>1. OffsetType'
  BY GroupStepType
<1>2. OffsetType /\ WorkType /\ EffectType
  BY TypeParts DEF IndInv
<1>3. ASSUME UNCHANGED <<work, effects>>, faults' \in Nat, faults' = 0 => faults = 0,
             rebalances' \in Nat, Delivered \subseteq Delivered'
      PROVE  IndInv'
  <2>1. WorkType' /\ EffectType'
    BY <1>2, <1>3 DEF WorkType, EffectType, work, effects
  <2>2. Grows /\ RecordsAgree'
    <3>1. Submitted' = Submitted /\ Announced' = Announced
      BY <1>3 DEF effects, Submitted, Announced
    <3> QED BY <1>3, <3>1 DEF IndInv, Grows, RecordsAgree, effects
  <2>3. \A d \in Consumers : OnTheWay(d)'
    BY <1>3, <2>2, OtherOnTheWay DEF IndInv, work
  <2> QED BY <1>1, <2>1, <2>2, <2>3, TypeParts DEF IndInv
<1>4. CASE \E e \in Events : DeliverBillingChunk(e)
  <2>1. PICK e \in Events : Deliver(e) /\ UNCHANGED <<pending, work, effects>>
    BY <1>4 DEF DeliverBillingChunk
  <2>2. Delivered' = Delivered \cup {e}
    <3>1. topic' = Append(topic, e) /\ topic \in Seq(Events)
      BY <1>2, <2>1 DEF Deliver, OffsetType
    <3>2. { topic'[i] : i \in DOMAIN topic' } = { topic[i] : i \in DOMAIN topic } \cup {e}
      BY <3>1, AppendAdds
    <3> QED BY <3>2 DEF Delivered, Offsets
  <2> QED BY <1>2, <1>3, <2>1, <2>2 DEF Deliver, EffectType
<1>5. CASE \E c \in Consumers : FlushCommit(c) \/ Rebalance(c)
  <2>1. UNCHANGED <<topic, work, effects, faults>>
    BY <1>5 DEF FlushCommit, Rebalance
  <2>2. rebalances' \in Nat
    BY <1>2, <1>5 DEF FlushCommit, Rebalance, EffectType
  <2> QED BY <1>2, <1>3, <2>1, <2>2 DEF EffectType, Delivered, Offsets
<1>6. CASE \E c \in Consumers : Crash(c)
  <2>1. PICK c \in Consumers : Crash(c)
    BY <1>6
  <2>2. faults' \in Nat /\ (faults' = 0 => faults = 0)
    BY <1>2, <2>1, FaultType DEF Crash, IndInv
  <2> QED BY <1>1, <2>1, <2>2, GiveUp DEF Crash
<1>7. CASE \E c \in Consumers : ReadTimeout(c)
  <2>1. UNCHANGED <<topic, work, effects, rebalances>>
    BY <1>7 DEF ReadTimeout
  <2>2. faults' \in Nat /\ (faults' = 0 => faults = 0)
    BY <1>7, FaultType DEF ReadTimeout, IndInv
  <2> QED BY <1>2, <1>3, <2>1, <2>2 DEF EffectType, Delivered, Offsets
<1>8. CASE \E c \in Consumers : ReadMessage(c)
  <2>1. PICK c \in Consumers : ReadMessage(c)
    BY <1>8
  <2>2. /\ UNCHANGED <<topic, effects, faults, rebalances>>
        /\ msg' = [msg EXCEPT ![c] = topic[NextOffset(c)]]
        /\ pc' = [pc EXCEPT ![c] = "check"]
    BY <2>1 DEF ReadMessage
  <2>3. NextOffset(c) \in 1 .. Len(topic)
    BY <1>2, <2>1 DEF ReadMessage, Fetch, Fetchable, NextOffset, OffsetType
  <2>4. topic[NextOffset(c)] \in Events /\ topic[NextOffset(c)] \in Delivered
    BY <1>2, <2>3 DEF OffsetType, Delivered, Offsets
  <2>5. WorkType' /\ EffectType'
    BY <1>2, <2>2, <2>4 DEF WorkType, EffectType, effects
  <2>6. Grows /\ RecordsAgree' /\ Delivered' = Delivered
    <3>1. Delivered' = Delivered /\ Submitted' = Submitted /\ Announced' = Announced
      BY <2>2 DEF effects, Delivered, Offsets, Submitted, Announced
    <3> QED BY <2>2, <3>1 DEF IndInv, Grows, RecordsAgree, effects
  <2>7. OnTheWay(c)'
    BY <1>2, <2>2, <2>4, <2>6 DEF OnTheWay, WorkType
  <2>8. ASSUME NEW d \in Consumers, d # c PROVE OnTheWay(d)'
    <3>1. pc'[d] = pc[d] /\ msg'[d] = msg[d]
      BY <1>2, <2>2, <2>8 DEF WorkType
    <3> QED BY <2>6, <3>1, OtherOnTheWay DEF IndInv
  <2> QED BY <1>1, <2>5, <2>6, <2>7, <2>8, TypeParts DEF IndInv
<1> QED BY <1>4, <1>5, <1>6, <1>7, <1>8

(* The record of the event in hand, after which nothing is left to do. *)
LEMMA RecordSafe ==
  ASSUME IndInv, NEW c \in Consumers, pc[c] = "commit", Goto(c, "read"),
         processed' = processed \cup {msg[c]},
         UNCHANGED <<topic, offsets, metronome, billed, rebalances>>,
         faults' \in Nat, faults' = 0 => faults = 0
  PROVE  IndInv'
<1>1. EffectType /\ OnTheWay(c) /\ RecordsAgree
  BY TypeParts DEF IndInv
<1>2. OffsetType' /\ Delivered' = Delivered
  BY OffsetsKept
<1>3. Submitted' = Submitted /\ Announced' = Announced
  BY DEF Submitted, Announced
<1>4. msg[c] \in Events
  BY InHandIsEvent
<1>5. EffectType' /\ RecordsAgree' /\ Grows
  BY <1>1, <1>2, <1>3, <1>4 DEF EffectType, RecordsAgree, OnTheWay, Grows
<1>6. OnTheWay(c)'
  BY GotoLocal DEF OnTheWay
<1> QED BY <1>2, <1>5, <1>6, WorkFrame

LEMMA StepSafe ==
  ASSUME IndInv, NEW c \in Consumers, ConsumerStep(c)
  PROVE  IndInv'
<1>1. TypeOK /\ WorkType /\ EffectType /\ OnTheWay(c) /\ RecordsAgree
  BY TypeParts DEF IndInv
<1>2. CASE ReadNothing(c)
  <2>1. UNCHANGED vars
    BY <1>2 DEF ReadNothing
  <2>2. UNCHANGED <<topic, offsets, work, effects, faults, rebalances>>
    BY <2>1 DEF vars
  <2>3. OffsetType' /\ Delivered' = Delivered
    BY <2>2, OffsetsKept
  <2>4. Submitted' = Submitted /\ Announced' = Announced
    BY <2>2 DEF effects, Submitted, Announced
  <2>5. WorkType' /\ EffectType' /\ RecordsAgree' /\ Grows
    BY <1>1, <2>2, <2>3, <2>4
       DEF WorkType, EffectType, RecordsAgree, Grows, work, effects
  <2>6. \A d \in Consumers : OnTheWay(d)'
    BY <2>2, <2>5, OtherOnTheWay DEF IndInv, work
  <2> QED BY <2>3, <2>5, <2>6, TypeParts DEF IndInv
<1>3. CASE ReadMessage(c)
  BY <1>3, GroupSafe
<1>4. CASE CheckIdempotency(c) \/ InsertProcessedBillingEvent(c)
  <2>1. PICK label \in {"read", "submit", "commit"} :
          /\ Goto(c, label)
          /\ label = "submit" => pc[c] = "check"
          /\ label = "commit" => pc[c] = "insert"
    BY <1>4 DEF CheckIdempotency, InsertProcessedBillingEvent
  <2>2. UNCHANGED <<topic, offsets, effects, faults, rebalances>>
    BY <1>4 DEF CheckIdempotency, InsertProcessedBillingEvent
  <2>3. OffsetType' /\ Delivered' = Delivered
    BY <2>2, OffsetsKept
  <2>4. Submitted' = Submitted /\ Announced' = Announced
    BY <2>2 DEF effects, Submitted, Announced
  <2>5. EffectType' /\ RecordsAgree' /\ Grows
    BY <1>1, <2>2, <2>3, <2>4 DEF EffectType, RecordsAgree, Grows, effects
  <2>6. OnTheWay(c)'
    BY <1>1, <2>1, <2>2, <2>3, <2>4, GotoLocal DEF OnTheWay
  <2> QED BY <2>1, <2>2, <2>3, <2>5, <2>6, WorkFrame
<1>5. CASE SendToMetronome(c)
  <2>1. /\ pc[c] = "submit" /\ metronome' = Append(metronome, msg[c])
        /\ Goto(c, "publish")
        /\ UNCHANGED <<topic, offsets, processed, billed, faults, rebalances>>
    BY <1>5 DEF SendToMetronome
  <2>2. msg[c] \in Events
    BY <2>1, InHandIsEvent
  <2>3. OffsetType' /\ Delivered' = Delivered
    BY <2>1, OffsetsKept
  <2>4. /\ metronome' \in Seq(Events)
        /\ { metronome'[i] : i \in DOMAIN metronome' } =
             { metronome[i] : i \in DOMAIN metronome } \cup {msg[c]}
    <3>1. metronome \in Seq(Events) /\ metronome' = Append(metronome, msg[c])
      BY <1>1, <2>1 DEF EffectType
    <3> QED BY <2>2, <3>1, AppendAdds
  <2>5. Submitted' = Submitted \cup {msg[c]} /\ Announced' = Announced
    BY <2>1, <2>4 DEF Submitted, Announced
  <2>6. EffectType' /\ RecordsAgree' /\ Grows
    BY <1>1, <2>1, <2>3, <2>4, <2>5 DEF EffectType, RecordsAgree, Grows
  <2>7. OnTheWay(c)'
    BY <1>1, <2>1, <2>3, <2>5, GotoLocal DEF OnTheWay
  <2> QED BY <2>1, <2>3, <2>6, <2>7, WorkFrame
<1>6. CASE PublishBillingProcessed(c)
  <2>1. PICK n \in 0 .. MaxAttempts :
          Write(c, n) /\ Fault(IF n = 0 THEN 1 ELSE n - 1)
    BY <1>6 DEF PublishBillingProcessed
  <2>2. /\ pc[c] = "publish" /\ Goto(c, "insert")
        /\ UNCHANGED <<topic, offsets, processed, metronome, rebalances>>
    BY <1>6, <2>1 DEF PublishBillingProcessed, Write
  <2>3. msg[c] \in Events /\ msg[c] \in Submitted /\ msg[c] \in Delivered
    BY <1>1, <2>2, InHandIsEvent DEF OnTheWay
  <2>4. n \in Nat /\ (IF n = 0 THEN 1 ELSE n - 1) \in Nat
    BY AttemptsAssumption
  <2>5. /\ billed' \in Seq(Events) /\ Announced \subseteq Announced'
        /\ Announced' \subseteq Announced \cup {msg[c]}
        /\ n > 0 => msg[c] \in Announced'
    BY <1>1, <2>1, <2>3, <2>4, WriteAdds
  <2>6. /\ faults' \in Nat /\ (faults' = 0 => faults = 0)
        /\ faults' = 0 => (IF n = 0 THEN 1 ELSE n - 1) = 0
    BY <1>1, <2>1, <2>4, FaultType
  <2>7. faults' = 0 => n > 0
    BY <2>4, <2>6
  <2>8. OffsetType' /\ Delivered' = Delivered /\ Submitted' = Submitted
    BY <2>2, OffsetsKept DEF Submitted
  <2>9. EffectType' /\ RecordsAgree' /\ Grows
    BY <1>1, <2>2, <2>3, <2>5, <2>6, <2>8 DEF EffectType, RecordsAgree, Grows
  <2>10. OnTheWay(c)'
    BY <2>2, <2>3, <2>5, <2>7, <2>8, GotoLocal DEF OnTheWay
  <2> QED BY <2>2, <2>8, <2>9, <2>10, WorkFrame
<1>7. CASE Commit(c)
  <2>1. /\ pc[c] = "commit" /\ processed' = processed \cup {msg[c]} /\ Goto(c, "read")
        /\ UNCHANGED <<topic, offsets, metronome, billed, faults, rebalances>>
    BY <1>7 DEF Commit
  <2>2. faults' \in Nat /\ faults' = faults
    BY <1>1, <2>1 DEF EffectType
  <2> QED BY <2>1, <2>2, RecordSafe
<1> QED BY <1>2, <1>3, <1>4, <1>5, <1>6, <1>7 DEF ConsumerStep

LEMMA ErrorSafe ==
  ASSUME IndInv, NEW c \in Consumers, ConsumerError(c)
  PROVE  IndInv'
<1>1. TypeOK /\ WorkType /\ EffectType /\ OnTheWay(c) /\ RecordsAgree
  BY TypeParts DEF IndInv
<1>2. CASE ReadTimeout(c) \/ Crash(c)
  BY <1>2, GroupSafe
<1>3. CASE PublishError(c)
  <2>1. PICK n \in 0 .. MaxAttempts : Write(c, n) /\ Fault(IF n = 0 THEN 1 ELSE n)
    BY <1>3 DEF PublishError
  <2>2. /\ pc[c] = "publish" /\ Goto(c, "read")
        /\ UNCHANGED <<topic, offsets, processed, metronome, rebalances>>
    BY <1>3, <2>1 DEF PublishError, Write
  <2>3. msg[c] \in Events /\ msg[c] \in Submitted
    BY <1>1, <2>2, InHandIsEvent DEF OnTheWay
  <2>4. n \in Nat /\ (IF n = 0 THEN 1 ELSE n) \in Nat
    BY AttemptsAssumption
  <2>5. /\ billed' \in Seq(Events) /\ Announced \subseteq Announced'
        /\ Announced' \subseteq Announced \cup {msg[c]}
    BY <1>1, <2>1, <2>3, <2>4, WriteAdds
  <2>6. faults' \in Nat /\ (faults' = 0 => faults = 0)
    BY <1>1, <2>1, <2>4, FaultType
  <2>7. OffsetType' /\ Delivered' = Delivered /\ Submitted' = Submitted
    BY <2>2, OffsetsKept DEF Submitted
  <2>8. EffectType' /\ RecordsAgree' /\ Grows
    BY <1>1, <2>2, <2>3, <2>5, <2>6, <2>7 DEF EffectType, RecordsAgree, Grows
  <2>9. OnTheWay(c)'
    BY <2>2, GotoLocal DEF OnTheWay
  <2> QED BY <2>2, <2>7, <2>8, <2>9, WorkFrame
<1>4. CASE ProcessError(c)
  <2>1. /\ Goto(c, "read")
        /\ UNCHANGED <<topic, offsets, metronome, billed, rebalances>>
        /\ \/ processed' = processed
           \/ pc[c] = "commit" /\ processed' = processed \cup {msg[c]}
    BY <1>4 DEF ProcessError
  <2>2. faults' \in Nat /\ (faults' = 0 => faults = 0)
    BY <1>1, <1>4, FaultType DEF ProcessError
  <2>3. CASE processed' = processed
    BY <2>1, <2>2, <2>3, GiveUp, OffsetsKept DEF effects
  <2>4. CASE pc[c] = "commit" /\ processed' = processed \cup {msg[c]}
    BY <2>1, <2>2, <2>4, RecordSafe
  <2> QED BY <2>1, <2>3, <2>4
<1> QED BY <1>2, <1>3, <1>4 DEF ConsumerError

LEMMA InitSafe == Init => IndInv
<1> SUFFICES ASSUME Init PROVE IndInv
  OBVIOUS
<1>1. GroupInit(0)
  BY DEF Init
<1>2. OffsetType
  BY <1>1 DEF Init, GroupInit, OffsetType
<1>3. WorkType /\ EffectType
  BY <1>1 DEF Init, GroupInit, WorkType, EffectType
<1>4. RecordsAgree /\ \A c \in Consumers : OnTheWay(c)
  BY DEF Init, RecordsAgree, OnTheWay, Announced, Submitted
<1> QED BY <1>2, <1>3, <1>4, TypeParts DEF IndInv

LEMMA NextSafe == IndInv /\ [Next]_vars => IndInv'
<1> SUFFICES ASSUME IndInv, [Next]_vars PROVE IndInv'
  OBVIOUS
<1>1. CASE UNCHANGED vars
  <2>1. UNCHANGED <<topic, committed, owner, position, pending, pc, msg, processed,
                    metronome, billed, faults, rebalances>>
    BY <1>1 DEF vars, offsets, group, work, effects
  <2>2. TypeOK'
    BY <2>1 DEF IndInv, TypeOK, GroupTypeOK, Offsets
  <2>3. Delivered' = Delivered /\ Submitted' = Submitted /\ Announced' = Announced
    BY <2>1 DEF Delivered, Offsets, Submitted, Announced
  <2>4. RecordsAgree' /\ \A c \in Consumers : OnTheWay(c)'
    BY <2>1, <2>3 DEF IndInv, RecordsAgree, OnTheWay
  <2> QED BY <2>2, <2>4 DEF IndInv
<1>2. CASE Next
  BY <1>2, GroupSafe, StepSafe, ErrorSafe DEF Next
<1> QED BY <1>1, <1>2

LEMMA Invariance == Spec => []IndInv
BY InitSafe, NextSafe, PTL DEF Spec

(* All variables keep their types; no offset points beyond the partition,  *)
(* and none is handed to the background commit before it was fetched.      *)
THEOREM TypeCorrect == Spec => []TypeOK
<1>1. IndInv => TypeOK
  BY DEF IndInv
<1> QED BY <1>1, Invariance, PTL

(* Whatever is redelivered, rebalanced, lost or cut off by a crash, only   *)
(* what was submitted to Metronome is recorded and published, and without  *)
(* a failure what is recorded was published too.                           *)
THEOREM RecordsFollowCharges == Spec => []ProcessedWasSubmitted
<1>1. IndInv => ProcessedWasSubmitted
  BY SubmittedCounts
     DEF IndInv, TypeOK, RecordsAgree, ProcessedWasSubmitted, Announced
<1> QED BY <1>1, Invariance, PTL
-----------------------------------------------------------------------------
(* The relay. *)

LEMMA InitRelays == Init => Stage!Init
BY DEF Init, GroupInit, Stage!Init, Offsets

(* A step adds to the topic, submits a message of it, records what was     *)
(* submitted, or changes none of the three.                                *)
LEMMA StepRelays == IndInv /\ [Next]_vars => [Stage!Next]_(Stage!vars)
<1> SUFFICES ASSUME IndInv, [Next]_vars PROVE [Stage!Next]_(Stage!vars)
  OBVIOUS
<1> USE DEF Offsets
<1>0. topic \in Seq(Events) /\ metronome \in Seq(Events)
  BY DEF IndInv, TypeOK, GroupTypeOK
<1>1. CASE UNCHANGED <<topic, metronome, processed>>
  BY <1>1 DEF Stage!vars
<1>2. CASE \E e \in Events : DeliverBillingChunk(e)
  <2>1. PICK e \in Events :
          topic' = Append(topic, e) /\ UNCHANGED <<metronome, processed>>
    BY <1>2 DEF DeliverBillingChunk, Deliver, effects
  <2>2. Delivered \subseteq Delivered'
    <3>1. { topic'[i] : i \in DOMAIN topic' } = { topic[i] : i \in DOMAIN topic } \cup {e}
      BY <1>0, <2>1, AppendAdds
    <3> QED BY <3>1 DEF Delivered
  <2> QED BY <2>1, <2>2 DEF Delivered, Stage!Next, Stage!Put
<1>3. CASE \E c \in Consumers : SendToMetronome(c)
  <2>1. PICK c \in Consumers :
          /\ pc[c] = "submit" /\ metronome' = Append(metronome, msg[c])
          /\ UNCHANGED <<topic, processed>>
    BY <1>3 DEF SendToMetronome
  <2>2. msg[c] \in Delivered /\ msg[c] \in Events
    BY <2>1, InHandIsEvent DEF IndInv, OnTheWay
  <2>3. { metronome'[i] : i \in DOMAIN metronome' } =
          { metronome[i] : i \in DOMAIN metronome } \cup {msg[c]}
    BY <1>0, <2>1, <2>2, AppendAdds
  <2> QED BY <2>1, <2>2, <2>3 DEF Delivered, Stage!Next, Stage!Forward
<1>4. CASE \E c \in Consumers :
             /\ pc[c] = "commit" /\ processed' = processed \cup {msg[c]}
             /\ UNCHANGED <<topic, metronome>>
  BY <1>4 DEF IndInv, RecordsAgree, OnTheWay, Submitted, Stage!Next, Stage!Record
<1>5. CASE \E c \in Consumers : FlushCommit(c) \/ Rebalance(c)
  BY <1>1, <1>5 DEF FlushCommit, Rebalance, effects
<1>6. CASE \E c \in Consumers : ConsumerStep(c)
  <2>1. PICK c \in Consumers : ConsumerStep(c)
    BY <1>6
  <2>2. CASE ReadNothing(c) \/ ReadMessage(c) \/ CheckIdempotency(c)
             \/ PublishBillingProcessed(c) \/ InsertProcessedBillingEvent(c)
    BY <1>1, <2>2 DEF ReadNothing, ReadMessage, CheckIdempotency, PublishBillingProcessed,
                      Write, InsertProcessedBillingEvent, effects, vars
  <2>3. CASE Commit(c)
    BY <1>4, <2>3 DEF Commit
  <2> QED BY <1>3, <2>1, <2>2, <2>3 DEF ConsumerStep
<1>7. CASE \E c \in Consumers : ConsumerError(c)
  <2>1. PICK c \in Consumers : ConsumerError(c)
    BY <1>7
  <2>2. CASE ReadTimeout(c) \/ PublishError(c) \/ Crash(c)
    BY <1>1, <2>2 DEF ReadTimeout, PublishError, Write, Crash, effects
  <2>3. CASE ProcessError(c)
    BY <1>1, <1>4, <2>3 DEF ProcessError
  <2> QED BY <2>1, <2>2, <2>3 DEF ConsumerError
<1>8. CASE UNCHANGED vars
  BY <1>1, <1>8 DEF vars, effects
<1>9. CASE Next
  BY <1>2, <1>5, <1>6, <1>7, <1>9 DEF Next
<1> QED BY <1>8, <1>9

(* The processor is a relay from the topic to Metronome, for any number of *)
(* consumers, deliveries, rebalances and failures: it submits only what is *)
(* in the topic and records only what was submitted.                       *)
THEOREM ProcessorIsRelay == Spec => ImplementsRelay
BY Invariance, InitRelays, StepRelays, PTL DEF Spec, ImplementsRelay, Stage!Spec
=============================================================================
