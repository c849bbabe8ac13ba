--------------------- MODULE BillingProcessorCausesProofs ---------------------
(***************************************************************************)
(* The proofs that billing-processor loses a message, or submits an event  *)
(* once more, only for a cause: a failure or, for the latter, a rebalance. *)
(*                                                                         *)
(* Losses are counted from the fetch on, not from the commit of an offset: *)
(* what any consumer has fetched is processed, in hand or lost.  Repeated  *)
(* submissions are counted by weighing what an event has had against what  *)
(* its consumers may still submit: the owner of the partition once, unless *)
(* it is past the submission, and once each former owner that a rebalance  *)
(* has left with the event in hand.                                        *)
(***************************************************************************)
EXTENDS BillingProcessorProofs, CountingLemmas

(* The offsets that some consumer has read. *)
Read == { i \in Offsets : i <= committed \/ \E c \in Consumers : i <= position[c] }

Lost == { topic[i] : i \in Read } \ (processed \cup InHand)

LossInv == IsFiniteSet(Lost) /\ Cardinality(Lost) <= faults

(* The former owners that may still submit event e. *)
Late(e) ==
  { c \in Consumers \ {owner} : pc[c] \in {"check", "submit"} /\ msg[c] = e }

(* The owner may submit event e, now or when it is delivered again. *)
Owing(e) ==
  \/ e \notin processed
     /\ ~(pc[owner] \in {"publish", "insert", "commit"} /\ msg[owner] = e)
  \/ pc[owner] = "submit" /\ msg[owner] = e

Owed(e) == IF Owing(e) THEN 1 ELSE 0

Caused(e) ==
  /\ IsFiniteSet(Late(e))
  /\ Submissions(e) + Cardinality(Late(e)) + Owed(e) <= 1 + faults + rebalances

(* The inductive invariant, on top of that of BillingProcessorProofs. *)
CauseInv ==
  /\ IndInv
  /\ LossInv
  /\ \A e \in Events : Caused(e)
-----------------------------------------------------------------------------
(* A step of consumer c changes nothing of another's work. *)
LEMMA WorkLocal ==
  ASSUME TypeOK, NEW c \in Consumers, ConsumerStep(c) \/ ConsumerError(c)
  PROVE  /\ owner' = owner /\ rebalances' = rebalances /\ topic' = topic
         /\ \A d \in Consumers \ {c} : pc'[d] = pc[d] /\ msg'[d] = msg[d]
BY DEF TypeOK, ConsumerStep, ConsumerError, ReadNothing, ReadMessage, CheckIdempotency,
       SendToMetronome, PublishBillingProcessed, InsertProcessedBillingEvent, Commit,
       ReadTimeout, PublishError, ProcessError, Crash, Goto, Write, vars, offsets, group, work

LEMMA CountersType ==
  ASSUME TypeOK
  PROVE  /\ faults \in Nat /\ rebalances \in Nat /\ owner \in Consumers
         /\ committed \in Nat /\ committed <= Len(topic) /\ Len(topic) \in Nat
         /\ \A c \in Consumers : /\ position[c] \in Nat /\ position[c] <= Len(topic)
                                 /\ pending[c] \in Nat /\ pending[c] <= position[c]
         /\ Offsets = 1 .. Len(topic)
BY DEF TypeOK, GroupTypeOK, Offsets
-----------------------------------------------------------------------------
(* Losses. *)

(* A step loses nothing, or is a failure and loses one event. *)
LEMMA LossStays ==
  ASSUME TypeOK, TypeOK', LossInv,
         \/ Lost' \subseteq Lost /\ faults' >= faults
         \/ \E e : Lost' \subseteq Lost \cup {e} /\ faults' >= faults + 1
  PROVE  LossInv'
<1>1. faults \in Nat /\ faults' \in Nat
  BY DEF TypeOK, GroupTypeOK
<1>2. CASE Lost' \subseteq Lost /\ faults' >= faults
  BY <1>1, <1>2, NoMore DEF LossInv
<1>3. CASE \E e : Lost' \subseteq Lost \cup {e} /\ faults' >= faults + 1
  BY <1>1, <1>3, OneMore DEF LossInv
<1> QED BY <1>2, <1>3

(* No step but a fetch moves an offset beyond what has been read. *)
Reached(n) == n <= committed \/ \E d \in Consumers : n <= position[d]

LEMMA ReadStays ==
  ASSUME TypeOK, TypeOK', Reached(committed'),
         \A c \in Consumers : Reached(position'[c]),
         Offsets \subseteq Offsets'
  PROVE  Read' \cap Offsets \subseteq Read
<1>1. /\ committed \in Nat /\ committed' \in Nat
      /\ \A c \in Consumers : position[c] \in Nat /\ position'[c] \in Nat
      /\ Offsets \subseteq Nat
  <2>1. committed \in Nat /\ \A c \in Consumers : position[c] \in Nat
    BY CountersType
  <2>2. committed' \in Nat /\ position' \in [Consumers -> 0 .. Len(topic')]
    BY DEF TypeOK, GroupTypeOK, Offsets
  <2>3. \A c \in Consumers : position'[c] \in Nat
    BY <2>2
  <2>4. Offsets \subseteq Nat
    BY CountersType
  <2> QED BY <2>1, <2>2, <2>3, <2>4
<1>2. ASSUME NEW i \in Nat, NEW n \in Nat, i <= n, Reached(n)
      PROVE  Reached(i)
  BY <1>1, <1>2 DEF Reached
<1>3. \A i \in Read' \cap Offsets : Reached(i)
  BY <1>1, <1>2 DEF Read
<1> QED BY <1>3 DEF Read, Reached

LEMMA GroupLoss ==
  ASSUME CauseInv, TypeOK',
         \/ \E e \in Events : DeliverBillingChunk(e)
         \/ \E c \in Consumers : FlushCommit(c) \/ Rebalance(c)
         \/ UNCHANGED vars
  PROVE  LossInv'
<1>1. TypeOK /\ LossInv
  BY DEF CauseInv, IndInv
<1>2. UNCHANGED <<processed, pc, msg, faults>>
  BY DEF DeliverBillingChunk, Deliver, FlushCommit, Rebalance, vars, work, effects
<1>3. InHand' = InHand
  BY <1>2 DEF InHand
<1>4. faults' >= faults
  BY <1>1, <1>2, CountersType
<1>5. CASE \E e \in Events : DeliverBillingChunk(e)
  <2>1. PICK e \in Events : topic' = Append(topic, e) /\ UNCHANGED group
    BY <1>5 DEF DeliverBillingChunk, Deliver
  <2>2. topic \in Seq(Events)
    BY <1>1 DEF TypeOK, GroupTypeOK
  <2>3. /\ Len(topic') = Len(topic) + 1
        /\ \A i \in 1 .. Len(topic) : topic'[i] = topic[i]
    BY <2>1, <2>2
  <2>4. Read' \subseteq 1 .. Len(topic)
    <3>1. /\ committed' <= Len(topic) /\ committed' \in Nat /\ Len(topic) \in Nat
          /\ \A c \in Consumers : position'[c] <= Len(topic) /\ position'[c] \in Nat
      BY <1>1, <2>1, CountersType DEF group
    <3>2. Offsets' \subseteq Nat \ {0}
      BY DEF TypeOK, GroupTypeOK, Offsets
    <3>3. ASSUME NEW i \in Read' PROVE i \in 1 .. Len(topic)
      <4>1. i \in Nat \ {0}
        BY <3>2 DEF Read
      <4>2. i <= committed' \/ \E c \in Consumers : i <= position'[c]
        BY DEF Read
      <4> QED BY <3>1, <4>1, <4>2
    <3> QED BY <3>3
  <2>5. Read' \subseteq Read
    BY <1>1, <2>1, <2>4, CountersType DEF Read, group
  <2>6. Lost' \subseteq Lost
    BY <1>2, <1>3, <2>3, <2>4, <2>5 DEF Lost
  <2> QED BY <1>1, <1>4, <2>6, LossStays
<1>6. CASE \/ \E c \in Consumers : FlushCommit(c) \/ Rebalance(c)
           \/ UNCHANGED vars
  <2>1. topic' = topic
    BY <1>6 DEF FlushCommit, Rebalance, vars
  <2>2. Reached(committed') /\ \A c \in Consumers : Reached(position'[c])
    <3>1. /\ \A c \in Consumers : Reached(pending[c]) /\ Reached(position[c])
          /\ Reached(committed)
      BY <1>1, CountersType DEF Reached
    <3>2. position \in [Consumers -> 0 .. Len(topic)] /\ owner \in Consumers
      BY <1>1 DEF TypeOK, GroupTypeOK
    <3> QED BY <1>6, <3>1, <3>2
            DEF FlushCommit, Rebalance, StartAt, vars, offsets, group
  <2>3. Read' \subseteq Read
    BY <1>1, <2>1, <2>2, ReadStays DEF Read, Offsets
  <2>4. Lost' \subseteq Lost
    BY <1>2, <1>3, <2>1, <2>3 DEF Lost
  <2> QED BY <1>1, <1>4, <2>4, LossStays
<1> QED BY <1>5, <1>6

(* What leaves a consumer's hands, and where it may be found then. *)
LEMMA HandsKept ==
  ASSUME TypeOK, NEW c \in Consumers, ConsumerStep(c) \/ ConsumerError(c)
  PROVE  /\ InHand \subseteq InHand' \cup {msg[c]}
         /\ (pc[c] # "read" => pc'[c] # "read" /\ msg'[c] = msg[c])
              => InHand \subseteq InHand'
BY WorkLocal DEF InHand

LEMMA ConsumerLoss ==
  ASSUME CauseInv, TypeOK', NEW c \in Consumers, ConsumerStep(c) \/ ConsumerError(c)
  PROVE  LossInv'
<1>1. TypeOK /\ LossInv /\ topic' = topic /\ faults \in Nat
  BY WorkLocal, CountersType DEF CauseInv, IndInv
<1>2. processed \subseteq processed'
  BY DEF ConsumerStep, ConsumerError, ReadNothing, ReadMessage, CheckIdempotency,
         SendToMetronome, PublishBillingProcessed, InsertProcessedBillingEvent, Commit,
         ReadTimeout, PublishError, ProcessError, Crash, Write, vars, effects
<1>3. ASSUME Read' \subseteq Read, faults' >= faults + 1
      PROVE  LossInv'
  <2>1. Lost' \subseteq Lost \cup {msg[c]}
    BY <1>1, <1>2, <1>3, HandsKept DEF Lost
  <2> QED BY <1>1, <1>3, <2>1, LossStays
<1>4. ASSUME Read' \subseteq Read, faults' >= faults,
             \/ pc'[c] # "read" /\ msg'[c] = msg[c]
             \/ pc[c] = "read"
             \/ msg[c] \in processed'
      PROVE  LossInv'
  <2>1. Lost' \subseteq Lost
    BY <1>1, <1>2, <1>4, HandsKept DEF Lost
  <2> QED BY <1>1, <1>4, <2>1, LossStays
<1>5. ASSUME Fetch(c), UNCHANGED committed
      PROVE  Read' \subseteq Read \cup {NextOffset(c)} /\ NextOffset(c) \in Offsets
  <2>1. NextOffset(c) \in Offsets /\ NextOffset(c) = position[c] + 1
    BY <1>1, <1>5, CountersType DEF Fetch, Fetchable, NextOffset
  <2>2. \A d \in Consumers :
          position'[d] = IF d = c THEN NextOffset(c) ELSE position[d]
    BY <1>1, <1>5 DEF Fetch, TypeOK, GroupTypeOK
  <2>3. ASSUME NEW i \in Read', i # NextOffset(c) PROVE i \in Read
    <3>1. i \in Offsets /\ i \in Nat
      <4>1. i \in Offsets
        BY <1>1 DEF Read, Offsets
      <4> QED BY <1>1, <4>1, CountersType
    <3>2. i <= NextOffset(c) => i <= position[c]
      BY <1>1, <2>1, <2>3, <3>1, CountersType
    <3> QED BY <1>5, <2>2, <3>1, <3>2 DEF Read
  <2> QED BY <2>1, <2>3
<1>6. ASSUME UNCHANGED offsets PROVE Read' = Read
  BY <1>1, <1>6 DEF Read, offsets, group, Offsets
<1>7. CASE ReadNothing(c)
  BY <1>4, <1>6, <1>7, <1>1 DEF ReadNothing, vars, offsets
<1>8. CASE ReadMessage(c)
  <2>1. Read' \subseteq Read \cup {NextOffset(c)} /\ faults' = faults /\ pc[c] = "read"
    BY <1>5, <1>8 DEF ReadMessage
  <2>2. pc'[c] = "check" /\ msg'[c] = topic[NextOffset(c)]
    BY <1>1, <1>8 DEF ReadMessage, TypeOK
  <2>3. InHand \subseteq InHand' /\ topic[NextOffset(c)] \in InHand'
    BY <1>1, <2>1, <2>2, HandsKept DEF InHand
  <2>4. Lost' \subseteq Lost
    BY <1>1, <1>2, <2>1, <2>3 DEF Lost
  <2> QED BY <1>1, <2>1, <2>4, LossStays
<1>9. CASE ReadTimeout(c)
  <2>1. /\ Read' \subseteq Read \cup {NextOffset(c)}
        /\ faults' = faults + 1 /\ UNCHANGED work
    BY <1>5, <1>9 DEF ReadTimeout, Fault
  <2>2. InHand' = InHand
    BY <2>1 DEF InHand, work
  <2>3. Lost' \subseteq Lost \cup {topic[NextOffset(c)]}
    BY <1>1, <1>2, <2>1, <2>2 DEF Lost
  <2> QED BY <1>1, <2>1, <2>3, LossStays
<1>10. CASE Crash(c)
  <2>1. faults' = faults + 1
    BY <1>10 DEF Crash, Fault
  <2>2. Read' \subseteq Read
    <3>1. Reached(committed) /\ \A d \in Consumers : Reached(position[d])
      BY <1>1, CountersType DEF Reached
    <3>2. Reached(committed') /\ \A d \in Consumers : Reached(position'[d])
      BY <1>1, <1>10, <3>1 DEF Crash, StartAt, TypeOK, GroupTypeOK
    <3> QED BY <1>1, <3>2, ReadStays DEF Read, Offsets
  <2> QED BY <1>1, <1>3, <2>1, <2>2
<1>11. CASE PublishError(c) \/ ProcessError(c)
  <2>1. UNCHANGED offsets
    BY <1>11 DEF PublishError, ProcessError, Write
  <2>2. faults' >= faults + 1
    BY <1>1, <1>11, AttemptsAssumption DEF PublishError, ProcessError, Fault
  <2> QED BY <1>3, <1>6, <2>1, <2>2
<1>12. CASE \/ CheckIdempotency(c) \/ InsertProcessedBillingEvent(c) \/ Commit(c)
            \/ SendToMetronome(c) \/ PublishBillingProcessed(c)
  <2>1. UNCHANGED offsets
    BY <1>12 DEF CheckIdempotency, InsertProcessedBillingEvent, Commit, SendToMetronome,
                 PublishBillingProcessed, Write
  <2>2. faults' >= faults
    BY <1>1, <1>12, AttemptsAssumption
       DEF CheckIdempotency, InsertProcessedBillingEvent, Commit, SendToMetronome,
           PublishBillingProcessed, Fault
  <2>3. \/ pc'[c] # "read" /\ msg'[c] = msg[c]
        \/ msg[c] \in processed'
    BY <1>1, <1>12
       DEF CheckIdempotency, InsertProcessedBillingEvent, Commit, SendToMetronome,
           PublishBillingProcessed, Goto, TypeOK, effects
  <2> QED BY <1>4, <1>6, <2>1, <2>2, <2>3
<1> QED BY <1>7, <1>8, <1>9, <1>10, <1>11, <1>12 DEF ConsumerStep, ConsumerError
-----------------------------------------------------------------------------
(* Submissions. *)

LEMMA SubmissionsType ==
  ASSUME TypeOK, NEW e \in Events
  PROVE  Submissions(e) = Cardinality(Places(metronome, e)) /\ Submissions(e) \in Nat
<1>1. Submissions(e) = Cardinality(Places(metronome, e))
  BY DEF Submissions, Places
<1>2. metronome \in Seq(Events)
  BY DEF TypeOK
<1> QED BY <1>1, <1>2, PlacesFinite

LEMMA AccountType ==
  ASSUME TypeOK, NEW e \in Events, Caused(e)
  PROVE  /\ Submissions(e) \in Nat /\ Cardinality(Late(e)) \in Nat /\ Owed(e) \in 0 .. 1
         /\ Submissions(e) + Cardinality(Late(e)) + Owed(e) <= 1 + faults + rebalances
BY SubmissionsType, FS_CardinalityType DEF Caused, Owed

LEMMA CounterTypes ==
  ASSUME TypeOK, TypeOK'
  PROVE  {faults, rebalances, faults', rebalances'} \subseteq Nat
BY DEF TypeOK, GroupTypeOK

(* An event that is not submitted keeps its account, unless the step makes *)
(* the owner start over with it; the failure that does so pays for that.   *)
LEMMA CausedStays ==
  ASSUME TypeOK, TypeOK', NEW e \in Events, Caused(e), metronome' = metronome,
         Late(e)' \subseteq Late(e), rebalances' = rebalances,
         \/ (Owing(e)' => Owing(e)) /\ faults' >= faults
         \/ faults' >= faults + 1
  PROVE  Caused(e)'
<1>1. /\ IsFiniteSet(Late(e)')
      /\ Cardinality(Late(e)') \in Nat
      /\ Cardinality(Late(e)') <= Cardinality(Late(e))
  BY NoMore DEF Caused
<1>2. Submissions(e)' = Submissions(e)
  BY DEF Submissions
<1>3. Owed(e)' \in 0 .. 1 /\ ((Owing(e)' => Owing(e)) => Owed(e)' <= Owed(e))
  BY DEF Owed
<1>4. Submissions(e)' + Cardinality(Late(e)') + Owed(e)' <= 1 + faults' + rebalances'
  BY <1>1, <1>2, <1>3, AccountType, CounterTypes
<1> QED BY <1>1, <1>4 DEF Caused

(* The step of consumer c, seen by an event that it does not have in hand, *)
(* or at most moves on with.                                               *)
LEMMA OthersCaused ==
  ASSUME CauseInv, TypeOK', NEW c \in Consumers, ConsumerStep(c) \/ ConsumerError(c),
         NEW e \in Events, metronome' = metronome,
         pc'[c] \in {"check", "submit"} /\ msg'[c] = e =>
           c = owner \/ (pc[c] \in {"check", "submit"} /\ msg[c] = e),
         \/ (c = owner => (Owing(e)' => Owing(e))) /\ faults' >= faults
         \/ faults' >= faults + 1,
         processed \subseteq processed'
  PROVE  Caused(e)'
<1>1. TypeOK /\ Caused(e)
  BY DEF CauseInv, IndInv
<1>2. /\ owner' = owner /\ rebalances' = rebalances
      /\ \A d \in Consumers \ {c} : pc'[d] = pc[d] /\ msg'[d] = msg[d]
  BY <1>1, WorkLocal
<1>3. Late(e)' \subseteq Late(e)
  BY <1>2 DEF Late
<1>4. c # owner => (Owing(e)' => Owing(e))
  BY <1>1, <1>2, CountersType DEF Owing
<1> QED BY <1>1, <1>2, <1>3, <1>4, CausedStays

LEMMA SubmitCaused ==
  ASSUME CauseInv, TypeOK', NEW c \in Consumers, SendToMetronome(c), NEW e \in Events
  PROVE  Caused(e)'
<1>1. TypeOK /\ Caused(e) /\ metronome \in Seq(Events)
  BY DEF CauseInv, IndInv, TypeOK
<1>2. /\ owner' = owner /\ rebalances' = rebalances
      /\ \A d \in Consumers \ {c} : pc'[d] = pc[d] /\ msg'[d] = msg[d]
  BY <1>1, WorkLocal DEF ConsumerStep
<1>3. /\ pc[c] = "submit" /\ pc'[c] = "publish" /\ msg'[c] = msg[c]
      /\ metronome' = Append(metronome, msg[c])
      /\ processed' = processed /\ faults' = faults
  BY <1>1 DEF SendToMetronome, Goto, TypeOK
<1>4. msg[c] \in Events
  BY <1>3, InHandIsEvent DEF CauseInv
<1>5. Continued(metronome', metronome, Len(metronome), 1, msg[c])
  BY <1>1, <1>3, <1>4, AppendContinues
<1>6. CASE msg[c] # e
  <2>1. Places(metronome', e) = Places(metronome, e)
    BY <1>5, <1>6, SameOfOthers
  <2>2. Submissions(e)' = Submissions(e)
    BY <2>1 DEF Submissions, Places
  <2>3. Late(e)' = Late(e)
    BY <1>2, <1>3, <1>6 DEF Late
  <2>4. Owing(e)' <=> Owing(e)
    BY <1>1, <1>2, <1>3, <1>6, CountersType DEF Owing
  <2> QED BY <1>1, <1>2, <1>3, <2>2, <2>3, <2>4 DEF Caused, Owed
<1>7. CASE msg[c] = e
  <2>1. Cardinality(Places(metronome', e)) = Cardinality(Places(metronome, e)) + 1
    BY <1>5, <1>7, MoreOfIt
  <2>2. Submissions(e)' = Submissions(e) + 1
    BY <2>1 DEF Submissions, Places
  <2>3. CASE c = owner
    <3>1. Late(e)' = Late(e) /\ Owing(e) /\ ~Owing(e)'
      BY <1>2, <1>3, <1>7, <2>3 DEF Late, Owing
    <3>2. Owed(e) = 1 /\ Owed(e)' = 0
      BY <3>1 DEF Owed
    <3>3. /\ Submissions(e) \in Nat /\ Cardinality(Late(e)) \in Nat
          /\ Submissions(e) + Cardinality(Late(e)) + Owed(e) <= 1 + faults + rebalances
      BY <1>1, AccountType
    <3>4. Submissions(e)' + Cardinality(Late(e)') + Owed(e)' <= 1 + faults + rebalances
      BY <2>2, <3>1, <3>2, <3>3
    <3> QED BY <1>1, <1>2, <1>3, <3>1, <3>4 DEF Caused
  <2>4. CASE c # owner
    <3>1. c \in Late(e) /\ Late(e)' \subseteq Late(e) \ {c}
      BY <1>2, <1>3, <1>7, <2>4 DEF Late
    <3>2. /\ IsFiniteSet(Late(e)')
          /\ Cardinality(Late(e)') \in Nat
          /\ Cardinality(Late(e)') <= Cardinality(Late(e)) - 1
      BY <1>1, <3>1, OneLess DEF Caused
    <3>3. Owed(e)' = Owed(e)
      BY <1>1, <1>2, <1>3, <2>4, CountersType DEF Owed, Owing
    <3>4. /\ Submissions(e) \in Nat /\ Cardinality(Late(e)) \in Nat /\ Owed(e) \in 0 .. 1
          /\ Submissions(e) + Cardinality(Late(e)) + Owed(e) <= 1 + faults + rebalances
      BY <1>1, AccountType
    <3>5. faults \in Nat /\ rebalances \in Nat
      BY <1>1, CountersType
    <3>6. Submissions(e)' + Cardinality(Late(e)') + Owed(e)' <= 1 + faults + rebalances
      BY <2>2, <3>2, <3>3, <3>4, <3>5
    <3> QED BY <1>2, <1>3, <3>2, <3>6 DEF Caused
  <2> QED BY <2>3, <2>4
<1> QED BY <1>6, <1>7

LEMMA ConsumerCaused ==
  ASSUME CauseInv, TypeOK', NEW c \in Consumers, ConsumerStep(c) \/ ConsumerError(c),
         NEW e \in Events
  PROVE  Caused(e)'
<1>1. TypeOK /\ faults \in Nat /\ owner \in Consumers
  BY CountersType DEF CauseInv, IndInv
<1>2. owner' = owner
  BY <1>1, WorkLocal
<1>3. processed \subseteq processed'
  BY DEF ConsumerStep, ConsumerError, ReadNothing, ReadMessage, CheckIdempotency,
         SendToMetronome, PublishBillingProcessed, InsertProcessedBillingEvent, Commit,
         ReadTimeout, PublishError, ProcessError, Crash, Write, vars, effects
<1>4. CASE SendToMetronome(c)
  BY <1>4, SubmitCaused
<1>5. CASE ReadNothing(c) \/ ReadTimeout(c)
  <2>1. /\ UNCHANGED <<work, processed, metronome>>
        /\ faults' >= faults
    BY <1>1, <1>5 DEF ReadNothing, ReadTimeout, vars, effects, Fault
  <2> QED BY <1>1, <1>2, <2>1, OthersCaused DEF work, Owing
<1>6. CASE ReadMessage(c)
  <2>1. /\ pc[c] = "read" /\ pc'[c] = "check" /\ c = owner
        /\ UNCHANGED <<processed, metronome, faults>>
    BY <1>1, <1>6 DEF ReadMessage, Fetch, Fetchable, effects, TypeOK
  <2>2. Owing(e)' => Owing(e)
    BY <1>2, <2>1 DEF Owing
  <2> QED BY <1>1, <2>1, <2>2, OthersCaused
<1>7. CASE Crash(c) \/ PublishError(c) \/ ProcessError(c)
  <2>1. pc'[c] = "read" /\ metronome' = metronome
    BY <1>1, <1>7 DEF Crash, PublishError, ProcessError, Goto, Write, TypeOK, effects
  <2>2. faults' >= faults + 1
    BY <1>1, <1>7, AttemptsAssumption DEF Crash, PublishError, ProcessError, Fault
  <2> QED BY <1>3, <2>1, <2>2, OthersCaused
<1>8. CASE \/ CheckIdempotency(c) \/ PublishBillingProcessed(c)
           \/ InsertProcessedBillingEvent(c) \/ Commit(c)
  <2>1. metronome' = metronome
    BY <1>8 DEF CheckIdempotency, PublishBillingProcessed, InsertProcessedBillingEvent,
                Commit, Write, effects
  <2>2. faults' >= faults
    BY <1>1, <1>8, AttemptsAssumption
       DEF CheckIdempotency, PublishBillingProcessed, InsertProcessedBillingEvent, Commit,
           Fault
  <2>3. \/ /\ pc[c] = "check" /\ pc'[c] = "submit"
           /\ msg[c] \notin processed
        \/ /\ pc[c] \in {"publish", "insert"} /\ pc'[c] \in {"insert", "commit"}
        \/ pc'[c] = "read" /\ pc[c] # "submit" /\ msg[c] \in processed'
    BY <1>1, <1>8
       DEF CheckIdempotency, PublishBillingProcessed, InsertProcessedBillingEvent, Commit,
           Goto, TypeOK, effects
  <2>4. pc'[c] # "read" => msg'[c] = msg[c]
    BY <1>1, <1>8
       DEF CheckIdempotency, PublishBillingProcessed, InsertProcessedBillingEvent, Commit,
           Goto, TypeOK
  <2>5. c = owner => (Owing(e)' => Owing(e))
    BY <1>2, <1>3, <2>3, <2>4 DEF Owing
  <2> QED BY <1>3, <2>1, <2>2, <2>3, <2>4, <2>5, OthersCaused
<1> QED BY <1>4, <1>5, <1>6, <1>7, <1>8 DEF ConsumerStep, ConsumerError

(* A rebalance pays for what the old owner still has in hand, or for what  *)
(* the new one will be delivered again.                                    *)
LEMMA GroupCaused ==
  ASSUME CauseInv, TypeOK',
         \/ \E e \in Events : DeliverBillingChunk(e)
         \/ \E c \in Consumers : FlushCommit(c) \/ Rebalance(c)
         \/ UNCHANGED vars,
         NEW e \in Events
  PROVE  Caused(e)'
<1>1. TypeOK /\ Caused(e) /\ owner \in Consumers
  BY CountersType DEF CauseInv, IndInv
<1>2. UNCHANGED <<pc, msg, processed, metronome, faults>>
  BY DEF DeliverBillingChunk, Deliver, FlushCommit, Rebalance, vars, work, effects
<1>3. Submissions(e)' = Submissions(e)
  BY <1>2 DEF Submissions
<1>4. CASE UNCHANGED <<owner, rebalances>>
  <2>1. Late(e)' = Late(e) /\ Owed(e)' = Owed(e)
    BY <1>2, <1>4 DEF Late, Owed, Owing
  <2> QED BY <1>1, <1>2, <1>3, <1>4, <2>1 DEF Caused
<1>5. CASE \E c \in Consumers : Rebalance(c)
  <2>1. PICK c \in Consumers : owner' = c /\ rebalances' = rebalances + 1
    BY <1>5 DEF Rebalance
  <2>2. Owed(e)' \in 0 .. 1
    BY DEF Owed
  <2>3. CASE owner \notin Late(e)' \/ c \in Late(e)
    <3>1. /\ IsFiniteSet(Late(e)')
          /\ Cardinality(Late(e)') \in Nat
          /\ Cardinality(Late(e)') <= Cardinality(Late(e))
      <4>1. CASE owner \notin Late(e)'
        <5>1. Late(e)' \subseteq Late(e)
          BY <1>2, <2>1, <4>1 DEF Late
        <5> QED BY <1>1, <5>1, NoMore DEF Caused
      <4>2. CASE c \in Late(e)
        <5>1. Late(e)' \subseteq (Late(e) \ {c}) \cup {owner}
          BY <1>2, <2>1 DEF Late
        <5>2. /\ IsFiniteSet(Late(e) \ {c}) /\ Cardinality(Late(e)) \in Nat
              /\ Cardinality(Late(e) \ {c}) \in Nat
              /\ Cardinality(Late(e) \ {c}) <= Cardinality(Late(e)) - 1
          BY <1>1, <4>2, OneLess DEF Caused
        <5>3. /\ IsFiniteSet(Late(e)') /\ Cardinality(Late(e)') \in Nat
              /\ Cardinality(Late(e)') <= Cardinality(Late(e) \ {c}) + 1
          BY <5>1, <5>2, OneMore
        <5> QED BY <5>2, <5>3
      <4> QED BY <2>3, <4>1, <4>2
    <3>2. Submissions(e)' + Cardinality(Late(e)') + Owed(e)' <= 1 + faults' + rebalances'
      BY <1>1, <1>2, <1>3, <2>1, <2>2, <3>1, AccountType, CounterTypes
    <3> QED BY <3>1, <3>2 DEF Caused
  <2>4. CASE owner \in Late(e)' /\ c \notin Late(e)
    <3>1. Late(e)' \subseteq Late(e) \cup {owner}
      BY <1>2, <2>1 DEF Late
    <3>2. /\ IsFiniteSet(Late(e)') /\ Cardinality(Late(e)') \in Nat
          /\ Cardinality(Late(e)') <= Cardinality(Late(e)) + 1
      BY <1>1, <3>1, OneMore DEF Caused
    <3>3. /\ owner # c /\ pc[owner] \in {"check", "submit"} /\ msg[owner] = e
          /\ ~(pc[c] = "submit" /\ msg[c] = e)
      BY <1>2, <2>1, <2>4 DEF Late
    <3>4. Owing(e)' => Owing(e)
      BY <1>2, <2>1, <3>3 DEF Owing
    <3>5. Owed(e)' <= Owed(e)
      BY <3>4 DEF Owed
    <3>6. Submissions(e)' + Cardinality(Late(e)') + Owed(e)' <= 1 + faults' + rebalances'
      BY <1>1, <1>2, <1>3, <2>1, <2>2, <3>2, <3>5, AccountType, CounterTypes
    <3> QED BY <3>2, <3>6 DEF Caused
  <2> QED BY <2>3, <2>4
<1>6. CASE \/ \E d \in Events : DeliverBillingChunk(d)
           \/ \E c \in Consumers : FlushCommit(c)
           \/ UNCHANGED vars
  BY <1>4, <1>6 DEF DeliverBillingChunk, Deliver, FlushCommit, vars, offsets, group
<1> QED BY <1>5, <1>6
-----------------------------------------------------------------------------
LEMMA InitCaused == Init => CauseInv
<1> SUFFICES ASSUME Init PROVE CauseInv
  OBVIOUS
<1>1. IndInv /\ faults = 0 /\ rebalances = 0 /\ topic = << >> /\ metronome = << >>
  BY InitSafe DEF Init, GroupInit
<1>2. IsFiniteSet({}) /\ Cardinality({}) = 0
  BY FS_EmptySet
<1>3. Lost = {}
  BY <1>1 DEF Lost, Read, Offsets
<1>4. ASSUME NEW e \in Events PROVE Caused(e)
  <2>1. Late(e) = {} /\ Owed(e) \in 0 .. 1
    BY DEF Init, Late, Owed
  <2>2. { i \in DOMAIN metronome : metronome[i] = e } = {}
    BY <1>1
  <2> QED BY <1>1, <1>2, <2>1, <2>2 DEF Caused, Submissions
<1> QED BY <1>1, <1>2, <1>3, <1>4 DEF CauseInv, LossInv

LEMMA NextCaused == CauseInv /\ [Next]_vars => CauseInv'
<1> SUFFICES ASSUME CauseInv, [Next]_vars PROVE CauseInv'
  OBVIOUS
<1>1. IndInv' /\ TypeOK'
  BY NextSafe DEF CauseInv, IndInv
<1>2. CASE \/ \E e \in Events : DeliverBillingChunk(e)
           \/ \E c \in Consumers : FlushCommit(c) \/ Rebalance(c)
           \/ UNCHANGED vars
  BY <1>1, <1>2, GroupLoss, GroupCaused DEF CauseInv
<1>3. CASE \E c \in Consumers : ConsumerStep(c) \/ ConsumerError(c)
  BY <1>1, <1>3, ConsumerLoss, ConsumerCaused DEF CauseInv
<1> QED BY <1>2, <1>3 DEF Next

LEMMA CauseInvariance == Spec => []CauseInv
BY InitCaused, NextCaused, PTL DEF Spec

(* An event is submitted to Metronome once, and once more at most for each *)
(* failure and each rebalance: duplicates in the topic add nothing.        *)
THEOREM ResubmissionsHaveCause == Spec => []ResubmissionHasCause
<1>1. CauseInv => ResubmissionHasCause
  <2> SUFFICES ASSUME CauseInv, NEW e \in Events
               PROVE  Submissions(e) <= 1 + faults + rebalances
    BY DEF ResubmissionHasCause
  <2>1. TypeOK /\ Caused(e)
    BY DEF CauseInv, IndInv
  <2> QED BY <2>1, AccountType, CountersType
<1> QED BY <1>1, CauseInvariance, PTL

(* Of what the group has committed and nobody works on, at most one event  *)
(* per failure is not processed, although offsets are committed first.     *)
THEOREM LossesHaveCause == Spec => []LossIsBounded
<1>1. CauseInv => LossIsBounded
  <2> SUFFICES ASSUME CauseInv PROVE LossIsBounded
    OBVIOUS
  <2>1. TypeOK /\ LossInv
    BY DEF CauseInv, IndInv
  <2> DEFINE gone == { topic[i] : i \in 1 .. committed } \ (processed \cup InHand)
  <2>2. gone \subseteq Lost
    <3>1. 1 .. committed \subseteq Read
      BY <2>1, CountersType DEF Read
    <3> QED BY <3>1 DEF Lost
  <2>3. Cardinality(gone) <= Cardinality(Lost)
        /\ Cardinality(gone) \in Nat /\ Cardinality(Lost) \in Nat
    BY <2>1, <2>2, NoMore DEF LossInv
  <2> QED BY <2>1, <2>3, CountersType DEF LossInv, LossIsBounded
<1> QED BY <1>1, CauseInvariance, PTL
=============================================================================
