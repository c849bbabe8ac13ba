------------------------ MODULE OutboxPublisherProofs ------------------------
(***************************************************************************)
(* Proofs about OutboxPublisher: its types, that nothing is marked which   *)
(* was not sent, that no two workers have the same event in hand, that a   *)
(* reset is silent, and that it is a Relay from the outbox to the topic,   *)
(* for any number of events, workers, replayers, replicas and failures.    *)
(*                                                                         *)
(* The row locks carry the argument.  They keep the leases disjoint and    *)
(* the leased rows unpublished, so that an event which a worker has found  *)
(* not to be processed stays so until that worker itself has recorded it.  *)
(***************************************************************************)
EXTENDS OutboxPublisher, CountingLemmas, TLAPS

(* What worker w may rely on while its transaction is open. *)
Held(w) ==
  /\ pc[w] = "idle" => lease[w] = {}
  /\ \A e \in lease[w] : row[e] = "unpublished"
  /\ success[w] \subseteq processed \cup claimed[w]
  /\ claimed[w] \subseteq Sent
  /\ pc[w] \in {"produce", "claim"} => Current(w) \cap processed = {}
  /\ pc[w] = "claim" => Current(w) \subseteq Sent

LeasesDisjoint ==
  \A v, w \in Workers : v # w => lease[v] \cap lease[w] = {}

(* The inductive invariant. *)
IndInv ==
  /\ TypeOK
  /\ PublishedWasDelivered
  /\ LeasesDisjoint
  /\ \A w \in Workers : Held(w)
-----------------------------------------------------------------------------
(* What is sent stays sent, and a write that arrives is seen. *)
LEMMA WriteSends ==
  ASSUME TypeOK, NEW e \in Events, NEW n \in Nat, Write(e, n)
  PROVE  /\ topic' \in Seq(Events)
         /\ Sent \subseteq Sent'
         /\ n > 0 => e \in Sent'
         /\ \A i \in DOMAIN topic' \ DOMAIN topic : topic'[i] = e
<1>1. topic \in Seq(Events) /\ Len(topic) \in Nat
  BY DEF TypeOK
<1>2. topic' \in Seq(Events) /\ Continued(topic', topic, Len(topic), n, e)
  BY <1>1, RepeatContinues DEF Write
<1>3. Sent \subseteq Sent'
  BY <1>1, <1>2 DEF Sent, Continued
<1>4. ASSUME n > 0 PROVE e \in Sent'
  <2>1. Len(topic) + 1 \in DOMAIN topic' /\ topic'[Len(topic) + 1] = e
    BY <1>1, <1>2, <1>4 DEF Continued
  <2> QED BY <2>1 DEF Sent
<1>5. \A i \in DOMAIN topic' \ DOMAIN topic : topic'[i] = e
  BY <1>1, <1>2 DEF Continued
<1> QED BY <1>2, <1>3, <1>4, <1>5

(* It is the turn of one event of the batch at a time. *)
LEMMA CurrentIsOne ==
  ASSUME TypeOK, NEW w \in Workers, NEW e \in Current(w)
  PROVE  e \in todo[w] /\ e \in Events /\ e \in lease[w] /\ Current(w) = {e}
<1>1. Current(w) \subseteq todo[w] /\ todo[w] \subseteq Events
      /\ todo[w] \subseteq lease[w]
  BY DEF Current, FirstOf, TypeOK, Goroutines
<1>2. ASSUME NEW d \in Current(w) PROVE d = e
  <2>1. d <= e /\ e <= d
    BY <1>1 DEF Current, FirstOf
  <2>2. d \in Nat /\ e \in Nat
    BY <1>1, EventsAssumption
  <2> QED BY <2>1, <2>2
<1> QED BY <1>1, <1>2

(* A lease takes unlocked, unpublished rows. *)
LEMMA LeaseTakes ==
  /\ \A B \in OrderByLimit(Leasable, BatchSize, LAMBDA a, b : a <= b) :
       B \subseteq Leasable
  /\ \A n : \A B \in OrderByLimit(Published, n, LAMBDA a, b : TRUE) :
       B \subseteq Published
BY DEF OrderByLimit
-----------------------------------------------------------------------------
(* Types. *)

LocalType ==
  /\ pc \in [Goroutines ->
               {"idle", "item", "produce", "claim", "commit", "replay"}]
  /\ lease \in [Goroutines -> SUBSET Events]
  /\ todo \in [Goroutines -> SUBSET Events]
  /\ \A w \in Workers : todo[w] \subseteq lease[w]
  /\ success \in [Goroutines -> SUBSET Events]
  /\ \A g \in Goroutines : success[g] \subseteq lease[g]
  /\ claimed \in [Goroutines -> SUBSET Events]
  /\ \A g \in Goroutines : claimed[g] \subseteq success[g]

LEMMA EndTxType ==
  ASSUME TypeOK, NEW w \in Workers, EndTx(w)
  PROVE  LocalType'
BY DEF TypeOK, EndTx, LocalType, Goroutines

LEMMA ContinueType ==
  ASSUME TypeOK, NEW w \in Workers, NEW e \in Events, Continue(w, e)
  PROVE  /\ pc' \in [Goroutines ->
                  {"idle", "item", "produce", "claim", "commit", "replay"}]
         /\ todo' \in [Goroutines -> SUBSET Events]
         /\ \A v \in Workers : todo'[v] \subseteq lease[v]
BY DEF TypeOK, Continue, Goroutines

LEMMA BoundsType ==
  ASSUME TypeOK, NEW n \in Nat, Fault(n)
  PROVE  faults' \in Nat /\ resets' \in Nat /\ replays' \in Nat
BY DEF TypeOK, Fault

LEMMA MarkType ==
  ASSUME TypeOK, NEW w \in Workers, MarkPublished(w) \/ UNCHANGED <<row, processed>>
  PROVE  /\ row' \in [Events -> {"absent", "unpublished", "published"}]
         /\ processed' \subseteq Events
BY DEF TypeOK, MarkPublished, Goroutines

LEMMA InitType == Init => TypeOK
BY DEF Init, TypeOK, Goroutines

LEMMA WorkerStepType ==
  ASSUME TypeOK, NEW w \in Workers, Held(w), WorkerStep(w)
  PROVE  TypeOK'
<1>1. CASE LeaseNothing(w)
  BY <1>1 DEF LeaseNothing, TypeOK, vars
<1>2. CASE Lease(w)
  <2>1. PICK B \in SUBSET Leasable :
          /\ lease' = [lease EXCEPT ![w] = B]
          /\ todo' = [todo EXCEPT ![w] = B]
    BY <1>2, LeaseTakes DEF Lease
  <2>2. B \subseteq Events
    BY DEF Leasable
  <2>3. /\ pc' = [pc EXCEPT ![w] = "item"]
        /\ UNCHANGED <<row, processed, topic, success, claimed, bounds>>
    BY <1>2 DEF Lease
  <2>4. success[w] = {} /\ claimed[w] = {}
    BY <1>2 DEF Lease, Held, TypeOK, Goroutines
  <2> QED BY <2>1, <2>2, <2>3, <2>4 DEF TypeOK, bounds, Goroutines
<1>3. CASE SkipProcessed(w)
  <2>1. PICK e \in Current(w) :
          success' = [success EXCEPT ![w] = @ \cup {e}] /\ Continue(w, e)
    BY <1>3 DEF SkipProcessed
  <2>2. e \in Events /\ e \in lease[w]
    BY CurrentIsOne
  <2> QED BY <1>3, <2>1, <2>2, ContinueType DEF SkipProcessed, TypeOK, bounds, Goroutines
<1>4. CASE SkipInvalid(w)
  <2>1. PICK e \in Current(w) : Continue(w, e)
    BY <1>4 DEF SkipInvalid
  <2>2. e \in Events
    BY CurrentIsOne
  <2> QED BY <1>4, <2>1, <2>2, ContinueType DEF SkipInvalid, TypeOK, bounds
<1>5. CASE CheckIfProcessed(w)
  BY <1>5 DEF CheckIfProcessed, TypeOK, tx, bounds
<1>6. CASE Produce(w)
  <2>1. PICK e \in Current(w), n \in 1 .. MaxAttempts : Write(e, n) /\ Fault(n - 1)
    BY <1>6 DEF Produce
  <2>2. e \in Events /\ n \in Nat /\ n - 1 \in Nat
    BY CurrentIsOne, BatchAssumption
  <2> QED BY <1>6, <2>1, <2>2, WriteSends, BoundsType DEF Produce, TypeOK, tx
<1>7. CASE InsertProcessed(w)
  <2>1. PICK e \in Current(w) :
          /\ claimed' = [claimed EXCEPT ![w] = @ \cup {e}]
          /\ success' = [success EXCEPT ![w] = @ \cup {e}]
          /\ Continue(w, e)
    BY <1>7 DEF InsertProcessed
  <2>2. e \in Events /\ e \in lease[w]
    BY CurrentIsOne
  <2> QED BY <1>7, <2>1, <2>2, ContinueType DEF InsertProcessed, TypeOK, bounds, Goroutines
<1>8. CASE Commit(w)
  BY <1>8, EndTxType, MarkType DEF Commit, TypeOK, LocalType, bounds
<1> QED BY <1>1, <1>2, <1>3, <1>4, <1>5, <1>6, <1>7, <1>8 DEF WorkerStep

LEMMA WorkerErrorType ==
  ASSUME TypeOK, NEW w \in Workers, WorkerError(w)
  PROVE  TypeOK'
<1>1. CASE CheckError(w)
  BY <1>1, EndTxType, BoundsType DEF CheckError, TypeOK, LocalType
<1>2. CASE ProduceError(w)
  <2>1. PICK e \in Current(w), n \in 0 .. MaxAttempts :
          Write(e, n) /\ Fault(IF n = 0 THEN 1 ELSE n) /\ Continue(w, e)
    BY <1>2 DEF ProduceError
  <2>2. e \in Events /\ n \in Nat
    BY CurrentIsOne, BatchAssumption
  <2>3. faults' \in Nat /\ resets' \in Nat /\ replays' \in Nat
    BY <2>1, <2>2 DEF TypeOK, Fault
  <2> QED BY <1>2, <2>1, <2>2, <2>3, WriteSends, ContinueType DEF ProduceError, TypeOK
<1>3. CASE InsertProcessedError(w)
  <2>1. faults' \in Nat /\ resets' \in Nat /\ replays' \in Nat
    BY <1>3 DEF InsertProcessedError, TypeOK, Fault
  <2> QED BY <1>3, <2>1, EndTxType DEF InsertProcessedError, TypeOK, LocalType
<1>4. CASE CommitError(w)
  BY <1>4, EndTxType, MarkType, BoundsType DEF CommitError, TypeOK, LocalType
<1> QED BY <1>1, <1>2, <1>3, <1>4 DEF WorkerError

LEMMA ReplayerType ==
  ASSUME TypeOK, NEW r \in Replayers,
         ReplayFetch(r) \/ ReplaySend(r) \/ ReplayError(r)
  PROVE  TypeOK'
<1>1. r \in Goroutines /\ r \notin Workers
  BY GoroutinesAssumption DEF Goroutines
<1>2. ASSUME NEW e \in todo[r], ReplaySent(r, e)
      PROVE  /\ pc' \in [Goroutines ->
                  {"idle", "item", "produce", "claim", "commit", "replay"}]
             /\ todo' \in [Goroutines -> SUBSET Events]
             /\ \A v \in Workers : todo'[v] = todo[v]
             /\ UNCHANGED <<row, processed, lease, success, claimed>>
  BY <1>1, <1>2 DEF ReplaySent, TypeOK, Goroutines
<1>3. CASE ReplayFetch(r)
  <2>1. PICK B \in SUBSET Published : todo' = [todo EXCEPT ![r] = B \ Invalid]
    BY <1>3, LeaseTakes DEF ReplayFetch
  <2>2. B \subseteq Events
    BY DEF Published
  <2>3. /\ pc' = [pc EXCEPT ![r] = "replay"]
        /\ replays' = replays + 1
        /\ UNCHANGED <<row, processed, topic, lease, success, claimed, faults, resets>>
    BY <1>3 DEF ReplayFetch
  <2> QED BY <1>1, <2>1, <2>2, <2>3 DEF TypeOK, Goroutines
<1>4. CASE ReplaySend(r)
  <2>1. PICK e \in todo[r], n \in 1 .. MaxAttempts :
          Write(e, n) /\ Fault(n - 1) /\ ReplaySent(r, e)
    BY <1>4 DEF ReplaySend
  <2>2. e \in Events /\ n \in Nat /\ n - 1 \in Nat
    BY <1>1, BatchAssumption DEF TypeOK
  <2> QED BY <1>2, <2>1, <2>2, WriteSends, BoundsType DEF TypeOK
<1>5. CASE ReplayError(r)
  <2>1. PICK e \in todo[r], n \in 0 .. MaxAttempts :
          Write(e, n) /\ Fault(IF n = 0 THEN 1 ELSE n) /\ ReplaySent(r, e)
    BY <1>5 DEF ReplayError
  <2>2. e \in Events /\ n \in Nat
    BY <1>1, BatchAssumption DEF TypeOK
  <2>3. faults' \in Nat /\ resets' \in Nat /\ replays' \in Nat
    BY <2>1, <2>2 DEF TypeOK, Fault
  <2> QED BY <1>2, <2>1, <2>2, <2>3, WriteSends DEF TypeOK
<1> QED BY <1>3, <1>4, <1>5

LEMMA EnvironmentType ==
  ASSUME TypeOK,
         \/ \E e \in Events : InsertOutboxEvent(e)
         \/ ResetRandomPublishedOutboxEvents
         \/ \E h \in Hosts : Crash(h)
         \/ UNCHANGED vars
  PROVE  TypeOK'
<1>1. CASE \E e \in Events : InsertOutboxEvent(e)
  BY <1>1 DEF InsertOutboxEvent, TypeOK, tx, bounds
<1>2. CASE ResetRandomPublishedOutboxEvents
  <2>1. PICK B \in SUBSET Published :
          row' = [e \in Events |-> IF e \in B THEN "unpublished" ELSE row[e]]
    BY <1>2, LeaseTakes DEF ResetRandomPublishedOutboxEvents
  <2>2. resets' = resets + 1 /\ UNCHANGED <<processed, topic, pc, tx, faults, replays>>
    BY <1>2 DEF ResetRandomPublishedOutboxEvents
  <2> QED BY <2>1, <2>2 DEF TypeOK, tx
<1>3. CASE \E h \in Hosts : Crash(h)
  <2>1. PICK h \in Hosts : Crash(h)
    BY <1>3
  <2>2. faults' \in Nat /\ resets' \in Nat /\ replays' \in Nat
    BY <2>1 DEF Crash, TypeOK, Fault
  <2> QED BY <2>1, <2>2 DEF Crash, TypeOK, Goroutines
<1>4. CASE UNCHANGED vars
  BY <1>4 DEF vars, TypeOK
<1> QED BY <1>1, <1>2, <1>3, <1>4
-----------------------------------------------------------------------------
(* The invariant. *)

Stepped ==
  PublishedWasDelivered' /\ LeasesDisjoint' /\ \A w \in Workers : Held(w)'

(* A step that leaves the transaction of w alone, takes nothing out of the *)
(* topic and neither changes nor records an event that w has leased leaves *)
(* to w what it relies on.                                                 *)
LEMMA OtherHeld ==
  ASSUME TypeOK, NEW w \in Workers, Held(w),
         pc'[w] = pc[w], lease'[w] = lease[w], todo'[w] = todo[w],
         success'[w] = success[w], claimed'[w] = claimed[w],
         Sent \subseteq Sent', processed \subseteq processed',
         processed' \cap lease[w] \subseteq processed,
         \A e \in lease[w] : row'[e] = row[e]
  PROVE  Held(w)'
<1>1. Current(w)' = Current(w)
  BY DEF Current, FirstOf
<1>2. Current(w) \subseteq lease[w]
  BY CurrentIsOne
<1> QED BY <1>1, <1>2 DEF Held

(* Whatever a worker has claimed or marked, it has leased. *)
LEMMA LeaseBounds ==
  ASSUME TypeOK, NEW w \in Workers
  PROVE  claimed[w] \subseteq success[w] /\ success[w] \subseteq lease[w]
BY DEF TypeOK, Goroutines

(* The step of worker w that keeps its lease or ends its transaction, and  *)
(* touches the tables only within the lease.                               *)
LEMMA WorkerFrame ==
  ASSUME IndInv, NEW w \in Workers, Held(w)',
         \A v \in Workers \ {w} :
           /\ pc'[v] = pc[v] /\ lease'[v] = lease[v] /\ todo'[v] = todo[v]
           /\ success'[v] = success[v] /\ claimed'[v] = claimed[v],
         \A v \in Workers \ {w} : lease'[w] \cap lease[v] = {},
         Sent \subseteq Sent', processed \subseteq processed',
         processed' \subseteq processed \cup lease[w],
         \A e \in Events \ lease[w] : row'[e] = row[e],
         PublishedWasDelivered'
  PROVE  Stepped
<1>1. ASSUME NEW v \in Workers, v # w PROVE Held(v)'
  <2>1. lease[v] \cap lease[w] = {} /\ lease[v] \subseteq Events /\ Held(v)
    BY <1>1 DEF IndInv, LeasesDisjoint, TypeOK, Goroutines
  <2>2. processed' \cap lease[v] \subseteq processed
    BY <2>1
  <2>3. \A e \in lease[v] : row'[e] = row[e]
    BY <2>1
  <2> QED BY <1>1, <2>1, <2>2, <2>3, OtherHeld DEF IndInv
<1>2. LeasesDisjoint'
  BY DEF IndInv, LeasesDisjoint
<1> QED BY <1>1, <1>2 DEF Stepped

(* Only w's own state changes with Continue and with EndTx. *)
LEMMA ContinueLocal ==
  ASSUME TypeOK, NEW w \in Workers, NEW e, Continue(w, e)
  PROVE  /\ \A v \in Workers \ {w} : pc'[v] = pc[v] /\ todo'[v] = todo[v]
         /\ pc'[w] \in {"commit", "item"}
BY DEF TypeOK, Continue, Goroutines

LEMMA EndTxLocal ==
  ASSUME TypeOK, NEW w \in Workers, EndTx(w)
  PROVE  /\ \A v \in Workers \ {w} :
              /\ pc'[v] = pc[v] /\ lease'[v] = lease[v] /\ todo'[v] = todo[v]
              /\ success'[v] = success[v] /\ claimed'[v] = claimed[v]
         /\ lease'[w] = {} /\ pc'[w] = "idle"
         /\ Held(w)'
<1>1. /\ \A v \in Workers \ {w} :
            /\ pc'[v] = pc[v] /\ lease'[v] = lease[v] /\ todo'[v] = todo[v]
            /\ success'[v] = success[v] /\ claimed'[v] = claimed[v]
      /\ lease'[w] = {} /\ pc'[w] = "idle"
      /\ success'[w] = {} /\ claimed'[w] = {}
  BY DEF TypeOK, EndTx, Goroutines
<1> QED BY <1>1 DEF Held

(* A transaction that marks and records does so within what w has sent. *)
LEMMA MarkSafe ==
  ASSUME IndInv, NEW w \in Workers,
         MarkPublished(w) \/ UNCHANGED <<row, processed>>, topic' = topic
  PROVE  /\ PublishedWasDelivered'
         /\ processed \subseteq processed'
         /\ processed' \subseteq processed \cup lease[w]
         /\ \A e \in Events \ lease[w] : row'[e] = row[e]
         /\ Sent' = Sent
<1>1. Sent' = Sent
  BY DEF Sent
<1>2. claimed[w] \subseteq lease[w] /\ success[w] \subseteq lease[w] /\ Held(w)
  BY LeaseBounds DEF IndInv
<1>3. CASE MarkPublished(w)
  <2>1. Published' \subseteq Published \cup success[w]
    BY <1>3 DEF MarkPublished, Published
  <2> QED BY <1>1, <1>2, <1>3, <2>1
          DEF IndInv, PublishedWasDelivered, MarkPublished, Held
<1>4. CASE UNCHANGED <<row, processed>>
  <2>1. Published' = Published
    BY <1>4 DEF Published
  <2> QED BY <1>1, <1>4, <2>1 DEF IndInv, PublishedWasDelivered
<1> QED BY <1>3, <1>4

(* So long as the tables stay as they are, a longer topic does no harm. *)
LEMMA DeliveredStays ==
  ASSUME PublishedWasDelivered, UNCHANGED <<row, processed>>, Sent \subseteq Sent'
  PROVE  PublishedWasDelivered'
BY DEF PublishedWasDelivered, Published

LEMMA WorkerStepSafe ==
  ASSUME IndInv, NEW w \in Workers, WorkerStep(w)
  PROVE  Stepped
<1> USE DEF IndInv
<1>1. CASE LeaseNothing(w)
  <2>1. UNCHANGED vars
    BY <1>1 DEF LeaseNothing
  <2>2. Sent' = Sent /\ Published' = Published
    BY <2>1 DEF vars, Sent, Published
  <2>3. \A v \in Workers : Held(v)'
    BY <2>1, <2>2, OtherHeld DEF vars
  <2> QED BY <2>1, <2>2, <2>3
          DEF Stepped, PublishedWasDelivered, LeasesDisjoint, vars
<1>2. CASE Lease(w)
  <2>1. PICK B \in SUBSET Leasable :
          /\ lease' = [lease EXCEPT ![w] = B]
          /\ todo' = [todo EXCEPT ![w] = B]
    BY <1>2, LeaseTakes DEF Lease
  <2>2. /\ pc[w] = "idle"
        /\ pc' = [pc EXCEPT ![w] = "item"]
        /\ UNCHANGED <<row, processed, topic, success, claimed, bounds>>
    BY <1>2 DEF Lease
  <2>3. /\ pc'[w] = "item" /\ lease'[w] = B
        /\ success'[w] = {} /\ claimed'[w] = {}
    BY <2>1, <2>2 DEF Held, TypeOK, Goroutines
  <2>4. /\ B \subseteq Events
        /\ \A e \in B : row[e] = "unpublished"
        /\ \A v \in Workers : B \cap lease[v] = {}
    BY DEF Leasable, Locked
  <2>5. Sent' = Sent
    BY <2>2 DEF Sent
  <2>6. Held(w)'
    BY <2>2, <2>3, <2>4 DEF Held
  <2>7. \A v \in Workers \ {w} :
          /\ pc'[v] = pc[v] /\ lease'[v] = lease[v] /\ todo'[v] = todo[v]
          /\ success'[v] = success[v] /\ claimed'[v] = claimed[v]
    BY <2>1, <2>2 DEF TypeOK, Goroutines
  <2>8. PublishedWasDelivered'
    BY <2>2, <2>5, DeliveredStays
  <2> QED BY <2>2, <2>3, <2>4, <2>5, <2>6, <2>7, <2>8, WorkerFrame
<1>3. CASE SkipProcessed(w)
  <2>1. PICK e \in Current(w) \cap processed :
          success' = [success EXCEPT ![w] = @ \cup {e}] /\ Continue(w, e)
    BY <1>3 DEF SkipProcessed
  <2>2. UNCHANGED <<row, processed, topic, lease, claimed>>
    BY <1>3 DEF SkipProcessed
  <2>3. success'[w] = success[w] \cup {e} /\ pc'[w] \in {"commit", "item"}
    BY <2>1, ContinueLocal DEF TypeOK, Goroutines
  <2>4. Sent' = Sent
    BY <2>2 DEF Sent
  <2>5. pc[w] = "item"
    BY <1>3 DEF SkipProcessed
  <2>6. Held(w)'
    BY <2>1, <2>2, <2>3, <2>4 DEF Held
  <2>7. \A v \in Workers \ {w} :
          /\ pc'[v] = pc[v] /\ lease'[v] = lease[v] /\ todo'[v] = todo[v]
          /\ success'[v] = success[v] /\ claimed'[v] = claimed[v]
    BY <2>1, <2>2, ContinueLocal DEF TypeOK, Goroutines
  <2> QED BY <2>2, <2>4, <2>6, <2>7, WorkerFrame, DeliveredStays DEF LeasesDisjoint
<1>4. CASE SkipInvalid(w)
  <2>1. PICK e \in Current(w) : Continue(w, e)
    BY <1>4 DEF SkipInvalid
  <2>2. UNCHANGED <<row, processed, topic, lease, success, claimed>>
    BY <1>4 DEF SkipInvalid
  <2>3. Sent' = Sent
    BY <2>2 DEF Sent
  <2>4. Held(w)'
    BY <2>1, <2>2, <2>3, ContinueLocal DEF Held
  <2>5. \A v \in Workers \ {w} : pc'[v] = pc[v] /\ todo'[v] = todo[v]
    BY <2>1, ContinueLocal
  <2> QED BY <2>2, <2>3, <2>4, <2>5, WorkerFrame, DeliveredStays DEF LeasesDisjoint
<1>5. CASE CheckIfProcessed(w)
  <2>1. /\ Current(w) \ (processed \cup Invalid) # {}
        /\ pc' = [pc EXCEPT ![w] = "produce"]
        /\ UNCHANGED <<row, processed, topic, lease, todo, success, claimed>>
    BY <1>5 DEF CheckIfProcessed, tx
  <2>2. Sent' = Sent /\ Current(w)' = Current(w)
    BY <2>1 DEF Sent, Current, FirstOf
  <2>3. Current(w) \cap processed = {}
    BY <2>1, CurrentIsOne
  <2>4. pc'[w] = "produce" /\ \A v \in Workers \ {w} : pc'[v] = pc[v]
    BY <2>1 DEF TypeOK, Goroutines
  <2>5. Held(w)'
    BY <2>1, <2>2, <2>3, <2>4 DEF Held
  <2> QED BY <2>1, <2>2, <2>4, <2>5, WorkerFrame, DeliveredStays DEF LeasesDisjoint
<1>6. CASE Produce(w)
  <2>1. PICK e \in Current(w), n \in 1 .. MaxAttempts : Write(e, n)
    BY <1>6 DEF Produce
  <2>2. /\ pc[w] = "produce"
        /\ pc' = [pc EXCEPT ![w] = "claim"]
        /\ UNCHANGED <<row, processed, lease, todo, success, claimed>>
    BY <1>6 DEF Produce, tx
  <2>3. /\ e \in Events /\ Current(w) = {e} /\ n \in Nat /\ n > 0
    BY <2>1, CurrentIsOne, BatchAssumption
  <2>4. Sent \subseteq Sent' /\ e \in Sent'
    BY <2>1, <2>3, WriteSends
  <2>5. Current(w)' = Current(w)
    BY <2>2 DEF Current, FirstOf
  <2>6. pc'[w] = "claim" /\ \A v \in Workers \ {w} : pc'[v] = pc[v]
    BY <2>2 DEF TypeOK, Goroutines
  <2>7. Held(w)'
    BY <2>2, <2>3, <2>4, <2>5, <2>6 DEF Held
  <2> QED BY <2>2, <2>4, <2>6, <2>7, WorkerFrame, DeliveredStays DEF LeasesDisjoint
<1>7. CASE InsertProcessed(w)
  <2>1. PICK e \in Current(w) \ processed :
          /\ claimed' = [claimed EXCEPT ![w] = @ \cup {e}]
          /\ success' = [success EXCEPT ![w] = @ \cup {e}]
          /\ Continue(w, e)
    BY <1>7 DEF InsertProcessed
  <2>2. pc[w] = "claim" /\ UNCHANGED <<row, processed, topic, lease>>
    BY <1>7 DEF InsertProcessed
  <2>3. /\ claimed'[w] = claimed[w] \cup {e} /\ success'[w] = success[w] \cup {e}
        /\ pc'[w] \in {"commit", "item"}
    BY <2>1, ContinueLocal DEF TypeOK, Goroutines
  <2>4. Sent' = Sent
    BY <2>2 DEF Sent
  <2>5. Held(w)'
    BY <2>1, <2>2, <2>3, <2>4 DEF Held
  <2>6. \A v \in Workers \ {w} :
          /\ pc'[v] = pc[v] /\ todo'[v] = todo[v]
          /\ success'[v] = success[v] /\ claimed'[v] = claimed[v]
    BY <2>1, ContinueLocal DEF TypeOK, Goroutines
  <2> QED BY <2>2, <2>4, <2>5, <2>6, WorkerFrame, DeliveredStays DEF LeasesDisjoint
<1>8. CASE Commit(w)
  <2>1. MarkPublished(w) /\ EndTx(w) /\ topic' = topic
    BY <1>8 DEF Commit
  <2> QED BY <2>1, EndTxLocal, MarkSafe, WorkerFrame
<1> QED BY <1>1, <1>2, <1>3, <1>4, <1>5, <1>6, <1>7, <1>8 DEF WorkerStep

LEMMA WorkerErrorSafe ==
  ASSUME IndInv, NEW w \in Workers, WorkerError(w)
  PROVE  Stepped
<1> USE DEF IndInv
<1>1. CASE CheckError(w) \/ InsertProcessedError(w)
  <2>1. EndTx(w) /\ UNCHANGED <<row, processed, topic>>
    BY <1>1 DEF CheckError, InsertProcessedError
  <2> QED BY <2>1, EndTxLocal, MarkSafe, WorkerFrame
<1>2. CASE ProduceError(w)
  <2>1. PICK e \in Current(w), n \in 0 .. MaxAttempts : Write(e, n) /\ Continue(w, e)
    BY <1>2 DEF ProduceError
  <2>2. UNCHANGED <<row, processed, lease, success, claimed>>
    BY <1>2 DEF ProduceError
  <2>3. e \in Events /\ n \in Nat
    BY <2>1, CurrentIsOne, BatchAssumption
  <2>4. Sent \subseteq Sent'
    BY <2>1, <2>3, WriteSends
  <2>5. /\ \A v \in Workers \ {w} : pc'[v] = pc[v] /\ todo'[v] = todo[v]
        /\ pc'[w] \in {"commit", "item"}
    BY <2>1, ContinueLocal
  <2>6. pc[w] = "produce"
    BY <1>2 DEF ProduceError
  <2>7. Held(w)'
    BY <2>2, <2>4, <2>5 DEF Held
  <2> QED BY <2>2, <2>4, <2>5, <2>7, WorkerFrame, DeliveredStays DEF LeasesDisjoint
<1>3. CASE CommitError(w)
  <2>1. /\ MarkPublished(w) \/ UNCHANGED <<row, processed>>
        /\ EndTx(w) /\ topic' = topic
    BY <1>3 DEF CommitError
  <2> QED BY <2>1, EndTxLocal, MarkSafe, WorkerFrame
<1> QED BY <1>1, <1>2, <1>3 DEF WorkerError

(* A replayer reads the table and adds to the topic, no more. *)
LEMMA ReplayerSafe ==
  ASSUME IndInv, NEW r \in Replayers,
         ReplayFetch(r) \/ ReplaySend(r) \/ ReplayError(r)
  PROVE  Stepped
<1> USE DEF IndInv
<1>1. r \in Goroutines /\ r \notin Workers
  BY GoroutinesAssumption DEF Goroutines
<1>2. /\ UNCHANGED <<row, processed, lease, success, claimed>>
      /\ \A v \in Workers : pc'[v] = pc[v] /\ todo'[v] = todo[v]
  BY <1>1 DEF ReplayFetch, ReplaySend, ReplayError, ReplaySent, TypeOK, Goroutines
<1>3. Sent \subseteq Sent'
  <2>1. CASE ReplayFetch(r)
    BY <2>1 DEF ReplayFetch, Sent
  <2>2. CASE ReplaySend(r) \/ ReplayError(r)
    <3>1. PICK e \in todo[r], n \in 0 .. MaxAttempts : Write(e, n)
      BY <2>2, BatchAssumption DEF ReplaySend, ReplayError
    <3>2. e \in Events /\ n \in Nat
      BY <1>1, BatchAssumption DEF TypeOK
    <3> QED BY <3>1, <3>2, WriteSends
  <2> QED BY <2>1, <2>2
<1>4. \A w \in Workers : Held(w)'
  BY <1>2, <1>3, OtherHeld
<1> QED BY <1>2, <1>3, <1>4, DeliveredStays DEF Stepped, LeasesDisjoint

LEMMA EnvironmentSafe ==
  ASSUME IndInv,
         \/ \E e \in Events : InsertOutboxEvent(e)
         \/ ResetRandomPublishedOutboxEvents
         \/ \E h \in Hosts : Crash(h)
         \/ UNCHANGED vars
  PROVE  Stepped
<1> USE DEF IndInv
<1>1. ASSUME UNCHANGED <<processed, topic, pc, tx>>,
             Published' \subseteq Published,
             \A e \in Events : row[e] = "unpublished" => row'[e] = "unpublished"
      PROVE  Stepped
  <2>1. Sent' = Sent
    BY <1>1 DEF Sent
  <2>2. PublishedWasDelivered'
    BY <1>1, <2>1 DEF PublishedWasDelivered
  <2>3. ASSUME NEW w \in Workers PROVE Held(w)'
    <3>1. \A e \in lease[w] : row'[e] = row[e]
      BY <1>1 DEF Held, TypeOK, Goroutines
    <3> QED BY <1>1, <2>1, <3>1, OtherHeld DEF tx
  <2> QED BY <1>1, <2>2, <2>3 DEF Stepped, LeasesDisjoint, tx
<1>2. CASE \E e \in Events : InsertOutboxEvent(e)
  <2>1. PICK e \in Events : InsertOutboxEvent(e)
    BY <1>2
  <2>2. /\ row[e] = "absent" /\ row' = [row EXCEPT ![e] = "unpublished"]
        /\ UNCHANGED <<processed, topic, pc, tx>>
    BY <2>1 DEF InsertOutboxEvent
  <2>3. Published' \subseteq Published
    BY <2>2 DEF Published, TypeOK
  <2> QED BY <1>1, <2>2, <2>3 DEF TypeOK
<1>3. CASE ResetRandomPublishedOutboxEvents
  <2>1. PICK B \in SUBSET Published :
          row' = [e \in Events |-> IF e \in B THEN "unpublished" ELSE row[e]]
    BY <1>3, LeaseTakes DEF ResetRandomPublishedOutboxEvents
  <2>2. UNCHANGED <<processed, topic, pc, tx>>
    BY <1>3 DEF ResetRandomPublishedOutboxEvents
  <2>3. Published' \subseteq Published
    BY <2>1 DEF Published
  <2> QED BY <1>1, <2>1, <2>2, <2>3
<1>4. CASE \E h \in Hosts : Crash(h)
  <2>1. PICK h \in Hosts : Crash(h)
    BY <1>4
  <2>2. UNCHANGED <<row, processed, topic>>
    BY <2>1 DEF Crash
  <2>3. Sent' = Sent
    BY <2>2 DEF Sent
  <2>4. ASSUME NEW w \in Workers, w \in h
        PROVE  lease'[w] = {} /\ Held(w)'
    <3>1. pc'[w] = "idle" /\ lease'[w] = {} /\ success'[w] = {} /\ claimed'[w] = {}
      BY <2>1, <2>4 DEF Crash, Goroutines
    <3> QED BY <3>1 DEF Held
  <2>5. ASSUME NEW w \in Workers, w \notin h
        PROVE  lease'[w] = lease[w] /\ Held(w)'
    <3>1. /\ pc'[w] = pc[w] /\ lease'[w] = lease[w] /\ todo'[w] = todo[w]
          /\ success'[w] = success[w] /\ claimed'[w] = claimed[w]
      BY <2>1, <2>5 DEF Crash, Goroutines
    <3> QED BY <2>2, <2>3, <3>1, OtherHeld
  <2>6. LeasesDisjoint'
    <3>1. \A w \in Workers : lease'[w] \subseteq lease[w]
      BY <2>4, <2>5
    <3> QED BY <3>1 DEF LeasesDisjoint
  <2> QED BY <2>2, <2>3, <2>4, <2>5, <2>6, DeliveredStays DEF Stepped
<1>5. CASE UNCHANGED vars
  BY <1>1, <1>5 DEF vars, tx, Published
<1> QED BY <1>2, <1>3, <1>4, <1>5

LEMMA InitSafe == Init => IndInv
<1> SUFFICES ASSUME Init PROVE IndInv
  OBVIOUS
<1>1. TypeOK
  BY InitType
<1>2. PublishedWasDelivered
  BY DEF Init, PublishedWasDelivered, Published
<1>3. LeasesDisjoint /\ \A w \in Workers : Held(w)
  BY DEF Init, LeasesDisjoint, Held, Goroutines
<1> QED BY <1>1, <1>2, <1>3 DEF IndInv

LEMMA NextSafe == IndInv /\ [Next]_vars => IndInv'
<1> SUFFICES ASSUME IndInv, [Next]_vars PROVE IndInv'
  OBVIOUS
<1>1. TypeOK /\ \A w \in Workers : Held(w)
  BY DEF IndInv
<1>2. CASE \E w \in Workers : WorkerStep(w) \/ WorkerError(w)
  BY <1>1, <1>2, WorkerStepType, WorkerErrorType, WorkerStepSafe, WorkerErrorSafe
     DEF IndInv, Stepped
<1>3. CASE \E r \in Replayers : ReplayFetch(r) \/ ReplaySend(r) \/ ReplayError(r)
  BY <1>1, <1>3, ReplayerType, ReplayerSafe DEF IndInv, Stepped
<1>4. CASE \/ \E e \in Events : InsertOutboxEvent(e)
          \/ ResetRandomPublishedOutboxEvents
          \/ \E h \in Hosts : Crash(h)
  BY <1>1, <1>4, EnvironmentType, EnvironmentSafe DEF IndInv, Stepped
<1>5. CASE UNCHANGED vars
  BY <1>1, <1>5, EnvironmentType, EnvironmentSafe DEF IndInv, Stepped
<1>6. CASE Next
  BY <1>2, <1>3, <1>4, <1>6 DEF Next
<1> QED BY <1>5, <1>6

LEMMA Invariance == Spec => []IndInv
BY InitSafe, NextSafe, PTL DEF Spec

(* All variables keep their types, and each worker handles, marks and      *)
(* records nothing but what it has leased.                                 *)
THEOREM TypeCorrect == Spec => []TypeOK
<1>1. IndInv => TypeOK
  BY DEF IndInv
<1> QED BY <1>1, Invariance, PTL

(* However calls fail, replicas crash and the injector resets, an event is *)
(* marked published or processed only after it was sent.                   *)
THEOREM OutboxLosesNothing == Spec => []PublishedWasDelivered
<1>1. IndInv => PublishedWasDelivered
  BY DEF IndInv
<1> QED BY <1>1, Invariance, PTL

(* No two workers have the same event in hand, and none sends or records   *)
(* an event that has been recorded before.                                 *)
THEOREM ClaimsAreExclusive == Spec => []ClaimIsFresh
<1>1. IndInv => ClaimIsFresh
  <2> SUFFICES ASSUME IndInv, NEW w \in Workers, pc[w] \in {"produce", "claim"}
               PROVE  /\ Current(w) \cap processed = {}
                      /\ \A v \in Workers \ {w} :
                           Current(w) \cap (lease[v] \cup claimed[v]) = {}
    BY DEF ClaimIsFresh
  <2>1. Current(w) \cap processed = {}
    BY DEF IndInv, Held
  <2>2. Current(w) \subseteq lease[w]
    BY CurrentIsOne DEF IndInv
  <2>3. \A v \in Workers \ {w} : claimed[v] \subseteq lease[v]
    BY LeaseBounds DEF IndInv
  <2> QED BY <2>1, <2>2, <2>3 DEF IndInv, LeasesDisjoint
<1> QED BY <1>1, Invariance, PTL

(* Workers send only what is not recorded as processed. *)
LEMMA StepIsSilent ==
  ASSUME IndInv, [Next]_vars, NEW w \in Workers, topic' # topic, pc'[w] # pc[w],
         NEW i \in DOMAIN topic' \ DOMAIN topic
  PROVE  topic'[i] \notin processed
<1> USE DEF IndInv
<1>1. CASE \E v \in Workers : WorkerStep(v) \/ WorkerError(v)
  <2>1. PICK v \in Workers : WorkerStep(v) \/ WorkerError(v)
    BY <1>1
  <2>2. Produce(v) \/ ProduceError(v)
    BY <2>1 DEF WorkerStep, WorkerError, LeaseNothing, Lease, SkipProcessed, SkipInvalid,
                CheckIfProcessed, InsertProcessed, Commit, CheckError,
                InsertProcessedError, CommitError, vars
  <2>3. PICK e \in Current(v), n \in 0 .. MaxAttempts : Write(e, n)
    BY <2>2, BatchAssumption DEF Produce, ProduceError
  <2>4. e \in Events /\ n \in Nat /\ e \notin processed
    BY <2>2, <2>3, CurrentIsOne, BatchAssumption DEF Produce, ProduceError, Held
  <2> QED BY <2>3, <2>4, WriteSends
<1>2. CASE \E r \in Replayers : ReplayFetch(r) \/ ReplaySend(r) \/ ReplayError(r)
  <2>1. PICK r \in Replayers : \E label : pc' = [pc EXCEPT ![r] = label]
    BY <1>2 DEF ReplayFetch, ReplaySend, ReplayError, ReplaySent
  <2>2. r # w /\ w \in DOMAIN pc
    BY GoroutinesAssumption DEF TypeOK, Goroutines
  <2> QED BY <2>1, <2>2
<1> QED BY <1>1, <1>2
        DEF Next, InsertOutboxEvent, ResetRandomPublishedOutboxEvents, Crash, vars

(* However the injector resets rows, no worker sends an event again once   *)
(* it is recorded as processed.                                            *)
THEOREM ResetsAreSilent == Spec => ResetIsSilent
<1>1. IndInv /\ [Next]_vars =>
        [\A w \in Workers : topic' # topic /\ pc'[w] # pc[w] =>
           \A i \in DOMAIN topic' \ DOMAIN topic : topic'[i] \notin processed]_vars
  BY StepIsSilent
<1> QED BY <1>1, Invariance, PTL DEF Spec, ResetIsSilent
-----------------------------------------------------------------------------
(* The publisher is a Relay from the outbox to the topic.  To the invariant *)
(* above this adds that replayers have only events of the outbox in hand.  *)

(* The events of the outbox, published or not. *)
Inserted == { e \in Events : row[e] # "absent" }

ReplaysInserted == \A r \in Replayers : todo[r] \subseteq Inserted

RelayInv == IndInv /\ ReplaysInserted
-----------------------------------------------------------------------------
(* What a step may do, seen from outside: more events in the outbox, a     *)
(* write of one of them, records of what was sent, or nothing.             *)

Inserts ==
  /\ Inserted \subseteq Inserted'
  /\ Sent' = Sent /\ processed' = processed

Sends(e) ==
  /\ e \in Inserted
  /\ Sent \subseteq Sent' /\ Sent' \subseteq Sent \cup {e}
  /\ Inserted' = Inserted /\ processed' = processed

Records ==
  /\ processed \subseteq processed' /\ processed' \subseteq Sent
  /\ Inserted' = Inserted /\ Sent' = Sent

RelayStep == Inserts \/ (\E e \in Events : Sends(e)) \/ Records

LEMMA WriteSendsOne ==
  ASSUME TypeOK, NEW e \in Events, NEW n \in Nat, Write(e, n)
  PROVE  Sent \subseteq Sent' /\ Sent' \subseteq Sent \cup {e}
<1>1. Continued(topic', topic, Len(topic), n, e) /\ Len(topic) \in Nat
  BY RepeatContinues DEF Write, TypeOK
<1>2. Sent' \subseteq Sent \cup {e}
  BY <1>1 DEF Sent, Continued
<1> QED BY <1>2, WriteSends

(* A worker sends, and later records, what it has leased. *)
LEMMA WorkerRelays ==
  ASSUME RelayInv, NEW w \in Workers, WorkerStep(w) \/ WorkerError(w)
  PROVE  RelayStep
<1> USE DEF RelayInv, IndInv
<1>1. Held(w) /\ w \in Goroutines
  BY DEF Goroutines
<1>2. lease[w] \subseteq Inserted
  BY <1>1 DEF Held, Inserted, TypeOK
<1>3. CASE UNCHANGED <<row, processed, topic>>
  BY <1>3 DEF RelayStep, Inserts, Inserted, Sent
<1>4. CASE \E e \in Current(w), n \in 0 .. MaxAttempts :
             Write(e, n) /\ UNCHANGED <<row, processed>>
  <2>1. PICK e \in Current(w), n \in 0 .. MaxAttempts :
          Write(e, n) /\ UNCHANGED <<row, processed>>
    BY <1>4
  <2>2. e \in Events /\ e \in lease[w] /\ n \in Nat
    BY CurrentIsOne, BatchAssumption
  <2>3. Sent \subseteq Sent' /\ Sent' \subseteq Sent \cup {e}
    BY <2>1, <2>2, WriteSendsOne
  <2> QED BY <1>2, <2>1, <2>2, <2>3 DEF RelayStep, Sends, Inserted
<1>5. CASE MarkPublished(w) /\ topic' = topic
  <2>1. success[w] \subseteq Inserted /\ claimed[w] \subseteq Sent
    BY <1>1, <1>2, LeaseBounds DEF Held
  <2>2. processed' = processed \cup claimed[w] /\ processed' \subseteq Sent
    BY <1>5, <2>1 DEF MarkPublished, PublishedWasDelivered
  <2>3. Inserted' = Inserted
    BY <1>5, <2>1 DEF MarkPublished, Inserted
  <2> QED BY <1>5, <2>2, <2>3 DEF RelayStep, Records, Sent
<1>6. CASE Produce(w) \/ ProduceError(w)
  BY <1>4, <1>6, BatchAssumption DEF Produce, ProduceError
<1>7. CASE Commit(w) \/ CommitError(w)
  BY <1>3, <1>5, <1>7 DEF Commit, CommitError
<1> QED BY <1>3, <1>6, <1>7
        DEF WorkerStep, WorkerError, LeaseNothing, Lease, SkipProcessed, SkipInvalid,
            CheckIfProcessed, CheckError, InsertProcessed, InsertProcessedError, vars

(* A replayer sends what it has found in the outbox. *)
LEMMA ReplayerRelays ==
  ASSUME RelayInv, NEW r \in Replayers,
         ReplayFetch(r) \/ ReplaySend(r) \/ ReplayError(r)
  PROVE  RelayStep
<1> USE DEF RelayInv, IndInv
<1>1. CASE ReplayFetch(r)
  BY <1>1 DEF ReplayFetch, RelayStep, Inserts, Inserted, Sent
<1>2. CASE ReplaySend(r) \/ ReplayError(r)
  <2>1. PICK e \in todo[r], n \in 0 .. MaxAttempts :
          Write(e, n) /\ UNCHANGED <<row, processed>>
    BY <1>2, BatchAssumption DEF ReplaySend, ReplayError, ReplaySent
  <2>2. e \in Inserted /\ e \in Events /\ n \in Nat
    BY BatchAssumption DEF ReplaysInserted, Inserted
  <2>3. Sent \subseteq Sent' /\ Sent' \subseteq Sent \cup {e}
    BY <2>1, <2>2, WriteSendsOne
  <2> QED BY <2>1, <2>2, <2>3 DEF RelayStep, Sends, Inserted
<1> QED BY <1>1, <1>2

(* Nothing else changes the topic or a record, or removes a row. *)
LEMMA EnvironmentRelays ==
  ASSUME RelayInv,
         \/ \E e \in Events : InsertOutboxEvent(e)
         \/ ResetRandomPublishedOutboxEvents
         \/ \E h \in Hosts : Crash(h)
         \/ UNCHANGED vars
  PROVE  RelayStep
<1> USE DEF RelayInv, IndInv
<1>1. CASE \E e \in Events : InsertOutboxEvent(e)
  BY <1>1 DEF InsertOutboxEvent, RelayStep, Inserts, Inserted, Sent, TypeOK
<1>2. CASE ResetRandomPublishedOutboxEvents
  <2>1. PICK B \in SUBSET Published :
          row' = [e \in Events |-> IF e \in B THEN "unpublished" ELSE row[e]]
    BY <1>2, LeaseTakes DEF ResetRandomPublishedOutboxEvents
  <2>2. UNCHANGED <<processed, topic>>
    BY <1>2 DEF ResetRandomPublishedOutboxEvents
  <2> QED BY <2>1, <2>2 DEF RelayStep, Inserts, Inserted, Sent
<1>3. CASE (\E h \in Hosts : Crash(h)) \/ UNCHANGED vars
  BY <1>3 DEF Crash, vars, RelayStep, Inserts, Inserted, Sent
<1> QED BY <1>1, <1>2, <1>3

LEMMA NextRelays == RelayInv /\ [Next]_vars => RelayStep
BY WorkerRelays, ReplayerRelays, EnvironmentRelays DEF Next
-----------------------------------------------------------------------------
(* No step gives a replayer an event that is not in the outbox. *)
LEMMA ReplaysInsertedStep == RelayInv /\ [Next]_vars => ReplaysInserted'
<1> SUFFICES ASSUME RelayInv, [Next]_vars, NEW r \in Replayers
             PROVE  todo'[r] \subseteq Inserted'
  BY DEF ReplaysInserted
<1> USE DEF RelayInv, IndInv
<1>1. Inserted \subseteq Inserted'
  BY NextRelays DEF RelayStep, Inserts, Sends, Records
<1>2. r \in Goroutines /\ r \notin Workers /\ todo[r] \subseteq Inserted
  BY GoroutinesAssumption DEF Goroutines, ReplaysInserted
<1>3. CASE todo'[r] \subseteq todo[r]
  BY <1>1, <1>2, <1>3
<1>4. CASE \E w \in Workers : WorkerStep(w) \/ WorkerError(w)
  <2>1. PICK w \in Workers : WorkerStep(w) \/ WorkerError(w)
    BY <1>4
  <2>2. todo'[r] = todo[r]
    BY <1>2, <2>1
       DEF TypeOK, WorkerStep, WorkerError, LeaseNothing, Lease, SkipProcessed, SkipInvalid,
           CheckIfProcessed, Produce, InsertProcessed, Commit, CheckError, ProduceError,
           InsertProcessedError, CommitError, Continue, EndTx, vars, tx
  <2> QED BY <1>3, <2>2
<1>5. CASE \E q \in Replayers : ReplayFetch(q)
  <2>1. PICK q \in Replayers : ReplayFetch(q)
    BY <1>5
  <2>2. PICK B \in SUBSET Published : todo' = [todo EXCEPT ![q] = B \ Invalid]
    BY <2>1, LeaseTakes DEF ReplayFetch
  <2>3. Published \subseteq Inserted
    BY DEF Published, Inserted
  <2> QED BY <1>1, <1>2, <2>2, <2>3 DEF TypeOK
<1>6. CASE \E q \in Replayers : ReplaySend(q) \/ ReplayError(q)
  BY <1>2, <1>3, <1>6 DEF ReplaySend, ReplayError, ReplaySent, TypeOK
<1>7. CASE \/ \E e \in Events : InsertOutboxEvent(e)
           \/ ResetRandomPublishedOutboxEvents
           \/ \E h \in Hosts : Crash(h)
           \/ UNCHANGED vars
  BY <1>2, <1>3, <1>7
     DEF InsertOutboxEvent, ResetRandomPublishedOutboxEvents, Crash, vars, tx
<1> QED BY <1>4, <1>5, <1>6, <1>7 DEF Next

LEMMA RelayInvariance == Spec => []RelayInv
<1>1. Init => RelayInv
  BY InitSafe DEF Init, RelayInv, ReplaysInserted, Goroutines
<1>2. RelayInv /\ [Next]_vars => RelayInv'
  BY NextSafe, ReplaysInsertedStep DEF RelayInv
<1> QED BY <1>1, <1>2, PTL DEF Spec

LEMMA InitRelays == Init => Stage!Init
BY DEF Init, Stage!Init, Sent

(* Every step of the publisher is a step of the relay or changes nothing   *)
(* that the relay shows.                                                   *)
LEMMA StepRelays == RelayInv /\ [Next]_vars => [Stage!Next]_(Stage!vars)
<1> SUFFICES ASSUME RelayStep PROVE [Stage!Next]_(Stage!vars)
  BY NextRelays
<1>1. CASE Inserts
  BY <1>1 DEF Inserts, Inserted, Stage!Next, Stage!Put
<1>2. CASE \E e \in Events : Sends(e)
  <2>1. PICK e \in Events : Sends(e)
    BY <1>2
  <2>2. Sent' = Sent \/ Sent' = Sent \cup {e}
    BY <2>1 DEF Sends
  <2> QED BY <2>1, <2>2 DEF Sends, Inserted, Stage!Next, Stage!Forward, Stage!vars
<1>3. CASE Records
  BY <1>3 DEF Records, Inserted, Stage!Next, Stage!Record
<1> QED BY <1>1, <1>2, <1>3 DEF RelayStep

(* The publisher is a relay from the outbox to the topic, whatever fails   *)
(* and whatever is reset or replayed: it sends only events of the outbox,  *)
(* and records an event only after it was sent.                            *)
THEOREM PublisherIsRelay == Spec => ImplementsRelay
BY RelayInvariance, InitRelays, StepRelays, PTL DEF Spec, ImplementsRelay, Stage!Spec
=============================================================================
