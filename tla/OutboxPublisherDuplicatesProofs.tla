------------------- MODULE OutboxPublisherDuplicatesProofs -------------------
(***************************************************************************)
(* The proof that every repeated message of an event has a cause: a        *)
(* failure or a replay.                                                    *)
(*                                                                         *)
(* The copies of an event are weighed against what may still add to them:  *)
(* each replayer that has the event in hand will send it once more, and so *)
(* will the workers, once, unless the event is settled.  Whoever sends     *)
(* gives up a claim to send, except by a failure, which is counted.        *)
(***************************************************************************)
EXTENDS OutboxPublisherProofs

(* No worker will send event e, if nothing fails: it is recorded, or the   *)
(* worker that has sent it is about to record it.                          *)
Settled(e) ==
  \/ e \in processed
  \/ \E w \in Workers : e \in claimed[w] \/ (pc[w] = "claim" /\ e \in Current(w))

Owed(e) == IF Settled(e) THEN 0 ELSE 1

(* The replayers that are going to send event e. *)
InFlight(e) == { r \in Replayers : e \in todo[r] }

Caused(e) ==
  /\ IsFiniteSet(InFlight(e))
  /\ Copies(e) + Cardinality(InFlight(e)) + Owed(e) <= 1 + faults + replays

(* A worker that sends has an event to send, and not one it has claimed.   *)
InHand(w) ==
  /\ todo[w] \cap claimed[w] = {}
  /\ pc[w] \in {"produce", "claim"} => Current(w) # {}

(* The inductive invariant, on top of that of OutboxPublisherProofs. *)
CauseInv ==
  /\ IndInv
  /\ \A w \in Workers : InHand(w)
  /\ \A e \in Events : Caused(e)
-----------------------------------------------------------------------------
(* Counting. *)

LEMMA CopiesType ==
  ASSUME TypeOK, NEW e \in Events
  PROVE  Copies(e) = Cardinality(Places(topic, e)) /\ Copies(e) \in Nat
<1>1. Copies(e) = Cardinality(Places(topic, e))
  BY DEF Copies, Places
<1>2. topic \in Seq(Events)
  BY DEF TypeOK
<1> QED BY <1>1, <1>2, PlacesFinite

LEMMA OwedType ==
  ASSUME NEW e
  PROVE  Owed(e) \in 0 .. 1
BY DEF Owed

(* A write of e adds its tries to the copies of e, and to no others. *)
LEMMA WriteCounts ==
  ASSUME TypeOK, NEW e \in Events, NEW n \in Nat, Write(e, n)
  PROVE  /\ Copies(e)' = Copies(e) + n
         /\ \A d \in Events \ {e} : Copies(d)' = Copies(d)
<1>1. Continued(topic', topic, Len(topic), n, e)
  BY RepeatContinues DEF Write, TypeOK
<1>2. Cardinality(Places(topic', e)) = Cardinality(Places(topic, e)) + n
  BY <1>1, MoreOfIt
<1>3. \A d \in Events \ {e} : Places(topic', d) = Places(topic, d)
  BY <1>1, SameOfOthers
<1> QED BY <1>2, <1>3 DEF Copies, Places

(* An event of which no copy is added keeps its account, unless the step   *)
(* makes it unsettled; the failure that does so pays for the copy to come. *)
LEMMA CausedStays ==
  ASSUME TypeOK, TypeOK', NEW d \in Events, Caused(d),
         Copies(d)' = Copies(d),
         InFlight(d)' \subseteq InFlight(d),
         \/ /\ Settled(d) => Settled(d)'
            /\ faults' + replays' >= faults + replays
         \/ faults' + replays' = faults + replays + 1
  PROVE  Caused(d)'
<1>1. /\ IsFiniteSet(InFlight(d)')
      /\ Cardinality(InFlight(d)') \in Nat /\ Cardinality(InFlight(d)) \in Nat
      /\ Cardinality(InFlight(d)') <= Cardinality(InFlight(d))
  BY NoMore DEF Caused
<1>2. Copies(d) \in Nat /\ {faults, replays, faults', replays'} \subseteq Nat
  BY CopiesType DEF TypeOK
<1>3. Copies(d) + Cardinality(InFlight(d)) + Owed(d) <= 1 + faults + replays
  BY DEF Caused
<1>4. /\ Owed(d) \in 0 .. 1 /\ Owed(d)' \in 0 .. 1
      /\ (Settled(d) => Settled(d)') => Owed(d)' <= Owed(d)
  BY DEF Owed
<1>5. Copies(d)' + Cardinality(InFlight(d)') + Owed(d)' <= 1 + faults' + replays'
  BY <1>1, <1>2, <1>3, <1>4
<1> QED BY <1>1, <1>5 DEF Caused

(* A worker sends n copies of an event that the workers owed: all but the  *)
(* one that settles it are counted as failures.                            *)
LEMMA WorkerSends ==
  ASSUME TypeOK, TypeOK', NEW e \in Events, Caused(e), NEW n \in Nat,
         Copies(e)' = Copies(e) + n, InFlight(e)' = InFlight(e),
         replays' = replays, ~Settled(e),
         faults' >= faults + n \/ (Settled(e)' /\ faults' = faults + n - 1)
  PROVE  Caused(e)'
<1>1. /\ Copies(e) \in Nat /\ {faults, replays, faults'} \subseteq Nat
      /\ Cardinality(InFlight(e)) \in Nat
  BY CopiesType, FS_CardinalityType DEF TypeOK, Caused
<1>2. Owed(e) = 1 /\ Owed(e)' \in 0 .. 1 /\ (Settled(e)' => Owed(e)' = 0)
  BY DEF Owed
<1>3. Copies(e) + Cardinality(InFlight(e)) + Owed(e) <= 1 + faults + replays
  BY DEF Caused
<1>4. Copies(e)' + Cardinality(InFlight(e)) + Owed(e)' <= 1 + faults' + replays'
  BY <1>1, <1>2, <1>3
<1> QED BY <1>4 DEF Caused

(* A replayer sends n copies of an event it had in hand. *)
LEMMA ReplayerSends ==
  ASSUME TypeOK, TypeOK', NEW e \in Events, Caused(e), NEW n \in Nat,
         NEW r \in InFlight(e), InFlight(e)' \subseteq InFlight(e) \ {r},
         Copies(e)' = Copies(e) + n, Settled(e) => Settled(e)',
         replays' = replays, faults' >= faults + n - 1
  PROVE  Caused(e)'
<1>1. /\ IsFiniteSet(InFlight(e)')
      /\ Cardinality(InFlight(e)') \in Nat /\ Cardinality(InFlight(e)) \in Nat
      /\ Cardinality(InFlight(e)') <= Cardinality(InFlight(e)) - 1
  BY OneLess DEF Caused
<1>2. Copies(e) \in Nat /\ {faults, replays, faults'} \subseteq Nat
  BY CopiesType DEF TypeOK
<1>3. /\ Copies(e) + Cardinality(InFlight(e)) + Owed(e) <= 1 + faults + replays
      /\ Owed(e) \in 0 .. 1 /\ Owed(e)' \in 0 .. 1 /\ Owed(e)' <= Owed(e)
  BY DEF Caused, Owed
<1>4. Copies(e)' + Cardinality(InFlight(e)') + Owed(e)' <= 1 + faults' + replays'
  BY <1>1, <1>2, <1>3
<1> QED BY <1>1, <1>4 DEF Caused
-----------------------------------------------------------------------------
(* A worker changes nothing that belongs to another goroutine. *)
LEMMA WorkerLocal ==
  ASSUME TypeOK, NEW w \in Workers, WorkerStep(w) \/ WorkerError(w)
  PROVE  \A g \in Goroutines \ {w} :
           pc'[g] = pc[g] /\ todo'[g] = todo[g] /\ claimed'[g] = claimed[g]
BY DEF TypeOK, WorkerStep, WorkerError, LeaseNothing, Lease, SkipProcessed, SkipInvalid,
       CheckIfProcessed, Produce, InsertProcessed, Commit, CheckError, ProduceError,
       InsertProcessedError, CommitError, Continue, EndTx, vars, tx, Goroutines

(* So no replayer loses or gains an event, and what another worker has     *)
(* settled stays settled.                                                  *)
LEMMA OthersSettled ==
  ASSUME TypeOK, NEW w \in Workers, WorkerStep(w) \/ WorkerError(w),
         processed \subseteq processed'
  PROVE  /\ \A d : InFlight(d)' = InFlight(d)
         /\ \A d : Settled(d) =>
              \/ Settled(d)'
              \/ d \in claimed[w]
              \/ pc[w] = "claim" /\ d \in Current(w)
<1>1. \A g \in Goroutines \ {w} :
        pc'[g] = pc[g] /\ todo'[g] = todo[g] /\ claimed'[g] = claimed[g]
  BY WorkerLocal
<1>2. w \notin Replayers /\ Workers \subseteq Goroutines /\ Replayers \subseteq Goroutines
  BY GoroutinesAssumption DEF Goroutines
<1>3. \A v \in Workers \ {w} : Current(v)' = Current(v)
  BY <1>1, <1>2 DEF Current, FirstOf
<1> QED BY <1>1, <1>2, <1>3 DEF InFlight, Settled

(* What worker w sends, it has not settled, and nobody else has.           *)
LEMMA SenderOwes ==
  ASSUME IndInv, NEW w \in Workers, InHand(w), pc[w] = "produce", NEW e \in Current(w)
  PROVE  ~Settled(e)
<1>1. e \in todo[w] /\ e \in lease[w] /\ e \notin processed
  BY CurrentIsOne DEF IndInv, Held
<1>2. \A v \in Workers \ {w} : e \notin lease[v]
  BY <1>1 DEF IndInv, LeasesDisjoint
<1>3. \A v \in Workers : claimed[v] \subseteq lease[v]
  BY LeaseBounds DEF IndInv
<1>4. \A v \in Workers : Current(v) \subseteq lease[v]
  BY CurrentIsOne DEF IndInv
<1>5. e \notin claimed[w]
  BY <1>1 DEF InHand
<1> QED BY <1>1, <1>2, <1>3, <1>4, <1>5 DEF Settled

LEMMA WorkerCaused ==
  ASSUME CauseInv, TypeOK', NEW w \in Workers, WorkerStep(w) \/ WorkerError(w)
  PROVE  \A d \in Events : Caused(d)'
<1> USE DEF CauseInv, IndInv
<1>1. processed \subseteq processed'
  BY DEF WorkerStep, WorkerError, LeaseNothing, Lease, SkipProcessed, SkipInvalid,
         CheckIfProcessed, Produce, InsertProcessed, Commit, CheckError, ProduceError,
         InsertProcessedError, CommitError, MarkPublished, vars
<1>2. /\ \A d \in Events : InFlight(d)' = InFlight(d)
      /\ \A d \in Events : Settled(d) =>
           \/ Settled(d)'
           \/ d \in claimed[w]
           \/ pc[w] = "claim" /\ d \in Current(w)
  BY <1>1, OthersSettled
<1>3. w \in Goroutines
  BY DEF Goroutines
<1>4. ASSUME topic' = topic, faults' = faults + 1, replays' = replays
      PROVE  \A d \in Events : Caused(d)'
  BY <1>2, <1>4, CausedStays DEF Copies, TypeOK
<1>5. ASSUME topic' = topic, UNCHANGED bounds,
             \A d \in Events : Settled(d) => Settled(d)'
      PROVE  \A d \in Events : Caused(d)'
  BY <1>2, <1>5, CausedStays DEF Copies, TypeOK, bounds
<1>6. ASSUME topic' = topic, UNCHANGED bounds, claimed'[w] = claimed[w],
             pc[w] # "claim"
      PROVE  \A d \in Events : Caused(d)'
  BY <1>2, <1>5, <1>6 DEF Settled
<1>7. CASE \/ LeaseNothing(w) \/ Lease(w) \/ SkipProcessed(w) \/ SkipInvalid(w)
           \/ CheckIfProcessed(w)
  BY <1>6, <1>7 DEF LeaseNothing, Lease, SkipProcessed, SkipInvalid, CheckIfProcessed,
                    vars, tx, bounds
<1>8. CASE InsertProcessed(w)
  <2>1. PICK e \in Current(w) : claimed' = [claimed EXCEPT ![w] = @ \cup {e}]
    BY <1>8 DEF InsertProcessed
  <2>2. Current(w) = {e} /\ claimed'[w] = claimed[w] \cup {e}
    BY <1>3, <2>1, CurrentIsOne DEF TypeOK
  <2>3. \A d \in Events : Settled(d) => Settled(d)'
    BY <1>2, <2>2 DEF Settled
  <2> QED BY <1>5, <1>8, <2>3 DEF InsertProcessed
<1>9. CASE Commit(w)
  <2>1. processed' = processed \cup claimed[w] /\ pc[w] = "commit"
    BY <1>9 DEF Commit, MarkPublished
  <2>2. \A d \in Events : Settled(d) => Settled(d)'
    BY <1>2, <2>1 DEF Settled
  <2> QED BY <1>5, <1>9, <2>2 DEF Commit
<1>10. CASE CheckError(w) \/ CommitError(w)
  BY <1>4, <1>10 DEF CheckError, CommitError, Fault
<1>11. CASE InsertProcessedError(w)
  <2>1. Current(w) # {} /\ Current(w) \cap processed = {}
    BY <1>11 DEF InsertProcessedError, InHand, Held
  <2>2. ~(Current(w) \subseteq processed)
    BY <2>1
  <2> QED BY <1>4, <1>11, <2>2 DEF InsertProcessedError, Fault
<1>12. CASE Produce(w)
  <2>1. PICK e \in Current(w), n \in 1 .. MaxAttempts : Write(e, n) /\ Fault(n - 1)
    BY <1>12 DEF Produce
  <2>2. e \in Events /\ n \in Nat /\ ~Settled(e)
    BY <1>12, BatchAssumption, CurrentIsOne, SenderOwes DEF Produce
  <2>3. pc[w] = "produce" /\ pc'[w] = "claim" /\ UNCHANGED tx
    BY <1>3, <1>12 DEF Produce, TypeOK
  <2>4. Current(w)' = Current(w) /\ claimed'[w] = claimed[w]
    BY <2>3 DEF Current, FirstOf, tx
  <2>5. \A d \in Events : Settled(d) => Settled(d)'
    BY <1>2, <2>3, <2>4 DEF Settled
  <2>6. Settled(e)'
    BY <2>3, <2>4 DEF Settled
  <2>7. faults' = faults + n - 1 /\ replays' = replays /\ faults' >= faults
    BY <2>1, <2>2 DEF Fault, TypeOK
  <2>8. Caused(e)'
    BY <1>2, <2>1, <2>2, <2>6, <2>7, WriteCounts, WorkerSends
  <2>9. \A d \in Events \ {e} : Caused(d)'
    BY <1>2, <2>1, <2>2, <2>5, <2>7, WriteCounts, CausedStays DEF TypeOK
  <2> QED BY <2>8, <2>9
<1>13. CASE ProduceError(w)
  <2>1. PICK e \in Current(w), n \in 0 .. MaxAttempts :
          Write(e, n) /\ Fault(IF n = 0 THEN 1 ELSE n)
    BY <1>13 DEF ProduceError
  <2>2. e \in Events /\ n \in Nat /\ ~Settled(e)
    BY <1>13, BatchAssumption, CurrentIsOne, SenderOwes DEF ProduceError
  <2>3. pc[w] = "produce" /\ claimed'[w] = claimed[w]
    BY <1>13 DEF ProduceError
  <2>4. \A d \in Events : Settled(d) => Settled(d)'
    BY <1>2, <2>3 DEF Settled
  <2>5. faults' >= faults + n /\ faults' >= faults /\ replays' = replays
    BY <2>1, <2>2 DEF Fault, TypeOK
  <2>6. Caused(e)'
    BY <1>2, <2>1, <2>2, <2>5, WriteCounts, WorkerSends
  <2>7. faults' + replays' >= faults + replays
    <3>1. {faults, replays, faults', replays'} \subseteq Nat
      BY DEF TypeOK
    <3> QED BY <2>5, <3>1
  <2>8. \A d \in Events \ {e} : Caused(d)'
    BY <1>2, <2>1, <2>2, <2>4, <2>7, WriteCounts, CausedStays
  <2> QED BY <2>6, <2>8
<1> QED BY <1>7, <1>8, <1>9, <1>10, <1>11, <1>12, <1>13 DEF WorkerStep, WorkerError

(* The batch of a worker shrinks as its claims grow. *)
LEMMA WorkerInHand ==
  ASSUME CauseInv, NEW w \in Workers, WorkerStep(w) \/ WorkerError(w)
  PROVE  \A v \in Workers : InHand(v)'
<1> USE DEF CauseInv, IndInv
<1>1. ASSUME NEW v \in Workers, pc'[v] = pc[v], todo'[v] = todo[v],
             claimed'[v] = claimed[v]
      PROVE  InHand(v)'
  <2>1. Current(v)' = Current(v)
    BY <1>1 DEF Current, FirstOf
  <2> QED BY <1>1, <2>1 DEF InHand
<1>2. w \in Goroutines
  BY DEF Goroutines
<1>3. ASSUME pc'[w] \notin {"produce", "claim"}, todo'[w] \cap claimed'[w] = {}
      PROVE  InHand(w)'
  BY <1>3 DEF InHand
<1> SUFFICES InHand(w)'
  <2>1. \A v \in Workers \ {w} : InHand(v)'
    BY <1>1, WorkerLocal DEF Goroutines
  <2> QED BY <2>1
<1>4. CASE LeaseNothing(w)
  BY <1>1, <1>4 DEF LeaseNothing, vars
<1>5. CASE Lease(w)
  <2>1. lease[w] = {} /\ claimed[w] = {}
    BY <1>5, LeaseBounds DEF Lease, Held
  <2> QED BY <1>2, <1>3, <1>5, <2>1 DEF Lease, TypeOK
<1>6. CASE SkipProcessed(w) \/ SkipInvalid(w) \/ ProduceError(w)
  <2>1. PICK e : Continue(w, e) /\ claimed' = claimed
    BY <1>6 DEF SkipProcessed, SkipInvalid, ProduceError
  <2>2. todo'[w] = todo[w] \ {e} /\ pc'[w] \in {"commit", "item"}
    BY <1>2, <2>1 DEF Continue, TypeOK
  <2> QED BY <1>3, <2>1, <2>2 DEF InHand
<1>7. CASE InsertProcessed(w)
  <2>1. PICK e : Continue(w, e) /\ claimed' = [claimed EXCEPT ![w] = @ \cup {e}]
    BY <1>7 DEF InsertProcessed
  <2>2. todo'[w] = todo[w] \ {e} /\ pc'[w] \in {"commit", "item"}
    BY <1>2, <2>1 DEF Continue, TypeOK
  <2>3. claimed'[w] = claimed[w] \cup {e}
    BY <1>2, <2>1 DEF TypeOK
  <2> QED BY <1>3, <2>2, <2>3 DEF InHand
<1>8. CASE CheckIfProcessed(w) \/ Produce(w)
  <2>1. UNCHANGED tx /\ Current(w) # {}
    BY <1>8 DEF CheckIfProcessed, Produce
  <2>2. Current(w)' = Current(w)
    BY <2>1 DEF Current, FirstOf, tx
  <2> QED BY <2>1, <2>2 DEF InHand, tx
<1>9. CASE Commit(w) \/ CheckError(w) \/ InsertProcessedError(w) \/ CommitError(w)
  <2>1. todo'[w] = {} /\ pc'[w] = "idle"
    BY <1>2, <1>9 DEF Commit, CheckError, InsertProcessedError, CommitError, EndTx, TypeOK
  <2> QED BY <1>3, <2>1
<1> QED BY <1>4, <1>5, <1>6, <1>7, <1>8, <1>9 DEF WorkerStep, WorkerError

(* A replayer has an event in hand for every copy it sends. *)
LEMMA ReplayerCaused ==
  ASSUME CauseInv, TypeOK', NEW r \in Replayers,
         ReplayFetch(r) \/ ReplaySend(r) \/ ReplayError(r)
  PROVE  (\A d \in Events : Caused(d)') /\ \A w \in Workers : InHand(w)'
<1> USE DEF CauseInv, IndInv
<1>1. r \in Goroutines /\ r \notin Workers /\ Workers \subseteq Goroutines
      /\ Replayers \subseteq Goroutines
  BY GoroutinesAssumption DEF Goroutines
<1>2. /\ UNCHANGED <<processed, claimed>>
      /\ \A g \in Goroutines \ {r} : pc'[g] = pc[g] /\ todo'[g] = todo[g]
  BY <1>1 DEF ReplayFetch, ReplaySend, ReplayError, ReplaySent, TypeOK
<1>3. \A w \in Workers : Current(w)' = Current(w)
  BY <1>1, <1>2 DEF Current, FirstOf
<1>4. \A w \in Workers : InHand(w)'
  BY <1>1, <1>2, <1>3 DEF InHand
<1>5. \A d \in Events : Settled(d) => Settled(d)'
  BY <1>1, <1>2, <1>3 DEF Settled
<1>6. CASE ReplayFetch(r)
  <2> SUFFICES ASSUME NEW d \in Events PROVE Caused(d)'
    BY <1>4
  <2>1. topic' = topic /\ faults' = faults /\ replays' = replays + 1
    BY <1>6 DEF ReplayFetch
  <2>2. InFlight(d)' \subseteq InFlight(d) \cup {r}
    BY <1>1, <1>2 DEF InFlight
  <2>3. /\ IsFiniteSet(InFlight(d)')
        /\ Cardinality(InFlight(d)) \in Nat /\ Cardinality(InFlight(d)') \in Nat
        /\ Cardinality(InFlight(d)') <= Cardinality(InFlight(d)) + 1
    BY <2>2, OneMore DEF Caused
  <2>4. Copies(d)' = Copies(d) /\ Copies(d) \in Nat
    BY <2>1, CopiesType DEF Copies
  <2>5. Owed(d)' <= Owed(d) /\ Owed(d) \in 0 .. 1 /\ Owed(d)' \in 0 .. 1
    BY <1>5 DEF Owed
  <2>6. Copies(d) + Cardinality(InFlight(d)) + Owed(d) <= 1 + faults + replays
    BY DEF Caused
  <2>7. Copies(d)' + Cardinality(InFlight(d)') + Owed(d)' <= 1 + faults' + replays'
    BY <2>1, <2>3, <2>4, <2>5, <2>6 DEF TypeOK
  <2> QED BY <2>3, <2>7 DEF Caused
<1>7. CASE ReplaySend(r) \/ ReplayError(r)
  <2>1. PICK e \in todo[r], n \in Nat :
          /\ Write(e, n) /\ ReplaySent(r, e)
          /\ (Fault(n - 1) /\ n > 0) \/ Fault(IF n = 0 THEN 1 ELSE n)
    BY <1>7, BatchAssumption DEF ReplaySend, ReplayError
  <2>2. e \in Events /\ r \in InFlight(e)
    BY <1>1 DEF TypeOK, InFlight
  <2>3. faults' >= faults + n - 1 /\ faults' >= faults /\ replays' = replays
    BY <2>1 DEF Fault, TypeOK
  <2>4. todo'[r] = todo[r] \ {e}
    BY <1>1, <2>1 DEF ReplaySent, TypeOK
  <2>5. InFlight(e)' \subseteq InFlight(e) \ {r}
    BY <1>1, <1>2, <2>4 DEF InFlight
  <2>6. \A d \in Events : InFlight(d)' \subseteq InFlight(d)
    BY <1>1, <1>2, <2>4 DEF InFlight
  <2>7. Caused(e)'
    BY <1>5, <2>1, <2>2, <2>3, <2>5, WriteCounts, ReplayerSends
  <2>8. faults' + replays' >= faults + replays
    <3>1. {faults, replays, faults', replays'} \subseteq Nat
      BY DEF TypeOK
    <3> QED BY <2>3, <3>1
  <2>9. \A d \in Events \ {e} : Caused(d)'
    BY <1>5, <2>1, <2>2, <2>6, <2>8, WriteCounts, CausedStays
  <2> QED BY <1>4, <2>7, <2>9
<1> QED BY <1>6, <1>7

(* A crash takes claims away, and is a failure; the table's other users    *)
(* touch neither claims nor the topic.                                     *)
LEMMA EnvironmentCaused ==
  ASSUME CauseInv, TypeOK',
         \/ \E e \in Events : InsertOutboxEvent(e)
         \/ ResetRandomPublishedOutboxEvents
         \/ \E h \in Hosts : Crash(h)
         \/ UNCHANGED vars
  PROVE  (\A d \in Events : Caused(d)') /\ \A w \in Workers : InHand(w)'
<1> USE DEF CauseInv, IndInv
<1>1. CASE UNCHANGED <<processed, topic, pc, todo, claimed, faults, replays>>
  <2>1. \A w \in Workers : Current(w)' = Current(w)
    BY <1>1 DEF Current, FirstOf
  <2>2. \A d \in Events : /\ Copies(d)' = Copies(d) /\ InFlight(d)' = InFlight(d)
                          /\ Owed(d)' = Owed(d)
    BY <1>1, <2>1 DEF Copies, InFlight, Owed, Settled
  <2> QED BY <1>1, <2>1, <2>2 DEF Caused, InHand
<1>2. CASE \E h \in Hosts : Crash(h)
  <2>1. PICK h \in Hosts : Crash(h)
    BY <1>2
  <2>2. /\ UNCHANGED <<processed, topic>>
        /\ faults' + replays' = faults + replays + 1
    BY <2>1 DEF Crash, Fault, TypeOK
  <2>3. \A g \in Goroutines : todo'[g] \subseteq todo[g]
    BY <2>1 DEF Crash
  <2>4. \A d \in Events : Caused(d)'
    <3> TAKE d \in Events
    <3>1. Copies(d)' = Copies(d) /\ InFlight(d)' \subseteq InFlight(d)
      BY <2>2, <2>3 DEF Copies, InFlight, Goroutines
    <3> QED BY <2>2, <3>1, CausedStays
  <2>5. ASSUME NEW w \in Workers PROVE InHand(w)'
    <3>1. CASE w \in h
      BY <2>1, <3>1 DEF Crash, InHand, Goroutines
    <3>2. CASE w \notin h
      <4>1. pc'[w] = pc[w] /\ todo'[w] = todo[w] /\ claimed'[w] = claimed[w]
        BY <2>1, <3>2 DEF Crash, Goroutines
      <4>2. Current(w)' = Current(w)
        BY <4>1 DEF Current, FirstOf
      <4> QED BY <4>1, <4>2 DEF InHand
    <3> QED BY <3>1, <3>2
  <2> QED BY <2>4, <2>5
<1> QED BY <1>1, <1>2
        DEF InsertOutboxEvent, ResetRandomPublishedOutboxEvents, vars, tx, bounds
-----------------------------------------------------------------------------
LEMMA InitCaused == Init => CauseInv
<1> SUFFICES ASSUME Init PROVE CauseInv
  OBVIOUS
<1>1. IndInv
  BY InitSafe
<1>2. \A w \in Workers : InHand(w)
  BY DEF Init, InHand, Goroutines
<1>3. ASSUME NEW e \in Events PROVE Caused(e)
  <2>1. InFlight(e) = {} /\ { i \in DOMAIN topic : topic[i] = e } = {}
    BY DEF Init, InFlight, Goroutines
  <2>2. IsFiniteSet({}) /\ Cardinality({}) = 0
    BY FS_EmptySet
  <2>3. Owed(e) \in 0 .. 1 /\ faults = 0 /\ replays = 0
    BY DEF Owed, Init
  <2> QED BY <2>1, <2>2, <2>3 DEF Caused, Copies
<1> QED BY <1>1, <1>2, <1>3 DEF CauseInv

LEMMA NextCaused == CauseInv /\ [Next]_vars => CauseInv'
<1> SUFFICES ASSUME CauseInv, [Next]_vars PROVE CauseInv'
  OBVIOUS
<1>1. IndInv' /\ TypeOK'
  BY NextSafe DEF CauseInv, IndInv
<1>2. CASE \E w \in Workers : WorkerStep(w) \/ WorkerError(w)
  BY <1>1, <1>2, WorkerCaused, WorkerInHand DEF CauseInv
<1>3. CASE \E r \in Replayers : ReplayFetch(r) \/ ReplaySend(r) \/ ReplayError(r)
  BY <1>1, <1>3, ReplayerCaused DEF CauseInv
<1>4. CASE \/ \E e \in Events : InsertOutboxEvent(e)
           \/ ResetRandomPublishedOutboxEvents
           \/ \E h \in Hosts : Crash(h)
           \/ UNCHANGED vars
  BY <1>1, <1>4, EnvironmentCaused DEF CauseInv
<1> QED BY <1>2, <1>3, <1>4 DEF Next

(* Workers that compete for the outbox do not duplicate: the topic holds   *)
(* no more copies of an event than one, plus one for every failure, crash, *)
(* repeated write or replay, however many workers there are.               *)
THEOREM RepeatsHaveCause == Spec => []DuplicatesHaveCause
<1>1. CauseInv => DuplicatesHaveCause
  <2> SUFFICES ASSUME CauseInv, NEW e \in Events
               PROVE  Copies(e) <= 1 + faults + replays
    BY DEF DuplicatesHaveCause
  <2>1. /\ TypeOK /\ IsFiniteSet(InFlight(e))
        /\ Copies(e) + Cardinality(InFlight(e)) + Owed(e) <= 1 + faults + replays
    BY DEF CauseInv, IndInv, Caused
  <2>2. Copies(e) \in Nat /\ Cardinality(InFlight(e)) \in Nat /\ Owed(e) \in 0 .. 1
    BY <2>1, CopiesType, FS_CardinalityType DEF Owed
  <2> QED BY <2>1, <2>2 DEF TypeOK
<1> QED BY <1>1, InitCaused, NextCaused, PTL DEF Spec
=============================================================================
