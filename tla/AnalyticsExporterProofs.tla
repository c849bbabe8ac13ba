----------------------- MODULE AnalyticsExporterProofs -----------------------
(***************************************************************************)
(* Proofs about AnalyticsExporter: its types, that a message is exported   *)
(* again only because of a rebalance, and that one is lost only because of *)
(* a failure, for any number of consumers, messages, rebalances, restarts  *)
(* and failures.                                                           *)
(*                                                                         *)
(* Exports are weighed against what may still be exported: each consumer   *)
(* with the message in hand, or with an earlier one whose commit will make *)
(* the group read the message again, and the owner of the partition while  *)
(* the message is before it.  Losses are counted from the moment in which  *)
(* an offset can no longer be read again without a rebalance.              *)
(***************************************************************************)
EXTENDS AnalyticsExporter, CountingLemmas

Typed == TypeOK /\ hand \in [Consumers -> Nat]

Exported == { exported[n] : n \in DOMAIN exported }

Exporting == { c \in Consumers : pc[c] = "export" }

(* The consumers that will export the message at offset i, or commit an    *)
(* offset before it.                                                       *)
Late(i) ==
  { c \in Consumers : \/ pc[c] = "commit" /\ hand[c] <= i
                      \/ pc[c] = "export" /\ hand[c] = i }

(* The owner will come to offset i, apart from what it has in hand. *)
Ahead(i) ==
  IF owner \in Late(i)
    THEN /\ hand[owner] = i
         /\ position[owner] < i \/ (pc[owner] = "export" /\ committed < i)
    ELSE position[owner] < i \/ committed < i

Owed(i) == IF Ahead(i) THEN 1 ELSE 0

Caused(i) ==
  /\ IsFiniteSet(Late(i))
  /\ Exports(i) + Cardinality(Late(i)) + Owed(i) <= 1 + rebalances

(* The group has passed offset i, or will have by a commit. *)
Passed(i) ==
  /\ i > origin
  /\ \/ i <= committed
     \/ /\ i <= position[owner]
        /\ pc[owner] = "commit" /\ i = hand[owner] => owner \in expired
     \/ \E c \in Consumers : pc[c] = "commit" /\ i < hand[c]

Kept(i) == i \in Exported \/ \E c \in Exporting : hand[c] = i

Lost == { i \in Offsets : Passed(i) /\ ~Kept(i) }

LossInv == IsFiniteSet(Lost) /\ Cardinality(Lost) <= faults

(* The inductive invariant. *)
IndInv ==
  /\ Typed
  /\ LossInv
  /\ \A i \in Nat \ {0} : Caused(i)
-----------------------------------------------------------------------------
(* Types. *)

LEMMA Types ==
  ASSUME Typed
  PROVE  /\ Len(topic) \in Nat /\ Offsets = 1 .. Len(topic)
         /\ owner \in Consumers /\ faults \in Nat /\ rebalances \in Nat
         /\ committed \in Int /\ committed <= Len(topic)
         /\ committed # NoOffset => committed > 0
         /\ origin \in Nat /\ origin <= Len(topic)
         /\ \A c \in Consumers :
              /\ position[c] \in Nat /\ position[c] <= Len(topic)
              /\ hand[c] \in Nat /\ hand[c] <= Len(topic)
              /\ pc[c] \in {"fetch", "commit", "export", "stopped"}
              /\ pc[c] \in {"commit", "export"} <=> hand[c] > 0
              /\ pc[c] \in {"commit", "export"} => hand[c] \in Offsets
<1>1. Len(topic) \in Nat /\ Offsets = 1 .. Len(topic)
  BY DEF Typed, TypeOK, GroupTypeOK, Offsets
<1> QED BY <1>1 DEF Typed, TypeOK, GroupTypeOK, NoOffset

LEMMA GotoType ==
  ASSUME Typed, NEW c \in Consumers, NEW i \in Nat,
         NEW label \in {"fetch", "commit", "export", "stopped"}, Goto(c, label, i)
  PROVE  /\ pc' \in [Consumers -> {"fetch", "commit", "export", "stopped"}]
         /\ hand' \in [Consumers -> Nat]
         /\ pc'[c] = label /\ hand'[c] = i
         /\ \A d \in Consumers \ {c} : pc'[d] = pc[d] /\ hand'[d] = hand[d]
         /\ expired' = expired \ {c}
         /\ expired' \subseteq { d \in Consumers : pc'[d] = "commit" }
<1>1. /\ pc' \in [Consumers -> {"fetch", "commit", "export", "stopped"}]
      /\ hand' \in [Consumers -> Nat]
      /\ pc'[c] = label /\ hand'[c] = i
      /\ \A d \in Consumers \ {c} : pc'[d] = pc[d] /\ hand'[d] = hand[d]
  BY DEF Typed, TypeOK, Goto
<1>2. /\ expired' = expired \ {c}
      /\ expired \subseteq { d \in Consumers : pc[d] = "commit" }
  BY DEF Typed, TypeOK, Goto
<1> QED BY <1>1, <1>2

(* A step of the loop of consumer c. *)
LEMMA LoopType ==
  ASSUME Typed, NEW c \in Consumers, ConsumerStep(c) \/ ConsumerError(c)
  PROVE  Typed'
<1>0. TypeOK
  BY DEF Typed
<1>1. /\ Len(topic) \in Nat /\ Offsets = 1 .. Len(topic)
      /\ topic' = topic /\ owner' = owner
  BY Types DEF ConsumerStep, ConsumerError, FetchNothing, FetchMessage, CommitMessages,
               ExportToClickhouse, ExportError, FetchError, CommitError, CommitRejected,
               ReadError, Crash, vars, group
<1>2. Offsets' = Offsets
  BY <1>1 DEF Offsets
<1>3. CASE FetchNothing(c)
  BY <1>3 DEF FetchNothing, vars, group, work, Typed, TypeOK, GroupTypeOK, Offsets
<1>4. ASSUME NEW label \in {"fetch", "commit", "export", "stopped"}, NEW i \in Nat,
             Goto(c, label, i),
             IF label \in {"commit", "export"} THEN i \in Offsets ELSE i = 0,
             position' \in [Consumers -> 0 .. Len(topic)],
             committed' \in {NoOffset} \cup Offsets,
             exported' \in Seq(Offsets), origin' \in 0 .. Len(topic),
             faults' \in Nat, rebalances' \in Nat
      PROVE  Typed'
  <2>1. \A d \in Consumers :
          IF pc'[d] \in {"commit", "export"} THEN hand'[d] \in Offsets ELSE hand'[d] = 0
    <3>1. \A d \in Consumers :
            IF pc[d] \in {"commit", "export"} THEN hand[d] \in Offsets ELSE hand[d] = 0
      BY <1>0 DEF TypeOK
    <3>2. /\ pc'[c] = label /\ hand'[c] = i
          /\ \A d \in Consumers \ {c} : pc'[d] = pc[d] /\ hand'[d] = hand[d]
      BY <1>4, GotoType
    <3> QED BY <1>4, <3>1, <3>2
  <2>2. GroupTypeOK'
    BY <1>0, <1>1, <1>4 DEF TypeOK, GroupTypeOK
  <2>3. /\ pc' \in [Consumers -> {"fetch", "commit", "export", "stopped"}]
        /\ expired' \subseteq { d \in Consumers : pc'[d] = "commit" }
    BY <1>4, GotoType
  <2>4. TypeOK'
    BY <1>1, <1>2, <1>4, <2>1, <2>2, <2>3 DEF TypeOK
  <2> QED BY <1>4, <2>4, GotoType DEF Typed
<1>5. CASE FetchMessage(c)
  <2>1. NextOffset(c) \in Offsets /\ NextOffset(c) \in Nat
    BY <1>5, Types DEF FetchMessage, Fetch, Fetchable, NextOffset
  <2>2. position' \in [Consumers -> 0 .. Len(topic)]
    BY <1>0, <1>1, <1>5, <2>1 DEF FetchMessage, Fetch, TypeOK, GroupTypeOK
  <2> QED BY <1>0, <1>4, <1>5, <2>1, <2>2 DEF FetchMessage, TypeOK, GroupTypeOK
<1>6. CASE CommitMessages(c) \/ CommitError(c)
  <2>1. hand[c] \in Offsets /\ hand[c] \in Nat
    BY <1>6, Types DEF CommitMessages, CommitError
  <2> QED BY <1>0, <1>4, <1>6, <2>1
          DEF CommitMessages, CommitError, ReadError, Fault, TypeOK, GroupTypeOK
<1>7. CASE ExportToClickhouse(c) \/ ExportError(c)
  <2>1. hand[c] \in Offsets
    BY <1>7, Types DEF ExportToClickhouse, ExportError
  <2>2. exported' \in Seq(Offsets)
    BY <1>0, <1>7, <2>1 DEF ExportToClickhouse, ExportError, TypeOK
  <2> QED BY <1>0, <1>4, <1>7, <2>2
          DEF ExportToClickhouse, ExportError, Fault, TypeOK, GroupTypeOK, group
<1>8. CASE FetchError(c) \/ CommitRejected(c)
  BY <1>0, <1>4, <1>8
     DEF FetchError, CommitRejected, ReadError, Fault, TypeOK, GroupTypeOK
<1>9. CASE Crash(c)
  <2>1. /\ position' \in [Consumers -> 0 .. Len(topic)]
        /\ origin' \in 0 .. Len(topic)
    <3>1. Len(topic) \in 0 .. Len(topic) /\ (committed # NoOffset => committed \in 0 .. Len(topic))
      BY Types
    <3>2. /\ position \in [Consumers -> 0 .. Len(topic)] /\ origin \in 0 .. Len(topic)
          /\ (Begin(c) \/ UNCHANGED <<position, origin>>)
      BY <1>0, <1>9 DEF Crash, TypeOK, GroupTypeOK
    <3>3. CASE Begin(c)
      <4>1. PICK n \in 0 .. Len(topic) :
              position' = [position EXCEPT ![c] = n] /\ origin' \in {origin, Len(topic)}
        BY <3>1, <3>3 DEF Begin, StartAt
      <4> QED BY <3>1, <3>2, <4>1
    <3> QED BY <3>2, <3>3
  <2> QED BY <1>0, <1>4, <1>9, <2>1 DEF Crash, Fault, TypeOK, GroupTypeOK
<1> QED BY <1>3, <1>5, <1>6, <1>7, <1>8, <1>9 DEF ConsumerStep, ConsumerError

LEMMA GroupType ==
  ASSUME Typed,
         \/ \E e \in Events : PublishBillingProcessed(e)
         \/ \E c \in Consumers : Rebalance(c)
         \/ UNCHANGED vars
  PROVE  Typed'
<1>0. TypeOK
  BY DEF Typed
<1>1. CASE \E e \in Events : PublishBillingProcessed(e)
  <2>1. PICK e \in Events :
          topic' = Append(topic, e) /\ UNCHANGED <<group, faults, rebalances>>
    BY <1>1 DEF PublishBillingProcessed, Deliver
  <2>2. UNCHANGED <<work, exported, origin>>
    BY <1>1 DEF PublishBillingProcessed
  <2>3. topic' \in Seq(Events) /\ Len(topic') = Len(topic) + 1
    BY <1>0, <2>1 DEF TypeOK, GroupTypeOK
  <2>4. Offsets \subseteq Offsets' /\ 0 .. Len(topic) \subseteq 0 .. Len(topic')
    BY <2>3, Types DEF Offsets
  <2>5. exported \in Seq(Offsets')
    BY <1>0, <2>4 DEF TypeOK
  <2> QED BY <1>0, <2>1, <2>2, <2>3, <2>4, <2>5
          DEF Typed, TypeOK, GroupTypeOK, group, work
<1>2. CASE \E c \in Consumers : Rebalance(c)
  <2>1. PICK c \in Consumers : Rebalance(c)
    BY <1>2
  <2>2. /\ position' \in [Consumers -> 0 .. Len(topic)]
        /\ origin' \in 0 .. Len(topic)
    <3>1. Len(topic) \in 0 .. Len(topic) /\ (committed # NoOffset => committed \in 0 .. Len(topic))
      BY Types
    <3>2. /\ position \in [Consumers -> 0 .. Len(topic)] /\ origin \in 0 .. Len(topic)
          /\ Begin(c)
      BY <1>0, <2>1 DEF Rebalance, TypeOK, GroupTypeOK
    <3>3. PICK n \in 0 .. Len(topic) :
            position' = [position EXCEPT ![c] = n] /\ origin' \in {origin, Len(topic)}
      BY <3>1, <3>2 DEF Begin, StartAt
    <3> QED BY <3>1, <3>2, <3>3
  <2>3. /\ UNCHANGED <<topic, committed, faults, pc, hand, exported>>
        /\ owner' = c /\ rebalances' = rebalances + 1
        /\ expired' = { d \in Consumers : pc[d] = "commit" }
    BY <2>1 DEF Rebalance
  <2> QED BY <1>0, <2>2, <2>3 DEF Typed, TypeOK, GroupTypeOK, Offsets
<1>3. CASE UNCHANGED vars
  BY <1>3 DEF vars, group, work, Typed, TypeOK, GroupTypeOK, Offsets
<1> QED BY <1>1, <1>2, <1>3
-----------------------------------------------------------------------------
(* Counting. *)

LEMMA ExportsType ==
  ASSUME Typed, NEW i
  PROVE  Exports(i) = Cardinality(Places(exported, i)) /\ Exports(i) \in Nat
<1>1. Exports(i) = Cardinality(Places(exported, i))
  BY DEF Exports, Places
<1>2. exported \in Seq(Offsets)
  BY DEF Typed, TypeOK
<1> QED BY <1>1, <1>2, PlacesFinite

LEMMA AccountType ==
  ASSUME Typed, NEW i, Caused(i)
  PROVE  /\ Exports(i) \in Nat /\ Cardinality(Late(i)) \in Nat /\ Owed(i) \in 0 .. 1
         /\ rebalances \in Nat
         /\ Exports(i) + Cardinality(Late(i)) + Owed(i) <= 1 + rebalances
BY ExportsType, Types, FS_CardinalityType DEF Caused, Owed

(* A message that is not exported keeps its account, unless the step makes *)
(* the owner come to it again; then it takes the message, or one before    *)
(* it, out of somebody's hand.                                             *)
LEMMA CausedStays ==
  ASSUME Typed, NEW i, Caused(i), exported' = exported, rebalances' = rebalances,
         \/ Late(i)' \subseteq Late(i) /\ (Ahead(i)' => Ahead(i))
         \/ \E c \in Late(i) : Late(i)' \subseteq Late(i) \ {c}
         \/ \E c : Late(i)' \subseteq Late(i) \cup {c} /\ Ahead(i) /\ ~Ahead(i)'
  PROVE  Caused(i)'
<1>1. Exports(i)' = Exports(i) /\ Owed(i)' \in 0 .. 1
  BY DEF Exports, Owed
<1>2. CASE Late(i)' \subseteq Late(i) /\ (Ahead(i)' => Ahead(i))
  <2>1. /\ IsFiniteSet(Late(i)') /\ Cardinality(Late(i)') \in Nat
        /\ Cardinality(Late(i)') <= Cardinality(Late(i))
    BY <1>2, NoMore DEF Caused
  <2>2. Owed(i)' <= Owed(i)
    BY <1>2 DEF Owed
  <2>3. Exports(i)' + Cardinality(Late(i)') + Owed(i)' <= 1 + rebalances'
    BY <1>1, <2>1, <2>2, AccountType
  <2> QED BY <2>1, <2>3 DEF Caused
<1>3. CASE \E c \in Late(i) : Late(i)' \subseteq Late(i) \ {c}
  <2>1. /\ IsFiniteSet(Late(i)') /\ Cardinality(Late(i)') \in Nat
        /\ Cardinality(Late(i)') <= Cardinality(Late(i)) - 1
    BY <1>3, OneLess DEF Caused
  <2>2. Exports(i)' + Cardinality(Late(i)') + Owed(i)' <= 1 + rebalances'
    BY <1>1, <2>1, AccountType
  <2> QED BY <2>1, <2>2 DEF Caused
<1>4. CASE \E c : Late(i)' \subseteq Late(i) \cup {c} /\ Ahead(i) /\ ~Ahead(i)'
  <2>1. /\ IsFiniteSet(Late(i)') /\ Cardinality(Late(i)') \in Nat
        /\ Cardinality(Late(i)') <= Cardinality(Late(i)) + 1
    BY <1>4, OneMore DEF Caused
  <2>2. Owed(i)' = 0 /\ Owed(i) = 1
    BY <1>4 DEF Owed
  <2>3. Exports(i)' + Cardinality(Late(i)') + Owed(i)' <= 1 + rebalances'
    BY <1>1, <2>1, <2>2, AccountType
  <2> QED BY <2>1, <2>3 DEF Caused
<1> QED BY <1>2, <1>3, <1>4

(* The step of consumer c changes only its own part of these sets. *)
LEMMA LateKept ==
  ASSUME Typed, NEW c \in Consumers, NEW i,
         \A d \in Consumers \ {c} : pc'[d] = pc[d] /\ hand'[d] = hand[d]
  PROVE  /\ Late(i)' \subseteq Late(i) \cup {c}
         /\ c \notin Late(i)' => Late(i)' \subseteq Late(i) \ {c}
         /\ c \in Late(i) => Late(i)' \subseteq Late(i)
BY DEF Late

LEMMA AheadKept ==
  ASSUME Typed, NEW c \in Consumers, NEW i,
         \A d \in Consumers \ {c} : pc'[d] = pc[d] /\ hand'[d] = hand[d],
         c # owner, owner' = owner, position'[owner] = position[owner],
         committed' < i => committed < i
  PROVE  Ahead(i)' => Ahead(i)
<1>1. owner \in Late(i)' <=> owner \in Late(i)
  BY DEF Late
<1>2. owner \in Consumers
  BY Types
<1> QED BY <1>1, <1>2 DEF Ahead
-----------------------------------------------------------------------------
(* Exports. *)

(* Consumer c lets go of its message, with no effect on the offsets but    *)
(* that the group may be set to it.                                        *)
LEMMA DropCaused ==
  ASSUME Typed, NEW c \in Consumers, NEW i \in Nat \ {0}, Caused(i),
         \A d \in Consumers \ {c} : pc'[d] = pc[d] /\ hand'[d] = hand[d],
         pc'[c] \notin {"commit", "export"}, owner' = owner,
         UNCHANGED <<exported, rebalances>>,
         \/ committed' = committed
         \/ pc[c] = "commit" /\ committed' = hand[c],
         \/ position' = position
         \/ c = owner /\ position' \in [Consumers -> Nat]
            /\ (committed # NoOffset => position'[c] = committed') /\ committed' = committed
  PROVE  Caused(i)'
<1>1. c \notin Late(i)'
  BY DEF Late
<1>2. CASE c \in Late(i)
  BY <1>1, <1>2, LateKept, CausedStays
<1>3. CASE c \notin Late(i)
  <2>1. Late(i)' \subseteq Late(i)
    BY <1>1, LateKept
  <2>2. committed' < i => committed < i
    BY <1>3, Types DEF Late
  <2>3. CASE c # owner
    <3>1. position' = position
      BY <2>3
    <3> QED BY <2>1, <2>2, <2>3, <3>1, AheadKept, CausedStays
  <2>4. CASE c = owner
    <3>1. Ahead(i)' <=> position'[owner] < i \/ committed' < i
      BY <1>1, <2>4 DEF Ahead
    <3>2. Ahead(i) <=> position[owner] < i \/ committed < i
      BY <1>3, <2>4 DEF Ahead
    <3>3. position'[owner] < i => position[owner] < i \/ committed < i
      BY <2>4, Types DEF NoOffset
    <3> QED BY <2>1, <2>2, <3>1, <3>2, <3>3, CausedStays
  <2> QED BY <2>3, <2>4
<1> QED BY <1>2, <1>3

LEMMA LoopCaused ==
  ASSUME Typed, NEW c \in Consumers, ConsumerStep(c) \/ ConsumerError(c),
         NEW i \in Nat \ {0}, Caused(i)
  PROVE  Caused(i)'
<1>0. TypeOK /\ owner \in Consumers
  BY Types DEF Typed
<1>1. CASE FetchNothing(c)
  <2>1. UNCHANGED <<exported, rebalances, work, group>>
    BY <1>1 DEF FetchNothing, vars
  <2>2. Late(i)' = Late(i) /\ (Ahead(i)' <=> Ahead(i))
    BY <2>1 DEF Late, Ahead, work, group
  <2> QED BY <2>1, <2>2, CausedStays
<1>2. CASE FetchMessage(c)
  <2>1. /\ c = owner /\ owner' = owner /\ committed' = committed
        /\ UNCHANGED <<exported, rebalances>> /\ pc[c] = "fetch"
    BY <1>2 DEF FetchMessage, Fetch, Fetchable
  <2>2. NextOffset(c) = position[c] + 1 /\ NextOffset(c) \in Nat
        /\ position[c] \in Nat
    BY Types DEF NextOffset
  <2>3. /\ pc'[c] = "commit" /\ hand'[c] = position[c] + 1
        /\ \A d \in Consumers \ {c} : pc'[d] = pc[d] /\ hand'[d] = hand[d]
    BY <1>2, <2>2, GotoType DEF FetchMessage
  <2>4. position'[c] = position[c] + 1
    BY <1>0, <1>2, <2>2 DEF FetchMessage, Fetch, TypeOK, GroupTypeOK
  <2>5. c \notin Late(i)
    BY <2>1 DEF Late
  <2>6. CASE position[c] < i
    <3>1. c \in Late(i)'
      BY <2>2, <2>3, <2>6 DEF Late
    <3>2. Ahead(i) /\ ~Ahead(i)'
      BY <2>1, <2>2, <2>3, <2>4, <2>5, <2>6, <3>1 DEF Ahead
    <3> QED BY <2>1, <2>3, <3>2, LateKept, CausedStays
  <2>7. CASE ~(position[c] < i)
    <3>1. c \notin Late(i)'
      BY <2>2, <2>3, <2>7 DEF Late
    <3>2. Late(i)' \subseteq Late(i)
      BY <2>3, <3>1, LateKept
    <3>3. Ahead(i)' => Ahead(i)
      BY <2>1, <2>2, <2>4, <2>5, <2>7, <3>1 DEF Ahead
    <3> QED BY <2>1, <3>2, <3>3, CausedStays
  <2> QED BY <2>6, <2>7
<1>3. CASE CommitMessages(c)
  <2>1. /\ pc[c] = "commit" /\ hand[c] \in Nat /\ committed' = hand[c]
        /\ UNCHANGED <<exported, rebalances, owner, position>>
    BY <1>3, Types DEF CommitMessages
  <2>2. /\ pc'[c] = "export" /\ hand'[c] = hand[c]
        /\ \A d \in Consumers \ {c} : pc'[d] = pc[d] /\ hand'[d] = hand[d]
    BY <1>3, <2>1, GotoType DEF CommitMessages
  <2>3. CASE hand[c] < i
    <3>1. c \in Late(i) /\ c \notin Late(i)'
      BY <2>1, <2>2, <2>3 DEF Late
    <3> QED BY <2>1, <2>2, <3>1, LateKept, CausedStays
  <2>4. CASE ~(hand[c] < i)
    <3>1. c \in Late(i) <=> hand[c] = i
      BY <2>1, <2>4 DEF Late
    <3>2. c \in Late(i)' <=> hand[c] = i
      BY <2>2 DEF Late
    <3>3. Late(i)' \subseteq Late(i)
      BY <2>2, <3>1, <3>2, LateKept
    <3>4. Ahead(i)' => Ahead(i)
      <4>1. CASE c = owner
        BY <2>1, <2>2, <2>4, <3>1, <3>2, <4>1, Types DEF Ahead
      <4>2. CASE c # owner
        BY <2>1, <2>2, <2>4, <4>2, AheadKept
      <4> QED BY <4>1, <4>2
    <3> QED BY <2>1, <3>3, <3>4, CausedStays
  <2> QED BY <2>3, <2>4, Types
<1>4. CASE ExportToClickhouse(c)
  <2>1. /\ pc[c] = "export" /\ hand[c] \in Offsets
        /\ exported' = Append(exported, hand[c]) /\ exported \in Seq(Offsets)
        /\ UNCHANGED <<rebalances, owner, position, committed>>
    BY <1>0, <1>4, Types DEF ExportToClickhouse, group, TypeOK
  <2>2. /\ pc'[c] = "fetch" /\ hand'[c] = 0
        /\ \A d \in Consumers \ {c} : pc'[d] = pc[d] /\ hand'[d] = hand[d]
    BY <1>4, GotoType DEF ExportToClickhouse
  <2>3. Continued(exported', exported, Len(exported), 1, hand[c])
    BY <2>1, AppendContinues
  <2>4. c \notin Late(i)'
    BY <2>2 DEF Late
  <2>5. c \in Late(i) <=> hand[c] = i
    BY <2>1 DEF Late
  <2>6. (Ahead(i)' => Ahead(i)) /\ Owed(i)' <= Owed(i)
    <3>1. CASE c = owner
      BY <2>1, <2>4, <2>5, <3>1 DEF Ahead, Owed
    <3>2. CASE c # owner
      BY <2>1, <2>2, <3>2, AheadKept DEF Owed
    <3> QED BY <3>1, <3>2
  <2>7. CASE hand[c] = i
    <3>1. Exports(i)' = Exports(i) + 1
      <4>1. Cardinality(Places(exported', i)) = Cardinality(Places(exported, i)) + 1
        BY <2>3, <2>7, MoreOfIt
      <4> QED BY <4>1 DEF Exports, Places
    <3>2. /\ IsFiniteSet(Late(i)') /\ Cardinality(Late(i)') \in Nat
          /\ Cardinality(Late(i)') <= Cardinality(Late(i)) - 1
      BY <2>2, <2>4, <2>5, <2>7, LateKept, OneLess DEF Caused
    <3>3. Owed(i)' \in 0 .. 1
      BY DEF Owed
    <3>4. /\ rebalances' = rebalances /\ Owed(i)' <= Owed(i)
          /\ Exports(i) \in Nat /\ Cardinality(Late(i)) \in Nat /\ Owed(i) \in 0 .. 1
          /\ rebalances \in Nat
          /\ Exports(i) + Cardinality(Late(i)) + Owed(i) <= 1 + rebalances
      BY <2>1, <2>6, AccountType
    <3>5. Exports(i)' + Cardinality(Late(i)') + Owed(i)' <= 1 + rebalances'
      BY <3>1, <3>2, <3>3, <3>4
    <3> QED BY <3>2, <3>5 DEF Caused
  <2>8. CASE hand[c] # i
    <3>1. Exports(i)' = Exports(i)
      <4>1. Places(exported', i) = Places(exported, i)
        BY <2>3, <2>8, SameOfOthers
      <4> QED BY <4>1 DEF Exports, Places
    <3>2. /\ IsFiniteSet(Late(i)') /\ Cardinality(Late(i)') \in Nat
          /\ Cardinality(Late(i)') <= Cardinality(Late(i))
      BY <2>2, <2>4, LateKept, NoMore DEF Caused
    <3>3. Owed(i)' \in 0 .. 1
      BY DEF Owed
    <3>4. /\ rebalances' = rebalances /\ Owed(i)' <= Owed(i)
          /\ Exports(i) \in Nat /\ Cardinality(Late(i)) \in Nat /\ Owed(i) \in 0 .. 1
          /\ rebalances \in Nat
          /\ Exports(i) + Cardinality(Late(i)) + Owed(i) <= 1 + rebalances
      BY <2>1, <2>6, AccountType
    <3>5. Exports(i)' + Cardinality(Late(i)') + Owed(i)' <= 1 + rebalances'
      BY <3>1, <3>2, <3>3, <3>4
    <3> QED BY <3>2, <3>5 DEF Caused
  <2> QED BY <2>7, <2>8
<1>5. CASE ExportError(c) \/ FetchError(c) \/ CommitError(c) \/ CommitRejected(c)
  <2>1. /\ UNCHANGED <<exported, rebalances, owner, position>>
        /\ \/ committed' = committed
           \/ pc[c] = "commit" /\ committed' = hand[c]
    BY <1>5 DEF ExportError, FetchError, CommitError, CommitRejected, ReadError, group
  <2>2. /\ pc'[c] \notin {"commit", "export"}
        /\ \A d \in Consumers \ {c} : pc'[d] = pc[d] /\ hand'[d] = hand[d]
    BY <1>5, GotoType DEF ExportError, FetchError, CommitError, CommitRejected, ReadError
  <2> QED BY <2>1, <2>2, DropCaused
<1>6. CASE Crash(c)
  <2>1. /\ UNCHANGED <<exported, rebalances, owner, committed>>
        /\ pc'[c] \notin {"commit", "export"}
        /\ \A d \in Consumers \ {c} : pc'[d] = pc[d] /\ hand'[d] = hand[d]
    BY <1>6, GotoType DEF Crash
  <2>2. CASE c = owner
    <3>1. committed # NoOffset => committed \in Nat
      BY Types
    <3>2. position' = [position EXCEPT ![c] = IF committed = NoOffset THEN Len(topic)
                                              ELSE committed]
      BY <1>6, <2>2 DEF Crash, Begin, StartAt
    <3>3. Len(topic) \in Nat /\ position \in [Consumers -> Nat]
      BY <1>0, Types DEF TypeOK, GroupTypeOK
    <3>4. position' \in [Consumers -> Nat] /\ (committed # NoOffset => position'[c] = committed')
      BY <2>1, <3>1, <3>2, <3>3
    <3> QED BY <2>1, <2>2, <3>4, DropCaused
  <2>3. CASE c # owner
    BY <1>6, <2>1, <2>3, DropCaused DEF Crash
  <2> QED BY <2>2, <2>3
<1> QED BY <1>1, <1>2, <1>3, <1>4, <1>5, <1>6 DEF ConsumerStep, ConsumerError

(* A rebalance pays for what the new owner will be delivered again. *)
LEMMA GroupCaused ==
  ASSUME Typed,
         \/ \E e \in Events : PublishBillingProcessed(e)
         \/ \E c \in Consumers : Rebalance(c)
         \/ UNCHANGED vars,
         NEW i \in Nat \ {0}, Caused(i)
  PROVE  Caused(i)'
<1>1. UNCHANGED <<pc, hand, exported, committed>>
  BY DEF PublishBillingProcessed, Deliver, Rebalance, vars, work, group
<1>2. Late(i)' = Late(i) /\ Exports(i)' = Exports(i)
  BY <1>1 DEF Late, Exports
<1>3. CASE UNCHANGED <<owner, position, rebalances>>
  <2>1. Ahead(i)' <=> Ahead(i)
    BY <1>1, <1>2, <1>3 DEF Ahead
  <2> QED BY <1>1, <1>2, <1>3, <2>1, CausedStays
<1>4. CASE rebalances' = rebalances + 1
  <2>1. Owed(i)' \in 0 .. 1
    BY DEF Owed
  <2>2. Exports(i)' + Cardinality(Late(i)') + Owed(i)' <= 1 + rebalances'
    BY <1>2, <1>4, <2>1, AccountType
  <2> QED BY <1>2, <2>2 DEF Caused
<1> QED BY <1>3, <1>4 DEF PublishBillingProcessed, Deliver, Rebalance, vars, group
-----------------------------------------------------------------------------
(* Losses. *)

(* A step loses nothing, or is a failure and loses one message. *)
LEMMA LossStays ==
  ASSUME Typed, Typed', LossInv,
         \/ Lost' \subseteq Lost /\ faults' >= faults
         \/ \E i : Lost' \subseteq Lost \cup {i} /\ faults' >= faults + 1
  PROVE  LossInv'
<1>1. faults \in Nat /\ faults' \in Nat
  BY DEF Typed, TypeOK, GroupTypeOK
<1>2. CASE Lost' \subseteq Lost /\ faults' >= faults
  BY <1>1, <1>2, NoMore DEF LossInv
<1>3. CASE \E i : Lost' \subseteq Lost \cup {i} /\ faults' >= faults + 1
  <2>1. PICK i : Lost' \subseteq Lost \cup {i}
    BY <1>3
  <2>2. /\ IsFiniteSet(Lost') /\ Cardinality(Lost) \in Nat /\ Cardinality(Lost') \in Nat
        /\ Cardinality(Lost') <= Cardinality(Lost) + 1
    BY <2>1, OneMore DEF LossInv
  <2> QED BY <1>1, <1>3, <2>2 DEF LossInv
<1> QED BY <1>2, <1>3

(* Who begins at the end has lost nothing; who begins where the group has  *)
(* committed, nothing more.                                                *)
LEMMA BeginLoss ==
  ASSUME Typed, NEW c \in Consumers, Begin(c), owner' = c, topic' = topic,
         committed' = committed, NEW i \in Offsets, Passed(i)',
         \A d \in Consumers : pc'[d] = "commit" => pc[d] = "commit" /\ hand'[d] = hand[d]
  PROVE  Passed(i)
<1>1. /\ i \in Nat /\ i <= Len(topic) /\ Len(topic) \in Nat
      /\ position \in [Consumers -> 0 .. Len(topic)]
  BY Types DEF Typed, TypeOK, GroupTypeOK
<1>2. CASE committed = NoOffset
  <2>1. origin' = Len(topic)
    BY <1>2 DEF Begin
  <2> QED BY <1>1, <2>1 DEF Passed
<1>3. CASE committed # NoOffset
  <2>1. position'[c] = committed /\ origin' = origin
    BY <1>1, <1>3 DEF Begin, StartAt
  <2> QED BY <2>1 DEF Passed
<1> QED BY <1>2, <1>3

LEMMA GroupLoss ==
  ASSUME Typed, Typed', LossInv,
         \/ \E e \in Events : PublishBillingProcessed(e)
         \/ \E c \in Consumers : Rebalance(c)
         \/ UNCHANGED vars
  PROVE  LossInv'
<1>1. UNCHANGED <<pc, hand, exported, committed, faults>>
  BY DEF PublishBillingProcessed, Deliver, Rebalance, vars, work, group
<1>2. \A i : Kept(i)' <=> Kept(i)
  BY <1>1 DEF Kept, Exported, Exporting
<1>3. ASSUME NEW i \in Offsets', Passed(i)' PROVE i \in Offsets /\ Passed(i)
  <2>1. CASE \E e \in Events : PublishBillingProcessed(e)
    <3>1. UNCHANGED <<owner, position, expired, origin>> /\ Len(topic') = Len(topic) + 1
      BY <2>1 DEF PublishBillingProcessed, Deliver, work, group, Typed, TypeOK, GroupTypeOK
    <3>2. Passed(i)
      BY <1>1, <1>3, <3>1 DEF Passed
    <3>3. i \in Nat \ {0}
      <4>1. topic' \in Seq(Events) /\ i \in DOMAIN topic'
        BY DEF Typed, TypeOK, GroupTypeOK, Offsets
      <4> QED BY <4>1
    <3>4. i <= Len(topic)
      BY <3>2, <3>3, Types DEF Passed
    <3> QED BY <3>2, <3>3, <3>4, Types
  <2>2. CASE \E c \in Consumers : Rebalance(c)
    <3>1. PICK c \in Consumers : Begin(c) /\ owner' = c /\ topic' = topic
      BY <2>2 DEF Rebalance
    <3>2. i \in Offsets
      BY <3>1 DEF Offsets
    <3> QED BY <1>1, <1>3, <3>1, <3>2, BeginLoss
  <2>3. CASE UNCHANGED vars
    BY <1>1, <1>3, <2>3 DEF vars, work, group, Passed, Offsets
  <2> QED BY <2>1, <2>2, <2>3
<1>4. Lost' \subseteq Lost
  BY <1>2, <1>3 DEF Lost
<1>5. faults' >= faults
  BY <1>1, Types
<1> QED BY <1>4, <1>5, LossStays

(* A step of the loop drops a message only if it is a failure. *)
LEMMA LoopLoss ==
  ASSUME Typed, Typed', LossInv, NEW c \in Consumers, ConsumerStep(c) \/ ConsumerError(c)
  PROVE  LossInv'
<1>0. TypeOK /\ owner \in Consumers /\ faults \in Nat
  BY Types DEF Typed
<1>1. topic' = topic /\ owner' = owner /\ Offsets' = Offsets
  BY DEF ConsumerStep, ConsumerError, FetchNothing, FetchMessage, CommitMessages,
         ExportToClickhouse, ExportError, FetchError, CommitError, CommitRejected,
         ReadError, Crash, vars, group, Offsets
<1>2. ASSUME NEW x, faults' >= faults,
             \A i \in Offsets :
               Passed(i)' /\ ~Kept(i)' =>
                 \/ Passed(i) /\ ~Kept(i)
                 \/ i = x /\ faults' >= faults + 1
      PROVE  LossInv'
  <2>1. CASE Lost' \subseteq Lost
    BY <1>2, <2>1, LossStays
  <2>2. CASE ~(Lost' \subseteq Lost)
    <3>1. Lost' \subseteq Lost \cup {x} /\ faults' >= faults + 1
      BY <1>1, <1>2, <2>2 DEF Lost
    <3> QED BY <3>1, LossStays
  <2> QED BY <2>1, <2>2
<1>3. CASE FetchNothing(c)
  <2>1. \A i : (Passed(i)' <=> Passed(i)) /\ (Kept(i)' <=> Kept(i))
    BY <1>3 DEF FetchNothing, vars, group, work, Passed, Kept, Exported, Exporting
  <2>2. faults' >= faults
    BY <1>0, <1>3 DEF FetchNothing, vars
  <2> QED BY <1>2, <2>1, <2>2
<1>4. CASE FetchMessage(c)
  <2>1. /\ c = owner /\ committed' = committed /\ pc[c] = "fetch"
        /\ UNCHANGED <<exported, faults, origin>>
    BY <1>4 DEF FetchMessage, Fetch, Fetchable
  <2>2. NextOffset(c) = position[c] + 1 /\ NextOffset(c) \in Nat
        /\ position[c] \in Nat
    BY Types DEF NextOffset
  <2>3. /\ pc'[c] = "commit" /\ hand'[c] = position[c] + 1
        /\ \A d \in Consumers \ {c} : pc'[d] = pc[d] /\ hand'[d] = hand[d]
        /\ expired' = expired \ {c}
    BY <1>4, <2>2, GotoType DEF FetchMessage
  <2>4. position'[c] = position[c] + 1
    BY <1>0, <1>4, <2>2 DEF FetchMessage, Fetch, TypeOK, GroupTypeOK
  <2>5. \A i : Kept(i) => Kept(i)'
    BY <2>1, <2>3 DEF Kept, Exported, Exporting
  <2>6. ASSUME NEW i \in Offsets, Passed(i)' PROVE Passed(i)
    <3>1. i \in Nat
      BY Types
    <3>2. i > origin
      BY <2>1, <2>6 DEF Passed
    <3>3. CASE i <= committed'
      BY <2>1, <3>2, <3>3 DEF Passed
    <3>4. CASE /\ i <= position'[owner']
               /\ pc'[owner'] = "commit" /\ i = hand'[owner'] => owner' \in expired'
      <4>1. i <= position[owner]
        BY <1>1, <2>1, <2>2, <2>3, <2>4, <3>1, <3>4
      <4> QED BY <2>1, <3>2, <4>1 DEF Passed
    <3>5. CASE \E d \in Consumers : pc'[d] = "commit" /\ i < hand'[d]
      <4>1. PICK d \in Consumers : pc'[d] = "commit" /\ i < hand'[d]
        BY <3>5
      <4>2. CASE d = c
        <5>1. i <= position[owner]
          BY <2>1, <2>2, <2>3, <3>1, <4>1, <4>2
        <5> QED BY <2>1, <3>2, <5>1 DEF Passed
      <4>3. CASE d # c
        BY <2>3, <3>2, <4>1, <4>3 DEF Passed
      <4> QED BY <4>2, <4>3
    <3> QED BY <2>6, <3>3, <3>4, <3>5 DEF Passed
  <2>7. faults' >= faults
    BY <1>0, <2>1
  <2> QED BY <1>2, <2>5, <2>6, <2>7
<1>5. CASE CommitMessages(c)
  <2>1. /\ pc[c] = "commit" /\ hand[c] \in Nat /\ committed' = hand[c]
        /\ UNCHANGED <<exported, faults, position, origin>>
    BY <1>5, Types DEF CommitMessages
  <2>2. /\ pc'[c] = "export" /\ hand'[c] = hand[c]
        /\ \A d \in Consumers \ {c} : pc'[d] = pc[d] /\ hand'[d] = hand[d]
        /\ expired' = expired \ {c}
    BY <1>5, <2>1, GotoType DEF CommitMessages
  <2>3. \A i : Kept(i) => Kept(i)'
    BY <2>1, <2>2 DEF Kept, Exported, Exporting
  <2>4. \A i : i = hand[c] => Kept(i)'
    BY <2>2 DEF Kept, Exporting
  <2>5. \A i \in Offsets : i # hand[c] /\ Passed(i)' => Passed(i)
    BY <1>1, <2>1, <2>2, Types DEF Passed
  <2>6. faults' >= faults
    BY <1>0, <2>1
  <2> QED BY <1>2, <2>3, <2>4, <2>5, <2>6
<1>6. CASE ExportToClickhouse(c)
  <2>1. /\ pc[c] = "export" /\ hand[c] \in Offsets
        /\ exported' = Append(exported, hand[c]) /\ exported \in Seq(Offsets)
        /\ UNCHANGED <<faults, position, committed, origin>>
    BY <1>0, <1>6, Types DEF ExportToClickhouse, group, TypeOK
  <2>2. /\ pc'[c] = "fetch" /\ hand'[c] = 0
        /\ \A d \in Consumers \ {c} : pc'[d] = pc[d] /\ hand'[d] = hand[d]
        /\ expired' = expired \ {c}
    BY <1>6, GotoType DEF ExportToClickhouse
  <2>3. Exported' = Exported \cup {hand[c]}
    <3>1. /\ DOMAIN exported' = DOMAIN exported \cup {Len(exported) + 1}
          /\ \A n \in DOMAIN exported : exported'[n] = exported[n]
          /\ exported'[Len(exported) + 1] = hand[c]
      BY <2>1
    <3> QED BY <3>1 DEF Exported
  <2>4. \A i : Kept(i) => Kept(i)'
    BY <2>1, <2>2, <2>3 DEF Kept, Exporting
  <2>5. \A i \in Offsets : Passed(i)' => Passed(i)
    BY <1>0, <1>1, <2>1, <2>2 DEF Passed
  <2>6. faults' >= faults
    BY <1>0, <2>1
  <2> QED BY <1>2, <2>4, <2>5, <2>6
<1>7. CASE ExportError(c) \/ FetchError(c) \/ CommitError(c)
  <2>1. /\ UNCHANGED <<exported, position, origin>> /\ faults' = faults + 1
        /\ \/ committed' = committed
           \/ pc[c] = "commit" /\ committed' = hand[c]
    BY <1>7 DEF ExportError, FetchError, CommitError, ReadError, group, Fault
  <2>2. /\ pc'[c] \notin {"commit", "export"}
        /\ \A d \in Consumers \ {c} : pc'[d] = pc[d] /\ hand'[d] = hand[d]
        /\ expired' = expired \ {c}
    BY <1>7, GotoType DEF ExportError, FetchError, CommitError, ReadError
  <2>3. \A i : Kept(i) => Kept(i)' \/ i = hand[c]
    BY <2>1, <2>2 DEF Kept, Exported, Exporting
  <2>4. \A i \in Offsets : i # hand[c] /\ Passed(i)' => Passed(i)
    BY <1>1, <2>1, <2>2, Types DEF Passed
  <2>5. faults' >= faults /\ faults' >= faults + 1
    BY <1>0, <2>1
  <2> QED BY <1>2, <2>3, <2>4, <2>5
<1>8. CASE CommitRejected(c)
  <2>1. /\ UNCHANGED <<exported, position, origin, committed, faults>>
        /\ pc[c] = "commit" /\ c \in expired
    BY <1>0, <1>8 DEF CommitRejected, ReadError, TypeOK
  <2>2. /\ pc'[c] \notin {"commit", "export"}
        /\ \A d \in Consumers \ {c} : pc'[d] = pc[d] /\ hand'[d] = hand[d]
        /\ expired' = expired \ {c}
    BY <1>8, GotoType DEF CommitRejected, ReadError
  <2>3. \A i : Kept(i) => Kept(i)'
    BY <2>1, <2>2 DEF Kept, Exported, Exporting
  <2>4. \A i \in Offsets : Passed(i)' => Passed(i)
    BY <1>0, <1>1, <2>1, <2>2 DEF Passed
  <2>5. faults' >= faults
    BY <1>0, <2>1
  <2> QED BY <1>2, <2>3, <2>4, <2>5
<1>9. CASE Crash(c)
  <2>1. /\ UNCHANGED <<exported, committed>> /\ faults' = faults + 1
        /\ pc'[c] = "fetch"
        /\ \A d \in Consumers \ {c} : pc'[d] = pc[d] /\ hand'[d] = hand[d]
        /\ expired' = expired \ {c}
    BY <1>9, GotoType DEF Crash, Fault
  <2>2. \A i : Kept(i) => Kept(i)' \/ i = hand[c]
    BY <2>1 DEF Kept, Exported, Exporting
  <2>3. \A i \in Offsets : Passed(i)' => Passed(i)
    <3>1. CASE c = owner
      <4>1. Begin(c) /\ owner' = c
        BY <1>1, <1>9, <3>1 DEF Crash
      <4>2. \A d \in Consumers :
              pc'[d] = "commit" => pc[d] = "commit" /\ hand'[d] = hand[d]
        BY <2>1
      <4> QED BY <1>1, <2>1, <4>1, <4>2, BeginLoss
    <3>2. CASE c # owner
      <4>1. UNCHANGED <<position, origin>>
        BY <1>9, <3>2 DEF Crash
      <4> QED BY <1>0, <1>1, <2>1, <3>2, <4>1 DEF Passed
    <3> QED BY <3>1, <3>2
  <2>4. faults' >= faults /\ faults' >= faults + 1
    BY <1>0, <2>1
  <2> QED BY <1>2, <2>2, <2>3, <2>4
<1> QED BY <1>3, <1>4, <1>5, <1>6, <1>7, <1>8, <1>9 DEF ConsumerStep, ConsumerError
-----------------------------------------------------------------------------
LEMMA InitSafe == Init => IndInv
<1> SUFFICES ASSUME Init PROVE IndInv
  OBVIOUS
<1>1. faults = 0 /\ rebalances = 0 /\ topic = << >> /\ exported = << >>
  BY DEF Init, GroupInit
<1>2. Typed
  BY <1>1 DEF Init, GroupInit, Typed, TypeOK, GroupTypeOK, Offsets
<1>3. IsFiniteSet({}) /\ Cardinality({}) = 0
  BY FS_EmptySet
<1>4. Lost = {}
  BY <1>1 DEF Lost, Offsets
<1>5. ASSUME NEW i \in Nat \ {0} PROVE Caused(i)
  <2>1. Late(i) = {} /\ Owed(i) \in 0 .. 1
    BY DEF Init, Late, Owed
  <2>2. { n \in DOMAIN exported : exported[n] = i } = {}
    BY <1>1
  <2> QED BY <1>1, <1>3, <2>1, <2>2 DEF Caused, Exports
<1> QED BY <1>1, <1>2, <1>3, <1>4, <1>5 DEF IndInv, LossInv

LEMMA NextSafe == IndInv /\ [Next]_vars => IndInv'
<1> SUFFICES ASSUME IndInv, [Next]_vars PROVE IndInv'
  OBVIOUS
<1>1. CASE \/ \E e \in Events : PublishBillingProcessed(e)
           \/ \E c \in Consumers : Rebalance(c)
           \/ UNCHANGED vars
  BY <1>1, GroupType, GroupLoss, GroupCaused DEF IndInv
<1>2. CASE \E c \in Consumers : ConsumerStep(c) \/ ConsumerError(c)
  BY <1>2, LoopType, LoopLoss, LoopCaused DEF IndInv
<1> QED BY <1>1, <1>2 DEF Next

LEMMA Invariance == Spec => []IndInv
BY InitSafe, NextSafe, PTL DEF Spec

(* Every variable keeps its type; in particular no consumer takes up a     *)
(* message, or begins at an offset, that is not in the topic.              *)
THEOREM TypeCorrect == Spec => []TypeOK
<1>1. IndInv => TypeOK
  BY DEF IndInv, Typed
<1> QED BY <1>1, Invariance, PTL

(* A message is exported once, and once more at most for each rebalance:   *)
(* since its offset is committed first, no failure repeats an export.      *)
THEOREM ReexportsHaveCause == Spec => []ReexportHasCause
<1>1. IndInv => ReexportHasCause
  <2> SUFFICES ASSUME IndInv, NEW i \in Offsets PROVE Exports(i) <= 1 + rebalances
    BY DEF ReexportHasCause
  <2>1. Typed /\ i \in Nat \ {0}
    BY Types DEF IndInv
  <2> QED BY <2>1, AccountType DEF IndInv
<1> QED BY <1>1, Invariance, PTL

(* Of the messages that the reader of the partition has passed, at most    *)
(* one per failure is neither exported nor in somebody's hands.            *)
THEOREM LossesHaveCause == Spec => []LossIsBounded
<1>1. IndInv => LossIsBounded
  <2> SUFFICES ASSUME IndInv PROVE LossIsBounded
    OBVIOUS
  <2>1. Typed /\ LossInv
    BY DEF IndInv
  <2> DEFINE gone == (origin + 1 .. position[owner])
                       \ ({ exported[n] : n \in DOMAIN exported }
                            \cup { hand[c] : c \in Consumers })
  <2>2. gone \subseteq Lost
    <3>1. ASSUME NEW i \in gone PROVE i \in Offsets /\ Passed(i) /\ ~Kept(i)
      <4>1. i \in Offsets /\ i > origin /\ i <= position[owner]
        BY <2>1, Types
      <4>2. \A c \in Consumers : hand[c] # i
        OBVIOUS
      <4>3. i \notin Exported
        BY DEF Exported
      <4> QED BY <2>1, <4>1, <4>2, <4>3, Types DEF Passed, Kept, Exporting
    <3> QED BY <3>1 DEF Lost
  <2>3. Cardinality(gone) <= Cardinality(Lost)
        /\ Cardinality(gone) \in Nat /\ Cardinality(Lost) \in Nat
    BY <2>1, <2>2, NoMore DEF LossInv
  <2> QED BY <2>1, <2>3, Types DEF LossInv, LossIsBounded
<1> QED BY <1>1, Invariance, PTL
=============================================================================
