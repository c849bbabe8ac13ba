------------------------------ MODULE Pipeline ------------------------------
(***************************************************************************)
(* The way of a billing chunk through the services: usage-service writes   *)
(* it to the outbox, outbox-publisher sends it to usage-billing-chunks and *)
(* billing-processor submits it to Metronome.                              *)
(*                                                                         *)
(* usage-service is here in full.  The other two are no more than what     *)
(* their modules are shown to implement, a Relay each: they may take any   *)
(* time, pass chunks on in any order and pass them on repeatedly.          *)
(*                                                                         *)
(* An event is the place of its chunk in the outbox, which stands for its  *)
(* event_id.                                                               *)
(*                                                                         *)
(* Scanners and finishers race: nothing locks a session between the query  *)
(* that selects it and the UPDATE by its id alone.  The history variable   *)
(* raced remembers the sessions to which this has happened, so that the    *)
(* properties can say what the code keeps until then, and that nothing     *)
(* else breaks it.                                                         *)
(*                                                                         *)
(* A definition named D_... is D with a mistake in it.  Nothing uses it;   *)
(* it is there to be put in the place of D, to see a property fail.        *)
(***************************************************************************)
EXTENDS UsageService, Bags

VARIABLES
  sent,         \* the events in the topic usage-billing-chunks
  submitted,    \* those that were submitted to Metronome
  charged,      \* the bag of those that Metronome charged for
  raced         \* the sessions that were written by an outdated goroutine

delivery     == <<sent, submitted, charged>>
pipelineVars == <<vars, delivery, raced>>

(* The publisher leaves chunks of an empty or inverted period alone. *)
validateBillingChunk(i) == outbox[i].from < outbox[i].to

Publisher == INSTANCE Relay WITH
  input  <- { i \in DOMAIN outbox : validateBillingChunk(i) },
  output <- sent,
  done   <- {}

Processor == INSTANCE Relay WITH
  input  <- sent,
  output <- submitted,
  done   <- {}

(* BuildMetronomePayload. *)
TransactionID(i) == <<outbox[i].session, outbox[i].sequence>>

(* Metronome collapses submissions with the same transaction id. *)
SeenByMetronome(i) ==
  \E j \in BagToSet(charged) : TransactionID(j) = TransactionID(i)
-----------------------------------------------------------------------------
PipelineInit ==
  /\ Init
  /\ sent = {} /\ submitted = {} /\ charged = EmptyBag
  /\ raced = {}

(* What p knows of session s is outdated: the row is not the one it has    *)
(* read any more, or the session is not active any more.                   *)
Outdated(p, s) == held[p][s] # sessions[s] \/ s \notin Active

(* The sessions of the chunks that the step writes from outdated knowledge. *)
Overtaken ==
  { s \in Sessions : \E p \in Goroutines :
      /\ pc[p] = "commit" /\ pc'[p] # "commit" /\ txn[p].session = s
      /\ outbox' # outbox
      /\ Outdated(p, s) }

(* A step of usage-service. *)
Usage(A) == A /\ raced' = raced \cup Overtaken /\ UNCHANGED delivery

Publish(i) ==
  /\ i \notin sent
  /\ UNCHANGED <<vars, raced>>
  /\ Publisher!Forward(i)
  /\ UNCHANGED <<submitted, charged>>

(* The first submission of a chunk, or a repeated one. *)
Submit(i) ==
  /\ UNCHANGED <<vars, raced>>
  /\ Processor!Forward(i)
  /\ charged' = IF SeenByMetronome(i) THEN charged ELSE charged (+) SetToBag({i})

PublishNext == \E i \in DOMAIN outbox : Publish(i)
SubmitNext  == \E i \in sent \ submitted : Submit(i)
SubmitAgain == \E i \in submitted : Submit(i)

PipelineNext == Usage(Next) \/ PublishNext \/ SubmitNext \/ SubmitAgain

(* The relays deliver what they are given, which the publisher is shown to *)
(* do for valid events, and the processor as long as no call of it fails.  *)
DeliveryFairness == WF_pipelineVars(PublishNext) /\ WF_pipelineVars(SubmitNext)

UsageStep(p) == Usage(IF p \in Scanners THEN ScannerStep(p) ELSE FinisherStep(p))

PipelineSpec ==
  /\ PipelineInit /\ [][PipelineNext]_pipelineVars
  /\ DeliveryFairness
  /\ \A p \in Goroutines : WF_pipelineVars(UsageStep(p))
-----------------------------------------------------------------------------
Unraced == Sessions \ raced

(* Metronome knows a transaction by session and sequence.  Two chunks have *)
(* the same name only if an outdated goroutine wrote to their session: no  *)
(* crash, no commit of unknown outcome and no other session can bring it   *)
(* about.                                                                  *)
UnracedIdsUnique ==
  \A i, j \in DOMAIN outbox :
    i # j /\ TransactionID(i) = TransactionID(j) => outbox[i].session \in raced

ChargesFor(s, t) ==
  { i \in BagToSet(charged) :
      outbox[i].session = s /\ outbox[i].from <= t /\ t < outbox[i].to }

(* Nobody is charged twice for a chunk, although chunks are submitted      *)
(* repeatedly, nor for the same time of a session, unless an outdated      *)
(* goroutine wrote to it.                                                  *)
UnracedChargedOnce ==
  /\ \A i \in BagToSet(charged) : charged[i] = 1
  /\ \A s \in Unraced, i, j \in BagToSet(charged) :
       i # j /\ outbox[i].session = s /\ outbox[j].session = s =>
         outbox[i].to <= outbox[j].from \/ outbox[j].to <= outbox[i].from

(* No chunk bills a finished session beyond its end, unless an outdated    *)
(* goroutine wrote to it; a scanner may race and have a slow clock.        *)
UnracedEndIsKept ==
  \A i \in DOMAIN outbox :
    LET s == outbox[i].session IN
    s \in Unraced /\ sessions[s].endAt # Null => outbox[i].to <= sessions[s].endAt

(* Metronome has been told all that the outbox has to bill for session s. *)
AllSubmitted(s) ==
  \A i \in DOMAIN outbox :
    outbox[i].session = s /\ validateBillingChunk(i) => i \in submitted

BilledTime(s) ==
  LET row == sessions[s]
  IN  (row.startAt .. (row.lastBilledAt - 1)) \cup
      (IF row.endAt = Null THEN {} ELSE row.startAt .. (row.endAt - 1))

(* A chunk of session s for time t was not charged for, because another    *)
(* chunk of the session has the same number and was charged for.           *)
Displaced(s, t) ==
  \E i \in DOMAIN outbox, j \in BagToSet(charged) :
    /\ i # j /\ outbox[i].session = s /\ outbox[i].from <= t /\ t < outbox[i].to
    /\ outbox[j].session = s /\ outbox[j].sequence = outbox[i].sequence

(* Whatever order scans and finishes take and whatever fails, there is one *)
(* way only for time that a session counts as billed not to be charged for *)
(* once all its chunks have been submitted: two chunks of the session have *)
(* the same number, and Metronome took the other for it.  This holds of    *)
(* raced sessions too: their charges are displaced, not left out.          *)
UnchargedIsCollision ==
  \A s \in Sessions : Present(sessions[s]) /\ AllSubmitted(s) =>
    \A t \in BilledTime(s) : ChargesFor(s, t) # {} \/ Displaced(s, t)

ChargedThroughout(s) ==
  /\ sessions[s].endAt # Null
  /\ \A t \in sessions[s].startAt .. (sessions[s].endAt - 1) : ChargesFor(s, t) # {}

(* When the last chunk of a session that has ended is submitted, all its   *)
(* time is charged for, unless an outdated goroutine wrote to it.          *)
UnracedIsDelivered ==
  \A s \in Unraced :
    sessions[s].endAt # Null /\ AllSubmitted(s) => ChargedThroughout(s)

(* All the time of a finished session is charged for in the end, unless an *)
(* outdated goroutine wrote to it.                                         *)
UnracedIsCharged ==
  \A s \in Sessions :
    sessions[s].status = "SESSION_FINISHED" ~> ChargedThroughout(s) \/ s \in raced

(* What the design says: no billing event is lost, so all the time of a    *)
(* finished session is charged for in the end.                             *)
FinishedIsCharged ==
  \A s \in Sessions :
    sessions[s].status = "SESSION_FINISHED" ~> ChargedThroughout(s)
-----------------------------------------------------------------------------
AccountState ==
  [NONE |-> "none", SESSION_ACTIVE |-> "open", SESSION_FINISHED |-> "closed"]

Ledger == INSTANCE BillingLedger WITH
  state   <- [s \in Sessions |-> AccountState[sessions[s].status]],
  paidTo  <- [s \in Sessions |-> sessions[s].lastBilledAt],
  journal <- outbox,
  broken  <- raced

(* usage-service keeps the ledger: contiguous, disjoint, consecutively     *)
(* numbered chunks for each session and none after it is finished, through *)
(* crashes and commits of unknown outcome, until an outdated goroutine     *)
(* writes to the session; and that breaks this account only.               *)
ImplementsLedger == Ledger!Spec
=============================================================================
