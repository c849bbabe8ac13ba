---------------------------- MODULE BillingLedger ----------------------------
(***************************************************************************)
(* What usage-service promises to the rest of the system: it keeps a       *)
(* journal of billing chunks in which every session has an account, whose  *)
(* entries have no overlap and no gap, are numbered 1, 2, 3, ..., begin    *)
(* where the session began and end with the one that closes the account.   *)
(*                                                                         *)
(* A writer whose knowledge of an account is outdated breaks this account, *)
(* and no other: what it enters, and what is entered after it, may then be *)
(* anything.                                                               *)
(***************************************************************************)
EXTENDS Integers, Sequences, FiniteSets

CONSTANT Sessions

VARIABLES
  state,    \* of each account: not opened, open, closed
  paidTo,   \* the instant up to which it is billed
  journal,  \* the entries of all accounts so far
  broken    \* the accounts that an outdated writer has broken

vars == <<state, paidTo, journal, broken>>

Entries(s) == { i \in DOMAIN journal : journal[i].session = s }

Init ==
  /\ state = [s \in Sessions |-> "none"]
  /\ paidTo = [s \in Sessions |-> 0]
  /\ journal = << >>
  /\ broken = {}

Others(s) ==
  \A r \in Sessions \ {s} : state'[r] = state[r] /\ paidTo'[r] = paidTo[r]

Open(s) ==
  /\ state[s] = "none" /\ Entries(s) = {}
  /\ state'[s] = "open"
  /\ paidTo'[s] \in Int
  /\ Others(s) /\ UNCHANGED <<journal, broken>>

(* One more entry, from where the account stands on; it is empty if the    *)
(* clock has not moved since the last one.                                 *)
Enter(s) ==
  /\ state[s] = "open" /\ s \notin broken
  /\ paidTo'[s] >= paidTo[s]
  /\ journal' = Append(journal,
       [session |-> s, sequence |-> Cardinality(Entries(s)) + 1,
        from |-> paidTo[s], to |-> paidTo'[s]])
  /\ Others(s) /\ UNCHANGED broken

Bill(s)  == Enter(s) /\ state'[s] = "open"
Close(s) == Enter(s) /\ state'[s] = "closed"

(* An outdated writer, or whoever writes after it, makes some entry. *)
Break(s) ==
  /\ broken' = broken \cup {s}
  /\ Len(journal') = Len(journal) + 1
  /\ journal' = Append(journal, journal'[Len(journal) + 1])
  /\ journal'[Len(journal) + 1].session = s
  /\ Others(s)

Next == \E s \in Sessions : Open(s) \/ Bill(s) \/ Close(s) \/ Break(s)

Spec == Init /\ [][Next]_vars
=============================================================================
