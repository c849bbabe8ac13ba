-------------------------- MODULE MCOutboxPublisher --------------------------
(***************************************************************************)
(* OutboxPublisher in an environment that is kinder to it than the real    *)
(* one: events appear in the outbox in the order of their created_at.      *)
(***************************************************************************)
EXTENDS OutboxPublisher

InsertsInOrder ==
  \A e \in Events :
    row[e] = "absent" /\ row'[e] # "absent" =>
      \A d \in Events : d < e => row[d] # "absent"

InOrderSpec == Init /\ [][Next /\ InsertsInOrder]_vars
=============================================================================
