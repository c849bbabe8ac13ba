----------------------------- MODULE SqlQueries -----------------------------
(***************************************************************************)
(* The one query shape that the repository layer (pkg/repository/sql) uses *)
(* for work lists: SELECT ... WHERE ... ORDER BY ... LIMIT.                 *)
(***************************************************************************)
EXTENDS Integers, FiniteSets

(***************************************************************************)
(* The possible results of ORDER BY leq LIMIT n over the rows S that the   *)
(* WHERE clause selects: as many rows as the limit admits, none of them    *)
(* behind a row that was left out.  Ties are broken either way.            *)
(***************************************************************************)
OrderByLimit(S, n, leq(_, _)) ==
  { B \in SUBSET S :
      /\ Cardinality(B) = IF Cardinality(S) < n THEN Cardinality(S) ELSE n
      /\ \A b \in B, r \in S \ B : leq(b, r) }

(* The rows of S that may come first under the order leq. *)
FirstOf(S, leq(_, _)) == { s \in S : \A r \in S : leq(s, r) }
=============================================================================
