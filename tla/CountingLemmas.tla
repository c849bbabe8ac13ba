---------------------------- MODULE CountingLemmas ----------------------------
(***************************************************************************)
(* How the size of a finite set, and the number of times that a value      *)
(* occurs in a sequence, change in one step.  The proofs about duplicates  *)
(* and losses count with these.                                            *)
(***************************************************************************)
EXTENDS Integers, Sequences, FiniteSetTheorems, TLAPS

(* The places of value x in sequence s. *)
Places(s, x) == { i \in DOMAIN s : s[i] = x }

LEMMA PlacesFinite ==
  ASSUME NEW S, NEW s \in Seq(S), NEW x
  PROVE  IsFiniteSet(Places(s, x)) /\ Cardinality(Places(s, x)) \in Nat
<1>1. IsFiniteSet(1 .. Len(s)) /\ Places(s, x) \in SUBSET (1 .. Len(s))
  BY FS_Interval DEF Places
<1>2. IsFiniteSet(Places(s, x))
  BY <1>1, FS_Subset
<1> QED BY <1>2, FS_CardinalityType

(* Sequence t is sequence s, of length m, continued with n copies of e. *)
Continued(t, s, m, n, e) ==
  /\ m \in Nat /\ n \in Nat
  /\ DOMAIN s = 1 .. m
  /\ DOMAIN t = 1 .. (m + n)
  /\ \A i \in 1 .. m : t[i] = s[i]
  /\ \A i \in (m + 1) .. (m + n) : t[i] = e

(* It has e n times more, and every other value where it was. *)
LEMMA MoreOfIt ==
  ASSUME NEW s, NEW t, NEW m, NEW n, NEW e, Continued(t, s, m, n, e)
  PROVE  Cardinality(Places(t, e)) = Cardinality(Places(s, e)) + n
<1> USE DEF Continued
<1> DEFINE new == (m + 1) .. (m + n)
<1>1. DOMAIN t = (1 .. m) \cup new
  OBVIOUS
<1>2. Places(t, e) = Places(s, e) \cup new /\ Places(s, e) \cap new = {}
  BY <1>1 DEF Places
<1>3. IsFiniteSet(new) /\ Cardinality(new) = n
  BY FS_Interval
<1>4. IsFiniteSet(Places(s, e)) /\ Cardinality(Places(s, e)) \in Nat
  <2>1. Places(s, e) \in SUBSET (1 .. m) /\ IsFiniteSet(1 .. m)
    BY FS_Interval DEF Places
  <2> QED BY <2>1, FS_Subset, FS_CardinalityType
<1>5. Cardinality(Places(s, e) \cup new) =
        Cardinality(Places(s, e)) + Cardinality(new)
          - Cardinality(Places(s, e) \cap new)
  BY <1>3, <1>4, FS_Union
<1>6. Cardinality(Places(t, e)) = Cardinality(Places(s, e)) + n - Cardinality({})
  BY <1>2, <1>3, <1>5
<1> HIDE DEF new
<1> QED BY <1>4, <1>6, FS_EmptySet

LEMMA SameOfOthers ==
  ASSUME NEW s, NEW t, NEW m, NEW n, NEW e, Continued(t, s, m, n, e),
         NEW x, x # e
  PROVE  Places(t, x) = Places(s, x)
BY DEF Places, Continued

LEMMA RepeatContinues ==
  ASSUME NEW S, NEW s \in Seq(S), NEW e \in S, NEW n \in Nat
  PROVE  /\ s \o [i \in 1 .. n |-> e] \in Seq(S)
         /\ Continued(s \o [i \in 1 .. n |-> e], s, Len(s), n, e)
<1> DEFINE copies == [i \in 1 .. n |-> e]
           t == s \o copies
<1>1. copies \in Seq(S) /\ Len(copies) = n /\ \A i \in 1 .. n : copies[i] = e
  OBVIOUS
<1> HIDE DEF copies
<1>2. /\ Len(s) \in Nat /\ t \in Seq(S)
      /\ DOMAIN s = 1 .. Len(s) /\ DOMAIN t = 1 .. (Len(s) + n)
  BY <1>1
<1>3. \A i \in 1 .. Len(s) : t[i] = s[i]
  BY <1>1
<1>4. \A i \in (Len(s) + 1) .. (Len(s) + n) : t[i] = e
  <2> TAKE i \in (Len(s) + 1) .. (Len(s) + n)
  <2>1. i - Len(s) \in 1 .. n /\ t[i] = copies[i - Len(s)]
    BY <1>1, <1>2
  <2> QED BY <1>1, <2>1
<1> HIDE DEF t
<1>5. Continued(t, s, Len(s), n, e)
  BY <1>2, <1>3, <1>4 DEF Continued
<1> QED BY <1>2, <1>5 DEF t, copies

LEMMA AppendContinues ==
  ASSUME NEW S, NEW s \in Seq(S), NEW e \in S
  PROVE  Continued(Append(s, e), s, Len(s), 1, e)
BY DEF Continued
-----------------------------------------------------------------------------
(* Sets that gain or lose an element. *)

LEMMA NoMore ==
  ASSUME NEW S, IsFiniteSet(S), NEW T, T \subseteq S
  PROVE  /\ IsFiniteSet(T) /\ Cardinality(S) \in Nat /\ Cardinality(T) \in Nat
         /\ Cardinality(T) <= Cardinality(S)
BY FS_Subset, FS_CardinalityType

LEMMA OneMore ==
  ASSUME NEW S, IsFiniteSet(S), NEW x, NEW T, T \subseteq S \cup {x}
  PROVE  /\ IsFiniteSet(T) /\ Cardinality(S) \in Nat /\ Cardinality(T) \in Nat
         /\ Cardinality(T) <= Cardinality(S) + 1
<1>1. IsFiniteSet(S \cup {x})
  BY FS_AddElement
<1>2. Cardinality(S) \in Nat /\ Cardinality(S \cup {x}) \in Nat
  BY <1>1, FS_CardinalityType
<1>3. \/ Cardinality(S \cup {x}) = Cardinality(S)
      \/ Cardinality(S \cup {x}) = Cardinality(S) + 1
  BY FS_AddElement
<1>4. Cardinality(S \cup {x}) <= Cardinality(S) + 1
  BY <1>2, <1>3
<1> QED BY <1>1, <1>2, <1>4, NoMore

LEMMA OneLess ==
  ASSUME NEW S, IsFiniteSet(S), NEW x \in S, NEW T, T \subseteq S \ {x}
  PROVE  /\ IsFiniteSet(T) /\ Cardinality(S) \in Nat /\ Cardinality(T) \in Nat
         /\ Cardinality(T) <= Cardinality(S) - 1
<1>1. IsFiniteSet(S \ {x}) /\ Cardinality(S \ {x}) = Cardinality(S) - 1
  BY FS_RemoveElement
<1> QED BY <1>1, NoMore, FS_CardinalityType
=============================================================================
