---------------------------- MODULE OriginLemmas ----------------------------
(***************************************************************************)
(* Spool and Bridge note where every sample comes from in a sequence that  *)
(* each Submit makes longer by a run of equal elements.  This is what such *)
(* a run does to the places of each element.                               *)
(***************************************************************************)
EXTENDS Integers, Sequences, FiniteSets, SequenceTheorems, FiniteSetTheorems, TLAPS

(* n elements k *)
Run(n, k) == [i \in 1..n |-> k]

(* Where an element is among the first m of a sequence *)
Places(seq, m, j) == {i \in 1..m : seq[i] = j}

(* long has the m elements of seq, all in S, and then n times k. *)
ExtendedByRun(long, seq, m, S, n, k) ==
  /\ long \in [1..(m + n) -> S]
  /\ \A i \in 1..m : long[i] = seq[i]
  /\ \A i \in (m + 1)..(m + n) : long[i] = k
  /\ \A j : j # k => Places(long, m + n, j) = Places(seq, m, j)
  /\ Cardinality(Places(long, m + n, k)) = Cardinality(Places(seq, m, k)) + n

(* An element is in finitely many places. *)
LEMMA PlacesFinite ==
  ASSUME NEW m \in Nat, NEW seq, NEW j
  PROVE  IsFiniteSet(Places(seq, m, j)) /\ Cardinality(Places(seq, m, j)) \in Nat
  <1>1. IsFiniteSet(1..m) /\ Places(seq, m, j) \subseteq 1..m
    BY FS_Interval DEF Places
  <1> QED BY <1>1, FS_Subset, FS_CardinalityType

(* A run of n elements k at the end gives k that many places more, and leaves
   the places of everything else as they are. *)
LEMMA RunAppended ==
  ASSUME NEW m \in Nat, NEW S, NEW seq \in [1..m -> S], NEW n \in Nat, NEW k \in S,
         NEW long, long = seq \o Run(n, k)
  PROVE  ExtendedByRun(long, seq, m, S, n, k)
  <1> DEFINE run == Run(n, k)
             added == (m + 1)..(m + n)
             old == Places(seq, m, k)
  <1>1. /\ seq \in Seq(S) /\ Len(seq) = m
        /\ run \in Seq(S) /\ Len(run) = n /\ \A i \in 1..n : run[i] = k
    BY DEF Run
  <1>2. long = seq \o run
    OBVIOUS
  <1> HIDE DEF run
  <1>3. /\ long \in Seq(S) /\ Len(long) = m + n
        /\ \A i \in 1..(m + n) : long[i] = IF i <= m THEN seq[i] ELSE run[i - m]
    <2>1. /\ seq \o run \in Seq(S)
          /\ Len(seq \o run) = Len(seq) + Len(run)
          /\ \A i \in 1..(Len(seq) + Len(run)) :
               (seq \o run)[i] = IF i <= Len(seq) THEN seq[i] ELSE run[i - Len(seq)]
      BY <1>1, ConcatProperties, Zenon
    <2> QED BY <1>1, <1>2, <2>1, Zenon
  <1>4. \A i \in 1..m : long[i] = seq[i]
    BY <1>3
  <1>5. \A i \in added : long[i] = k
    <2> SUFFICES ASSUME NEW i \in added PROVE long[i] = k
      OBVIOUS
    <2>1. i \in 1..(m + n) /\ ~(i <= m) /\ i - m \in 1..n
      OBVIOUS
    <2> QED BY <1>1, <1>3, <2>1
  <1>6. 1..(m + n) = (1..m) \cup added /\ (1..m) \cap added = {}
    OBVIOUS
  <1>7. IsFiniteSet(added) /\ Cardinality(added) = n
    <2>1. m + 1 \in Int /\ m + n \in Int
      OBVIOUS
    <2>2. /\ IsFiniteSet(added)
          /\ Cardinality(added) = IF m + 1 > m + n THEN 0 ELSE (m + n) - (m + 1) + 1
      BY <2>1, FS_Interval
    <2> QED BY <2>2
  <1> HIDE DEF added
  <1>8. \A j : j # k => Places(long, m + n, j) = Places(seq, m, j)
    BY <1>4, <1>5, <1>6 DEF Places
  <1>9. Places(long, m + n, k) = old \cup added /\ old \cap added = {}
    BY <1>4, <1>5, <1>6 DEF Places
  <1>10. Cardinality(old \cup added) = Cardinality(old) + n
    <2>1. IsFiniteSet(old) /\ Cardinality(old) \in Nat
      BY PlacesFinite
    <2>2. Cardinality(old \cap added) = 0
      BY <1>9, FS_EmptySet, Zenon
    <2> DEFINE a == Cardinality(old)
               b == Cardinality(old \cap added)
    <2>3. Cardinality(old \cup added) = a + Cardinality(added) - b
      BY <1>7, <2>1, FS_Union
    <2>4. a \in Nat /\ b = 0 /\ Cardinality(old \cup added) = a + n - b
      BY <1>7, <2>1, <2>2, <2>3
    <2> HIDE DEF a, b
    <2>5. Cardinality(old \cup added) = a + n
      BY <2>4
    <2> QED BY <2>5 DEF a
  <1>11. long \in [1..(m + n) -> S]
    <2>1. long \in [1..Len(long) -> S]
      BY <1>3, LenProperties
    <2> QED BY <1>3, <2>1, Zenon
  <1> QED BY <1>4, <1>5, <1>8, <1>9, <1>10, <1>11 DEF added, ExtendedByRun

(* Append is the same with a run of one element. *)
LEMMA OneAppended ==
  ASSUME NEW m \in Nat, NEW S, NEW seq \in [1..m -> S], NEW k \in S,
         NEW long, long = Append(seq, k)
  PROVE  ExtendedByRun(long, seq, m, S, 1, k)
  <1>1. seq \in Seq(S) /\ <<k>> = Run(1, k)
    BY DEF Run
  <1>2. Append(seq, k) = seq \o <<k>>
    BY <1>1, AppendIsConcat
  <1> QED BY <1>1, <1>2, RunAppended
=============================================================================
