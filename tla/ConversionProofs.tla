-------------------------- MODULE ConversionProofs --------------------------
(***************************************************************************)
(* What holds of the sequential parts of the bridge for every input: the   *)
(* payload parser (Parser), the relabelling engine (Relabel), the start of *)
(* the process and its routing (Startup) and the decoder of produce        *)
(* requests (Decoder).  WireProofs has the two parts that write what the   *)
(* bridge sends.  TLC runs these parts on small sets of inputs; here the   *)
(* sets are parameters, of which the theorems suppose only what Go's types *)
(* or the documentation give.                                              *)
(*                                                                         *)
(* The variables are those of Conversions.  For the decoder, given is the  *)
(* request, aux1 the reader's position, status the loop that               *)
(* handleProduce is in, todo the topics, aux3 the partitions still to be   *)
(* read, aux2 the topic and made the records.                              *)
(***************************************************************************)
EXTENDS Conversions, SequenceTheorems, FiniteSetTheorems, WellFoundedInduction, TLAPS

CONSTANT Parts \* the dot-separated parts of topic names

(* A run of one part never becomes a run of another. *)
LEMMA OtherParts ==
  ASSUME [Next]_vars
  PROVE  /\ part' = part
         /\ part = "Parser" => [P!Next]_P!vars
         /\ part = "Relabel" => [R!Next]_R!vars
         /\ part = "LokiWriter" => [L!Next]_L!vars
         /\ part = "RemoteWrite" => [W!Next]_W!vars
         /\ part = "Decoder" => [D!Next]_D!vars
         /\ part = "Startup" => [S!Next]_S!vars
  <1>1. CASE UNCHANGED vars
    BY <1>1 DEF vars, locals, P!vars, R!vars, L!vars, W!vars, D!vars, S!vars
  <1>2. CASE Next
    BY <1>2 DEF Next, ParserStep, RelabelStep, LokiWriterStep, RemoteWriteStep, DecoderStep, StartupStep
  <1> QED BY <1>1, <1>2

(* A set of numbers that is not empty has a least one. *)
LEMMA LeastNumber ==
  ASSUME NEW T \in SUBSET Nat, T # {}
  PROVE  \E x \in T : \A y \in T : x <= y
  <1> DEFINE Rel == {ss \in Nat \X Nat : ss[1] < ss[2]}
  <1>1. IsWellFoundedOn(Rel, Nat)
    BY NatLessThanWellFounded, Zenon DEF OpToRel
  <1> HIDE DEF Rel
  <1>2. PICK x \in T : \A y \in T : ~(<<y, x>> \in Rel)
    BY <1>1, WFMin
  <1>3. ASSUME NEW y \in T PROVE x <= y
    <2>1. x \in Nat /\ y \in Nat /\ <<y, x>> \notin Rel
      BY <1>2
    <2>2. ~(y < x)
      BY <2>1 DEF Rel
    <2> QED BY <2>1, <2>2
  <1> QED BY <1>3

-----------------------------------------------------------------------------
(* OME payload parser *)

(* A map with nothing set in it is as it was. *)
LEMMA NothingAdded ==
  ASSUME NEW m
  PROVE  P!Extended(P!BaseLabels(m), <<>>) = P!BaseLabels(m)
  <1>1. DOMAIN <<>> = {}
    OBVIOUS
  <1> QED BY <1>1 DEF P!Extended, P!BaseLabels

(* What Append leaves as it is, whatever is appended *)
LEMMA AppendAny ==
  ASSUME NEW E, NEW s \in Seq(E), NEW x
  PROVE  /\ Append(s, x) \in Seq(E \cup {x})
         /\ Len(Append(s, x)) = Len(s) + 1
         /\ \A i \in 1..Len(s) : Append(s, x)[i] = s[i]
         /\ Append(s, x)[Len(s) + 1] = x
  <1>1. s \in Seq(E \cup {x})
    OBVIOUS
  <1> QED BY <1>1, AppendProperties

(* A sequence, of whatever *)
IsSeq(s) == \E E : s \in Seq(E)

(* AddSample appends one sample and the label map that it points to: the maps of
   the earlier samples, and baseLabels, stay what they are. *)
LEMMA SampleAdded ==
  ASSUME IsSeq(aux1), IsSeq(made), Len(aux1) > 0, NEW name, NEW value, NEW own, P!AddSample(name, value, own)
  PROVE  /\ IsSeq(aux1') /\ IsSeq(made')
         /\ Len(aux1') = Len(aux1) + 1 /\ Len(made') = Len(made) + 1
         /\ \A i \in 1..Len(aux1) : aux1'[i] = aux1[i]
         /\ \A i \in 1..Len(made) : made'[i] = made[i]
         /\ aux1'[Len(aux1) + 1] = P!Extended(aux1[1], own)
         /\ made'[Len(made) + 1].value = value
         /\ made'[Len(made) + 1].at = Len(aux1) + 1
  <1>1. PICK E : aux1 \in Seq(E)
    BY DEF IsSeq
  <1>2. PICK T : made \in Seq(T)
    BY DEF IsSeq
  <1> DEFINE sample == [name |-> name, value |-> value, at |-> Len(aux1) + 1, ts |-> P!parseOMETime(given.time)]
             h == Append(aux1, aux1[1])
             new == P!Extended(aux1[1], own)
  <1>3. made' = Append(made, sample)
    BY DEF P!AddSample, P!copyLabels
  <1>4. IsSeq(made') /\ Len(made') = Len(made) + 1 /\ made'[Len(made) + 1] = sample
        /\ \A i \in 1..Len(made) : made'[i] = made[i]
    <2> HIDE DEF sample
    <2>1. made' \in Seq(T \cup {sample}) /\ Len(made') = Len(made) + 1 /\ made'[Len(made) + 1] = sample
          /\ \A i \in 1..Len(made) : made'[i] = made[i]
      BY <1>2, <1>3, AppendAny
    <2> QED BY <2>1 DEF IsSeq
  <1>5. h \in Seq(E \cup {aux1[1]}) /\ Len(h) = Len(aux1) + 1 /\ h[Len(aux1) + 1] = aux1[1]
        /\ \A i \in 1..Len(aux1) : h[i] = aux1[i]
    BY <1>1, AppendAny
  <1>6. aux1' = [h EXCEPT ![Len(aux1) + 1] = P!Extended(h[Len(aux1) + 1], own)]
    BY DEF P!AddSample, P!copyLabels
  <1> HIDE DEF h
  <1>7. aux1' = [h EXCEPT ![Len(aux1) + 1] = new]
    BY <1>5, <1>6
  <1> HIDE DEF new
  <1>8. Len(aux1) \in Nat /\ h \in Seq(E \cup {aux1[1], new})
    BY <1>1, <1>5
  <1>9. aux1' \in Seq(E \cup {aux1[1], new}) /\ Len(aux1') = Len(h)
        /\ aux1'[Len(aux1) + 1] = new
        /\ \A i \in 1..Len(aux1) : aux1'[i] = h[i]
    BY <1>5, <1>7, <1>8, ExceptSeq
  <1> QED BY <1>4, <1>5, <1>9 DEF IsSeq, new

(* The samples made so far, each with a label map of its own *)
Sampled ==
  /\ IsSeq(aux1) /\ IsSeq(made)
  /\ Len(aux1) = Len(made) + 1
  /\ aux1[1] = P!BaseLabels(given)
  /\ \A i \in 1..Len(made) : made[i].at = i + 1

(* Another sample has a label map of its own again. *)
LEMMA SampledKept ==
  ASSUME Sampled, given' = given, NEW name, NEW value, NEW own, P!AddSample(name, value, own)
  PROVE  /\ Sampled'
         /\ Len(made) \in Nat /\ Len(made') = Len(made) + 1
         /\ \A i \in 1..Len(made) : made'[i] = made[i] /\ aux1'[i + 1] = aux1[i + 1]
         /\ made'[Len(made) + 1].value = value
         /\ aux1'[Len(made) + 2] = P!Extended(P!BaseLabels(given), own)
  <1>0. Len(made) \in Nat /\ Len(aux1) \in Nat /\ Len(aux1) > 0
    <2>1. \A E : \A s \in Seq(E) : Len(s) \in Nat
      OBVIOUS
    <2> QED BY <2>1 DEF Sampled, IsSeq
  <1>1. /\ IsSeq(aux1') /\ IsSeq(made')
        /\ Len(aux1') = Len(aux1) + 1 /\ Len(made') = Len(made) + 1
        /\ \A i \in 1..Len(aux1) : aux1'[i] = aux1[i]
        /\ \A i \in 1..Len(made) : made'[i] = made[i]
        /\ aux1'[Len(aux1) + 1] = P!Extended(aux1[1], own)
        /\ made'[Len(made) + 1].value = value
        /\ made'[Len(made) + 1].at = Len(aux1) + 1
    BY <1>0, SampleAdded DEF Sampled
  <1>2. aux1'[1] = P!BaseLabels(given')
    BY <1>0, <1>1 DEF Sampled
  <1>3. \A i \in 1..Len(made') : made'[i].at = i + 1
    BY <1>0, <1>1 DEF Sampled
  <1>4. Sampled'
    BY <1>0, <1>1, <1>2, <1>3 DEF Sampled, P!BaseLabels
  <1> QED BY <1>0, <1>1, <1>4 DEF Sampled

(* Parser counts as FiniteSets does. *)
LEMMA ParserCardinality ==
  \A T : P!Cardinality(T) = Cardinality(T)
  BY DEF P!Cardinality, Cardinality

(* A numeric reading moves the number of the next sample on by one. *)
LEMMA RankFacts ==
  ASSUME NEW k \in Nat
  PROVE  /\ P!Rank(k) \in Nat /\ P!Rank(0) = 0
         /\ P!Rank(k + 1) = P!Rank(k) + (IF P!Numeric(given.readings[k + 1].value) THEN 1 ELSE 0)
         /\ \A j \in 0..k : P!Rank(j) <= P!Rank(k)
         /\ \A j \in 0..(k - 1) : P!Numeric(given.readings[k].value) => P!Rank(j) < P!Rank(k)
  <1> DEFINE N(i) == {j \in 1..i : P!Numeric(given.readings[j].value)}
  <1>1. \A i \in Nat : IsFiniteSet(N(i))
    <2> TAKE i \in Nat
    <2>1. IsFiniteSet(1..i) /\ N(i) \subseteq 1..i
      BY FS_Interval
    <2> QED BY <2>1, FS_Subset
  <1>2. \A i \in Nat : P!Rank(i) = Cardinality(N(i)) /\ P!Rank(i) \in Nat
    <2> TAKE i \in Nat
    <2>1. P!Rank(i) = Cardinality(N(i))
      BY ParserCardinality DEF P!Rank
    <2> QED BY <1>1, <2>1, FS_CardinalityType
  <1>3. P!Rank(0) = 0
    <2>1. N(0) = {}
      OBVIOUS
    <2> QED BY <1>2, <2>1, FS_EmptySet
  <1>4. P!Rank(k + 1) = P!Rank(k) + (IF P!Numeric(given.readings[k + 1].value) THEN 1 ELSE 0)
    <2>1. CASE P!Numeric(given.readings[k + 1].value)
      <3>1. N(k + 1) = N(k) \cup {k + 1} /\ k + 1 \notin N(k)
        BY <2>1
      <3> HIDE DEF N
      <3>2. Cardinality(N(k + 1)) = Cardinality(N(k)) + 1
        BY <1>1, <3>1, FS_AddElement
      <3> QED BY <1>2, <2>1, <3>2
    <2>2. CASE ~P!Numeric(given.readings[k + 1].value)
      <3>1. N(k + 1) = N(k)
        BY <2>2
      <3> HIDE DEF N
      <3> QED BY <1>2, <2>2, <3>1
    <2> QED BY <2>1, <2>2
  <1>5. ASSUME NEW j \in 0..k PROVE P!Rank(j) <= P!Rank(k)
    <2>1. N(j) \subseteq N(k) /\ j \in Nat
      OBVIOUS
    <2> HIDE DEF N
    <2> QED BY <1>1, <1>2, <2>1, FS_Subset
  <1>6. ASSUME NEW j \in 0..(k - 1), P!Numeric(given.readings[k].value) PROVE P!Rank(j) < P!Rank(k)
    <2>1. N(j) \subseteq N(k) /\ k \in N(k) /\ k \notin N(j) /\ j \in Nat
      BY <1>6
    <2> HIDE DEF N
    <2> QED BY <1>1, <1>2, <2>1, FS_Subset
  <1> QED BY <1>2, <1>3, <1>4, <1>5, <1>6


(* How many readings of a telemetry message parseTelemetry has visited *)
Visited == Len(given.readings) - Len(todo)

(* The j-th reading's sample has its value, the device's labels and its own unit. *)
SampleOf(j) ==
  LET s == made[P!Rank(j)]
      r == given.readings[j]
  IN /\ s.value = P!toFloat64(r.value)
     /\ aux1[P!Rank(j) + 1] = P!Extended(P!BaseLabels(given), P!UnitLabel(r))

(* The readings that are numeric and have been visited have their samples, each
   its own, and no other samples are there. *)
Telemetry ==
  /\ given \in Messages
  /\ status \in {"start", "running", "parsed", "error"}
  /\ status \in {"start", "error"} => made = <<>>
  /\ given.kind = "telemetry" /\ status \in {"running", "parsed"} =>
       /\ Sampled
       /\ IsSeq(todo) /\ Len(todo) <= Len(given.readings)
       /\ \A j \in 1..Len(todo) : todo[j] = given.readings[Visited + j]
       /\ status = "parsed" => todo = <<>>
       /\ Len(made) = P!Rank(Visited)
       /\ \A j \in 1..Visited : P!Numeric(given.readings[j].value) => SampleOf(j)

(* parseTelemetry keeps that. *)
LEMMA TelemetryStep ==
  ASSUME NEW Reading, \A m \in Messages : m.kind = "telemetry" => m.readings \in Seq(Reading),
         Telemetry, P!Next
  PROVE  Telemetry'
  <1>0. given \in Messages /\ given' = given /\ (\A k : P!Rank(k)' = P!Rank(k))
    <2>1. given' = given
      BY DEF P!Next, P!Unmarshal, P!Reading, P!Rollup, P!Component, P!MakeEntry, P!Return
    <2> QED BY <2>1 DEF Telemetry, P!Rank, P!Numeric
  <1>00. \A E : \A s \in Seq(E) : Len(s) \in Nat
    OBVIOUS
  <1> DEFINE rs == given.readings
  <1>1. CASE P!Unmarshal
    <2>1. CASE given.kind = "telemetry" /\ status' = "running"
      <3>1. aux1' = <<P!BaseLabels(given)>> /\ todo' = rs /\ made' = <<>> /\ rs \in Seq(Reading)
        BY <1>0, <1>1, <2>1 DEF P!Unmarshal, Telemetry
      <3>2. aux1' \in Seq({P!BaseLabels(given)}) /\ Len(aux1') = 1 /\ aux1'[1] = P!BaseLabels(given)
        BY <3>1
      <3>3. made' \in Seq({}) /\ Len(made') = 0
        BY <3>1
      <3>4. IsSeq(aux1') /\ IsSeq(made')
        BY <3>2, <3>3 DEF IsSeq
      <3>5. Sampled'
        BY <1>0, <3>2, <3>3, <3>4 DEF Sampled, P!BaseLabels
      <3>6. Visited' = 0 /\ IsSeq(todo') /\ Len(todo') = Len(rs) /\ Len(rs) \in Nat
        BY <1>0, <3>1 DEF Visited, IsSeq
      <3>7. P!Rank(0)' = 0
        BY <1>0, RankFacts
      <3> QED BY <1>0, <2>1, <3>1, <3>3, <3>5, <3>6, <3>7 DEF Telemetry
    <2>2. CASE ~(given.kind = "telemetry" /\ status' = "running")
      BY <1>0, <1>1, <2>2 DEF P!Unmarshal, Telemetry
    <2> QED BY <2>1, <2>2
  <1>2. CASE P!Reading
    <2> DEFINE v == Visited
    <2>1. /\ given.kind = "telemetry" /\ status = "running" /\ status' = "running" /\ todo # <<>>
          /\ todo' = Tail(todo) /\ rs \in Seq(Reading) /\ Len(rs) \in Nat
      BY <1>0, <1>2, <1>00 DEF P!Reading
    <2>2. PICK E : todo \in Seq(E)
      BY <2>1 DEF Telemetry, IsSeq
    <2>3. /\ Len(todo) \in Nat /\ Len(todo) > 0 /\ Head(todo) = todo[1]
          /\ todo' \in Seq(E) /\ Len(todo') = Len(todo) - 1
          /\ \A j \in 1..Len(todo') : todo'[j] = todo[j + 1]
      BY <2>1, <2>2, HeadTailProperties
    <2>4. v \in Nat /\ Visited' = v + 1 /\ v + 1 <= Len(rs)
      BY <1>0, <2>1, <2>3 DEF Visited, Telemetry
    <2>5. Head(todo) = rs[v + 1]
      BY <2>1, <2>3, <2>4 DEF Telemetry
    <2>6. \A j \in 1..Len(todo') : todo'[j] = rs[v + 1 + j]
      BY <2>1, <2>3, <2>4 DEF Telemetry
    <2> HIDE DEF v
    <2>7. /\ P!Rank(v) \in Nat
          /\ P!Rank(v + 1) = P!Rank(v) + (IF P!Numeric(rs[v + 1].value) THEN 1 ELSE 0)
          /\ Len(made) = P!Rank(v) /\ Sampled
      BY <2>1, <2>4, RankFacts DEF Telemetry, v
    <2>a. ASSUME NEW j \in 1..v, P!Numeric(rs[j].value) PROVE P!Rank(j) \in 1..P!Rank(v)
      <3>0. j \in Nat /\ j \in 0..v
        BY <2>4
      <3>1. P!Rank(j) <= P!Rank(v) /\ P!Rank(j) \in Nat
        <4>1. P!Rank(j) \in Nat
          BY <3>0, RankFacts
        <4>2. \A i \in 0..v : P!Rank(i) <= P!Rank(v)
          BY <2>4, RankFacts
        <4> QED BY <3>0, <4>1, <4>2
      <3>2. P!Rank(0) < P!Rank(j) /\ P!Rank(0) = 0
        BY <2>4, <2>a, RankFacts
      <3> QED BY <2>7, <3>1, <3>2
    <2>8. CASE P!Numeric(rs[v + 1].value)
      <3>1. \E name : P!AddSample(name, P!toFloat64(rs[v + 1].value), P!UnitLabel(rs[v + 1]))
        BY <1>2, <2>5, <2>8 DEF P!Reading
      <3>2. /\ Sampled'
            /\ Len(made) \in Nat /\ Len(made') = Len(made) + 1
            /\ \A i \in 1..Len(made) : made'[i] = made[i] /\ aux1'[i + 1] = aux1[i + 1]
            /\ made'[Len(made) + 1].value = P!toFloat64(rs[v + 1].value)
            /\ aux1'[Len(made) + 2] = P!Extended(P!BaseLabels(given), P!UnitLabel(rs[v + 1]))
        BY <1>0, <2>7, <3>1, SampledKept
      <3>3. Len(made') = P!Rank(v + 1)
        BY <2>7, <2>8, <3>2
      <3>4. ASSUME NEW j \in 1..(v + 1), P!Numeric(rs[j].value) PROVE SampleOf(j)'
        <4>1. CASE j = v + 1
          <5>1. P!Rank(j) = Len(made) + 1 /\ P!Rank(j) + 1 = Len(made) + 2
            BY <2>7, <2>8, <3>2, <4>1
          <5> QED BY <1>0, <3>2, <4>1, <5>1 DEF SampleOf, P!BaseLabels, P!Extended, P!UnitLabel
        <4>2. CASE j # v + 1
          <5>1. j \in 1..v
            BY <2>4, <4>2
          <5>2. P!Rank(j) \in 1..Len(made) /\ SampleOf(j)
            BY <2>1, <2>7, <2>a, <3>4, <5>1 DEF Telemetry, v
          <5>3. made'[P!Rank(j)] = made[P!Rank(j)] /\ aux1'[P!Rank(j) + 1] = aux1[P!Rank(j) + 1]
            BY <3>2, <5>2
          <5> QED BY <1>0, <5>2, <5>3 DEF SampleOf
        <4> QED BY <4>1, <4>2
      <3> QED BY <1>0, <2>1, <2>3, <2>4, <2>6, <3>2, <3>3, <3>4 DEF Telemetry, IsSeq
    <2>9. CASE ~P!Numeric(rs[v + 1].value)
      <3>1. made' = made /\ aux1' = aux1
        BY <1>2, <2>5, <2>9 DEF P!Reading
      <3>2. Sampled'
        BY <1>0, <2>7, <3>1 DEF Sampled, IsSeq, P!BaseLabels
      <3>3. Len(made') = P!Rank(v + 1)
        BY <2>7, <2>9, <3>1
      <3>4. ASSUME NEW j \in 1..(v + 1), P!Numeric(rs[j].value) PROVE SampleOf(j)'
        <4>1. j \in 1..v
          BY <2>4, <2>9, <3>4
        <4>2. SampleOf(j)
          BY <2>1, <3>4, <4>1 DEF Telemetry, v
        <4> QED BY <1>0, <3>1, <4>2 DEF SampleOf
      <3> QED BY <1>0, <2>1, <2>3, <2>4, <2>6, <3>2, <3>3, <3>4 DEF Telemetry, IsSeq
    <2> QED BY <2>8, <2>9
  <1>3. CASE P!Rollup \/ P!Component
    BY <1>0, <1>3 DEF P!Rollup, P!Component, Telemetry
  <1>4. CASE P!MakeEntry
    BY <1>0, <1>4 DEF P!MakeEntry, P!Logs, Telemetry
  <1>5. CASE P!Return
    <2>1. status = "running" /\ status' = "parsed" /\ UNCHANGED <<given, aux1, todo, made>>
          /\ (given.kind = "telemetry" => todo = <<>>)
      BY <1>5 DEF P!Return
    <2>2. (Sampled <=> Sampled') /\ Visited' = Visited /\ (\A j : SampleOf(j)' <=> SampleOf(j))
      BY <1>0, <2>1 DEF Sampled, Visited, SampleOf, IsSeq, P!BaseLabels
    <2> QED BY <1>0, <2>1, <2>2 DEF Telemetry, IsSeq
  <1> QED BY <1>1, <1>2, <1>3, <1>4, <1>5 DEF P!Next

(* parseTelemetry's samples are the numeric readings of the message, in their
   order, each with its own value and unit and with the device's labels: the
   loop copies baseLabels for each of them.  This holds for every message whose
   readings are a list. *)
THEOREM SamplesKeepTheirReadings ==
  ASSUME NEW Reading, \A m \in Messages : m.kind = "telemetry" => m.readings \in Seq(Reading)
  PROVE  Spec => []ReadingsKeepTheirLabels
  <1>1. P!Init => Telemetry
    BY DEF P!Init, Telemetry
  <1>2. Telemetry /\ [P!Next]_P!vars => Telemetry'
    <2> SUFFICES ASSUME Telemetry, [P!Next]_P!vars PROVE Telemetry'
      OBVIOUS
    <2>1. CASE UNCHANGED P!vars
      <3>1. UNCHANGED <<given, todo, made, status, aux1>>
        BY <2>1 DEF P!vars
      <3>2. \A k : P!Rank(k)' = P!Rank(k)
        BY <3>1 DEF P!Rank, P!Numeric
      <3>3. (Sampled <=> Sampled') /\ Visited' = Visited /\ (\A j : SampleOf(j)' <=> SampleOf(j))
        BY <3>1, <3>2 DEF Sampled, Visited, SampleOf, IsSeq, P!BaseLabels
      <3> QED BY <3>1, <3>2, <3>3 DEF Telemetry, IsSeq
    <2> QED BY <2>1, TelemetryStep
  <1>3. Telemetry => P!ReadingsKeepTheirLabels
    <2> SUFFICES ASSUME Telemetry, given.kind = "telemetry" PROVE P!ReadingsKeepTheirLabels
      BY DEF P!ReadingsKeepTheirLabels
    <2> DEFINE rs == given.readings
               n == Len(given.readings)
    <2>0. rs \in Seq(Reading) /\ n \in Nat /\ DOMAIN rs = 1..n
      BY DEF Telemetry
    <2>1. \A k \in Nat : /\ P!Rank(k) \in Nat
                         /\ \A j \in 0..k : P!Rank(j) <= P!Rank(k)
                         /\ \A j \in 0..(k - 1) : P!Numeric(rs[k].value) => P!Rank(j) < P!Rank(k)
      BY RankFacts
    <2>2. P!Rank(0) = 0
      BY RankFacts
    <2>3. CASE status \in {"start", "error"}
      <3>1. Len(made) = 0
        BY <2>3 DEF Telemetry
      <3>2. ASSUME NEW k \in DOMAIN rs, P!Numeric(rs[k].value) PROVE ~(P!Rank(k) <= Len(made))
        BY <2>0, <2>1, <2>2, <3>1, <3>2
      <3>3. Len(made) <= P!Rank(n)
        BY <2>0, <2>1, <3>1
      <3> QED BY <2>3, <3>2, <3>3 DEF P!ReadingsKeepTheirLabels
    <2>4. CASE status \in {"running", "parsed"}
      <3> DEFINE v == Visited
      <3>0. \A E : \A s \in Seq(E) : Len(s) \in Nat
        OBVIOUS
      <3>1. Len(todo) \in Nat /\ (status = "parsed" => Len(todo) = 0)
        BY <2>4, <3>0 DEF Telemetry, IsSeq
      <3>2. v \in 0..n /\ Len(made) = P!Rank(v) /\ (status = "parsed" => v = n)
        BY <2>0, <2>4, <3>1 DEF Telemetry, Visited
      <3> HIDE DEF v
      <3>3. Len(made) <= P!Rank(n)
        BY <2>0, <2>1, <3>2
      <3>4. ASSUME NEW k \in DOMAIN rs, P!Numeric(rs[k].value), P!Rank(k) <= Len(made)
            PROVE  /\ made[P!Rank(k)].value = P!toFloat64(rs[k].value)
                   /\ P!Labels(made[P!Rank(k)]) = P!Extended(P!BaseLabels(given), P!UnitLabel(rs[k]))
        <4>1. k \in 1..v
          <5>1. k \in Nat /\ k > 0 /\ v \in Nat
            BY <2>0, <3>2
          <5>2. v \in 0..(k - 1) => P!Rank(v) < P!Rank(k)
            BY <2>1, <3>4, <5>1
          <5>3. P!Rank(v) \in Nat /\ P!Rank(k) \in Nat
            BY <2>1, <5>1
          <5> QED BY <3>2, <3>4, <5>1, <5>2, <5>3
        <4>2. SampleOf(k)
          BY <2>4, <3>4, <4>1 DEF Telemetry, v
        <4>3. P!Rank(k) \in 1..Len(made)
          <5>1. k \in Nat /\ 0 \in 0..(k - 1)
            BY <2>0
          <5>2. P!Rank(k) \in Nat /\ P!Rank(0) < P!Rank(k)
            BY <2>1, <3>4, <5>1
          <5>3. Len(made) \in Nat
            BY <2>1, <3>2
          <5> QED BY <2>2, <3>4, <5>2, <5>3
        <4>4. made[P!Rank(k)].at = P!Rank(k) + 1
          BY <2>4, <4>3 DEF Telemetry, Sampled
        <4> QED BY <4>2, <4>4 DEF SampleOf, P!Labels
      <3> QED BY <3>2, <3>3, <3>4 DEF P!ReadingsKeepTheirLabels
    <2> QED BY <2>3, <2>4 DEF Telemetry
  <1> DEFINE Inv == part = "Parser" => Telemetry
  <1>4. Init => Inv
    BY <1>1 DEF Init
  <1>5. Inv /\ [Next]_vars => Inv'
    BY <1>2, OtherParts
  <1>6. Inv => ReadingsKeepTheirLabels
    BY <1>3 DEF ReadingsKeepTheirLabels
  <1> QED BY <1>4, <1>5, <1>6, PTL DEF Spec

-----------------------------------------------------------------------------
(* A sample has the status of component c, and its name among the labels. *)
ComponentSampled(c) ==
  \E i \in 1..Len(made) :
    /\ made[i].value = given.components[c]
    /\ aux1[i + 1] = P!Extended(P!BaseLabels(given), [component |-> c])

(* The device's two statuses come first, under its own labels, and every
   component visited has its sample. *)
Health ==
  /\ given \in Messages
  /\ status \in {"start", "running", "parsed", "error"}
  /\ status \in {"start", "error"} => made = <<>>
  /\ given.kind = "health" /\ status \in {"running", "parsed"} =>
       /\ Sampled
       /\ todo \subseteq DOMAIN given.components
       /\ \A i \in 1..Len(made) : i <= 2 => aux1[i + 1] = P!BaseLabels(given)
       /\ Len(made) < 2 => todo = DOMAIN given.components
       /\ Len(made) >= 2 => Len(made) = 2 + Cardinality(DOMAIN given.components \ todo)
       /\ \A c \in DOMAIN given.components \ todo : ComponentSampled(c)
       /\ status = "parsed" => Len(made) >= 2 /\ todo = {}

(* A component's sample stays when others are appended. *)
LEMMA ComponentKept ==
  ASSUME given' = given, Len(made) \in Nat, Len(made') \in Nat, Len(made') >= Len(made),
         \A i \in 1..Len(made) : made'[i] = made[i] /\ aux1'[i + 1] = aux1[i + 1],
         NEW c, ComponentSampled(c)
  PROVE  ComponentSampled(c)'
  <1>1. PICK i \in 1..Len(made) : /\ made[i].value = given.components[c]
                                  /\ aux1[i + 1] = P!Extended(P!BaseLabels(given), [component |-> c])
    BY DEF ComponentSampled
  <1>2. i \in 1..Len(made') /\ made'[i] = made[i] /\ aux1'[i + 1] = aux1[i + 1]
    OBVIOUS
  <1> QED BY <1>1, <1>2 DEF ComponentSampled, P!Extended, P!BaseLabels

(* parseHealth keeps that, in whichever order the map is ranged over. *)
LEMMA HealthStep ==
  ASSUME \A m \in Messages : m.kind = "health" => IsFiniteSet(DOMAIN m.components),
         Health, P!Next
  PROVE  Health'
  <1>0. given \in Messages /\ given' = given
    BY DEF Health, P!Next, P!Unmarshal, P!Reading, P!Rollup, P!Component, P!MakeEntry, P!Return
  <1>00. \A E : \A s \in Seq(E) : Len(s) \in Nat
    OBVIOUS
  <1> DEFINE C == DOMAIN given.components
  <1>1. CASE P!Unmarshal
    <2>1. CASE given.kind = "health" /\ status' = "running"
      <3>1. aux1' = <<P!BaseLabels(given)>> /\ todo' = C /\ made' = <<>>
        BY <1>0, <1>1, <2>1 DEF P!Unmarshal, Health
      <3>2. aux1' \in Seq({P!BaseLabels(given)}) /\ Len(aux1') = 1 /\ aux1'[1] = P!BaseLabels(given)
        BY <3>1
      <3>3. made' \in Seq({}) /\ Len(made') = 0
        BY <3>1
      <3>4. IsSeq(aux1') /\ IsSeq(made')
        BY <3>2, <3>3 DEF IsSeq
      <3>5. Sampled'
        BY <1>0, <3>2, <3>3, <3>4 DEF Sampled, P!BaseLabels
      <3> QED BY <1>0, <2>1, <3>1, <3>3, <3>5 DEF Health
    <2>2. CASE ~(given.kind = "health" /\ status' = "running")
      BY <1>0, <1>1, <2>2 DEF P!Unmarshal, Health
    <2> QED BY <2>1, <2>2
  <1>2. CASE P!Rollup
    <2>1. given.kind = "health" /\ status = "running" /\ status' = "running" /\ todo' = todo
          /\ Len(made) < 2 /\ Sampled /\ todo = C
      BY <1>2 DEF P!Rollup, Health
    <2>2. \E name, value : P!AddSample(name, value, <<>>)
      BY <1>2 DEF P!Rollup
    <2>3. /\ Sampled'
          /\ Len(made) \in Nat /\ Len(made') = Len(made) + 1
          /\ \A i \in 1..Len(made) : made'[i] = made[i] /\ aux1'[i + 1] = aux1[i + 1]
          /\ aux1'[Len(made) + 2] = P!Extended(P!BaseLabels(given), <<>>)
      BY <1>0, <2>1, <2>2, SampledKept
    <2>4. aux1'[Len(made) + 2] = P!BaseLabels(given)
      BY <2>3, NothingAdded
    <2>5. \A i \in 1..Len(made') : i <= 2 => aux1'[i + 1] = P!BaseLabels(given)'
      <3> TAKE i \in 1..Len(made')
      <3>1. CASE i = Len(made) + 1
        BY <1>0, <2>3, <2>4, <3>1 DEF P!BaseLabels
      <3>2. CASE i \in 1..Len(made)
        BY <1>0, <2>1, <2>3, <3>2 DEF Health, P!BaseLabels
      <3> QED BY <2>3, <3>1, <3>2
    <2>6. C \ todo' = {} /\ Cardinality({}) = 0
      BY <2>1, FS_EmptySet
    <2>7. Len(made') \in Nat /\ Len(made') <= 2
      BY <2>1, <2>3
    <2>8. Len(made') >= 2 => Len(made') = 2 + Cardinality(C \ todo')
      <3>1. Cardinality(C \ todo') = 0
        BY <2>6
      <3> QED BY <2>7, <3>1
    <2>9. \A c \in C \ todo' : ComponentSampled(c)'
      BY <2>6
    <2>10. todo' \subseteq C /\ (Len(made') < 2 => todo' = C)
      BY <2>1
    <2> HIDE DEF C
    <2> QED BY <1>0, <2>1, <2>3, <2>5, <2>8, <2>9, <2>10 DEF Health, C
  <1>3. CASE P!Component
    <2>1. given.kind = "health" /\ status = "running" /\ status' = "running"
          /\ Len(made) >= 2 /\ Sampled /\ todo \subseteq C
      BY <1>3 DEF P!Component, Health
    <2>2. PICK c \in todo : P!AddSample("component_status", given.components[c], [component |-> c])
                            /\ todo' = todo \ {c}
      BY <1>3 DEF P!Component
    <2>3. /\ Sampled'
          /\ Len(made) \in Nat /\ Len(made') = Len(made) + 1
          /\ \A i \in 1..Len(made) : made'[i] = made[i] /\ aux1'[i + 1] = aux1[i + 1]
          /\ made'[Len(made) + 1].value = given.components[c]
          /\ aux1'[Len(made) + 2] = P!Extended(P!BaseLabels(given), [component |-> c])
      BY <1>0, <2>1, <2>2, SampledKept
    <2>4. \A i \in 1..Len(made') : i <= 2 => aux1'[i + 1] = P!BaseLabels(given)'
      BY <1>0, <2>1, <2>3 DEF Health, P!BaseLabels
    <2>5. C \ todo' = (C \ todo) \cup {c} /\ c \notin C \ todo
      BY <2>1, <2>2
    <2>6. IsFiniteSet(C \ todo)
      <3>1. IsFiniteSet(C) /\ C \ todo \subseteq C
        BY <1>0, <2>1
      <3> QED BY <3>1, FS_Subset
    <2>7. Len(made') = 2 + Cardinality(C \ todo')
      <3>1. Cardinality(C \ todo') = Cardinality(C \ todo) + 1 /\ Cardinality(C \ todo) \in Nat
        BY <2>5, <2>6, FS_AddElement, FS_CardinalityType
      <3>2. Len(made) = 2 + Cardinality(C \ todo)
        BY <2>1 DEF Health
      <3> QED BY <2>3, <3>1, <3>2
    <2>8. ASSUME NEW d \in C \ todo' PROVE ComponentSampled(d)'
      <3>1. CASE d = c
        <4>1. Len(made) + 1 \in 1..Len(made') /\ (Len(made) + 1) + 1 = Len(made) + 2
          BY <2>3
        <4>2. made'[Len(made) + 1].value = given'.components[c]
              /\ aux1'[(Len(made) + 1) + 1] = P!Extended(P!BaseLabels(given), [component |-> c])'
          BY <1>0, <2>3, <4>1 DEF P!Extended, P!BaseLabels
        <4> QED BY <3>1, <4>1, <4>2 DEF ComponentSampled
      <3>2. CASE d # c
        <4>1. d \in C \ todo
          BY <2>5, <3>2
        <4>2. ComponentSampled(d)
          BY <2>1, <4>1 DEF Health
        <4> QED BY <1>0, <2>3, <4>2, ComponentKept
      <3> QED BY <3>1, <3>2
    <2> QED BY <1>0, <2>1, <2>2, <2>3, <2>4, <2>7, <2>8 DEF Health
  <1>4. CASE P!MakeEntry
    BY <1>0, <1>4 DEF P!MakeEntry, P!Logs, Health
  <1>5. CASE P!Reading
    BY <1>0, <1>5 DEF P!Reading, Health
  <1>6. CASE P!Return
    <2>1. status = "running" /\ status' = "parsed" /\ UNCHANGED <<given, aux1, todo, made>>
          /\ (given.kind = "health" => Len(made) >= 2 /\ todo = {})
      BY <1>6 DEF P!Return
    <2>2. (Sampled <=> Sampled') /\ (\A c : ComponentSampled(c) <=> ComponentSampled(c)')
          /\ P!BaseLabels(given)' = P!BaseLabels(given)
      BY <1>0, <2>1 DEF Sampled, ComponentSampled, IsSeq, P!BaseLabels, P!Extended
    <2> QED BY <1>0, <2>1, <2>2 DEF Health
  <1> QED BY <1>1, <1>2, <1>3, <1>4, <1>5, <1>6 DEF P!Next

(* parseHealth makes one sample for each of the device's two statuses and for
   each component, each under its own labels, in whichever order Go ranges over
   the components: for every message whose components are a map. *)
THEOREM SamplesKeepTheirComponents ==
  ASSUME \A m \in Messages : m.kind = "health" => IsFiniteSet(DOMAIN m.components)
  PROVE  Spec => []ComponentsKeepTheirLabels
  <1>1. P!Init => Health
    BY DEF P!Init, Health
  <1>2. Health /\ [P!Next]_P!vars => Health'
    <2> SUFFICES ASSUME Health, [P!Next]_P!vars PROVE Health'
      OBVIOUS
    <2>1. CASE UNCHANGED P!vars
      <3>1. UNCHANGED <<given, todo, made, status, aux1>>
        BY <2>1 DEF P!vars
      <3>2. (Sampled <=> Sampled') /\ (\A c : ComponentSampled(c) <=> ComponentSampled(c)')
            /\ P!BaseLabels(given)' = P!BaseLabels(given)
        BY <3>1 DEF Sampled, ComponentSampled, IsSeq, P!BaseLabels, P!Extended
      <3> QED BY <3>1, <3>2 DEF Health
    <2> QED BY <2>1, HealthStep
  <1>3. Health => P!ComponentsKeepTheirLabels
    <2> SUFFICES ASSUME Health, given.kind = "health", status = "parsed" PROVE P!ComponentsKeepTheirLabels
      BY DEF P!ComponentsKeepTheirLabels
    <2> DEFINE C == DOMAIN given.components
    <2>1. Sampled /\ Len(made) >= 2 /\ todo = {} /\ Len(made) = 2 + Cardinality(C \ todo)
      BY DEF Health
    <2>2. PICK T : made \in Seq(T)
      BY <2>1 DEF Sampled, IsSeq
    <2>3. Len(made) \in Nat /\ DOMAIN made = 1..Len(made)
      BY <2>2
    <2>4. C \ todo = C /\ Len(made) = 2 + P!Cardinality(C)
      BY <2>1, ParserCardinality
    <2>5. \A i \in 1..Len(made) : P!Labels(made[i]) = aux1[i + 1]
      BY <2>1 DEF Sampled, P!Labels
    <2>6. \A s \in {made[1], made[2]} : P!Labels(s) = P!BaseLabels(given)
      <3>1. 1 \in 1..Len(made) /\ 2 \in 1..Len(made)
        BY <2>1, <2>3
      <3>2. aux1[1 + 1] = P!BaseLabels(given) /\ aux1[2 + 1] = P!BaseLabels(given)
        BY <3>1 DEF Health
      <3> QED BY <2>5, <3>1, <3>2
    <2>7. ASSUME NEW c \in C
          PROVE  \E i \in DOMAIN made : /\ made[i].value = given.components[c]
                                        /\ P!Labels(made[i]) = P!Extended(P!BaseLabels(given), [component |-> c])
      <3>1. ComponentSampled(c)
        BY <2>4 DEF Health
      <3> QED BY <2>3, <2>5, <3>1 DEF ComponentSampled
    <2> QED BY <2>4, <2>6, <2>7 DEF P!ComponentsKeepTheirLabels
  <1> DEFINE Inv == part = "Parser" => Health
  <1>4. Init => Inv
    BY <1>1 DEF Init
  <1>5. Inv /\ [Next]_vars => Inv'
    BY <1>2, OtherParts
  <1>6. Inv => ComponentsKeepTheirLabels
    BY <1>3 DEF ComponentsKeepTheirLabels
  <1> QED BY <1>4, <1>5, <1>6, PTL DEF Spec

-----------------------------------------------------------------------------
(* Relabelling engine *)

(* What Prometheus makes of start after each number of rules *)
IsOutcomes(f, n, start, rs) ==
  f = [i \in 0..n |-> IF i = 0 THEN start ELSE R!PromOutcome(f[i - 1], rs[i])]

(* The recursive definition of what Prometheus does is met by a function. *)
LEMMA PrometheusExists ==
  ASSUME NEW n \in Nat, NEW start, NEW rs
  PROVE  \E f : IsOutcomes(f, n, start, rs)
  <1> DEFINE Met(m) == \E f : f = [i \in 0..m |-> IF i = 0 THEN start ELSE R!PromOutcome(f[i - 1], rs[i])]
             Unmet == {m \in Nat : ~Met(m)}
  <1>1. Met(0)
    <2> DEFINE f == [i \in 0..0 |-> start]
               h == [i \in 0..0 |-> IF i = 0 THEN start ELSE R!PromOutcome(f[i - 1], rs[i])]
    <2>1. \A i \in 0..0 : i = 0
      OBVIOUS
    <2>2. f = h
      BY <2>1
    <2> QED BY <2>2
  <1>2. ASSUME NEW m \in Nat, Met(m) PROVE Met(m + 1)
    <2>1. PICK f : f = [i \in 0..m |-> IF i = 0 THEN start ELSE R!PromOutcome(f[i - 1], rs[i])]
      BY <1>2
    <2> DEFINE g == [i \in 0..(m + 1) |-> IF i = m + 1 THEN R!PromOutcome(f[m], rs[m + 1]) ELSE f[i]]
    <2>2. ASSUME NEW i \in 0..(m + 1)
          PROVE  g[i] = IF i = 0 THEN start ELSE R!PromOutcome(g[i - 1], rs[i])
      <3>1. CASE i = m + 1
        <4>1. i # 0 /\ i - 1 = m /\ m \in 0..(m + 1) /\ m # m + 1
          BY <3>1
        <4>2. g[m] = f[m]
          BY <4>1
        <4>3. g[i] = R!PromOutcome(f[m], rs[m + 1])
          BY <3>1
        <4> HIDE DEF g
        <4> QED BY <3>1, <4>1, <4>2, <4>3
      <3>2. CASE i # m + 1
        <4>1. i \in 0..m /\ g[i] = f[i]
          BY <3>2
        <4>2. f[i] = IF i = 0 THEN start ELSE R!PromOutcome(f[i - 1], rs[i])
          BY <2>1, <4>1
        <4>3. i # 0 => g[i - 1] = f[i - 1]
          BY <4>1
        <4> QED BY <4>1, <4>2, <4>3
      <3> QED BY <3>1, <3>2
    <2>3. g = [i \in 0..(m + 1) |-> IF i = 0 THEN start ELSE R!PromOutcome(g[i - 1], rs[i])]
      <3> DEFINE h == [i \in 0..(m + 1) |-> IF i = 0 THEN start ELSE R!PromOutcome(g[i - 1], rs[i])]
      <3>1. \A i \in 0..(m + 1) : g[i] = h[i]
        BY <2>2
      <3>2. DOMAIN g = 0..(m + 1) /\ DOMAIN h = 0..(m + 1)
        OBVIOUS
      <3> QED BY <3>1
    <2> QED BY <2>3
  <1> HIDE DEF Met
  <1>3. Unmet = {}
    <2> SUFFICES ASSUME Unmet # {} PROVE FALSE
      OBVIOUS
    <2>1. Unmet \in SUBSET Nat
      OBVIOUS
    <2>2. PICK m \in Unmet : \A j \in Unmet : m <= j
      BY <2>1, LeastNumber
    <2>3. m \in Nat /\ ~Met(m) /\ m # 0
      BY <1>1
    <2>4. m - 1 \in Nat /\ m - 1 \notin Unmet /\ (m - 1) + 1 = m
      BY <2>2, <2>3
    <2>5. Met((m - 1) + 1)
      BY <1>2, <2>4
    <2> QED BY <2>3, <2>4, <2>5
  <1> QED BY <1>3 DEF Met, IsOutcomes

(* The outcome after i rules is that of the i-th rule on the outcome before it. *)
LEMMA PrometheusUnfolds ==
  ASSUME Len(given.rules) \in Nat
  PROVE  /\ R!Prometheus[0] = R!Outcome("kept", R!Present(R!Merge(given)))
         /\ \A i \in 1..Len(given.rules) :
              R!Prometheus[i] = R!PromOutcome(R!Prometheus[i - 1], given.rules[i])
  <1> DEFINE n == Len(given.rules)
             start == R!Outcome("kept", R!Present(R!Merge(given)))
             rs == given.rules
             A == R!Prometheus
  <1>1. A = CHOOSE f : IsOutcomes(f, n, start, rs)
    BY DEF R!Prometheus, IsOutcomes
  <1>2. \E f : IsOutcomes(f, n, start, rs)
    BY PrometheusExists
  <1>3. A = [i \in 0..n |-> IF i = 0 THEN start ELSE R!PromOutcome(A[i - 1], rs[i])]
    <2>1. IsOutcomes(A, n, start, rs)
      BY <1>1, <1>2
    <2> HIDE DEF A
    <2> QED BY <2>1 DEF IsOutcomes
  <1> HIDE DEF A, start
  <1>4. 0 \in 0..n /\ A[0] = start
    BY <1>3
  <1>5. ASSUME NEW i \in 1..n PROVE A[i] = R!PromOutcome(A[i - 1], given.rules[i])
    <2>1. i \in 0..n /\ i # 0
      OBVIOUS
    <2> QED BY <1>3, <2>1
  <1> QED BY <1>4, <1>5 DEF A, start

(* Once dropped, always. *)
LEMMA DroppedStays ==
  ASSUME Len(given.rules) \in Nat, NEW i \in 0..Len(given.rules), NEW j \in i..Len(given.rules),
         R!Prometheus[i].verdict = "dropped"
  PROVE  R!Prometheus[j] = R!Prometheus[i]
  <1> DEFINE n == Len(given.rules)
             A == R!Prometheus
             Bad == {k \in i..n : A[k] # A[i]}
  <1>1. \A k \in 1..n : A[k] = R!PromOutcome(A[k - 1], given.rules[k])
    BY PrometheusUnfolds
  <1> HIDE DEF A
  <1>2. Bad = {}
    <2> SUFFICES ASSUME Bad # {} PROVE FALSE
      OBVIOUS
    <2>1. Bad \in SUBSET Nat
      OBVIOUS
    <2>2. PICK k \in Bad : \A m \in Bad : k <= m
      BY <2>1, LeastNumber
    <2>3. k \in i..n /\ k # i /\ A[k] # A[i]
      OBVIOUS
    <2>4. k - 1 \in i..n /\ k \in 1..n /\ ~(k <= k - 1)
      BY <2>3
    <2>5. A[k - 1] = A[i]
      BY <2>2, <2>4
    <2>6. A[k] = R!PromOutcome(A[k - 1], given.rules[k])
      BY <1>1, <2>4
    <2>7. A[k] = A[i]
      BY <2>5, <2>6 DEF R!PromOutcome, A
    <2> QED BY <2>3, <2>7
  <1> QED BY <1>2 DEF A

(* A function, as label maps are *)
IsMap(f) == f = [k \in DOMAIN f |-> f[k]]

(* A rule none of whose fields is written down as empty is compiled to what
   Prometheus reads in it. *)
LEMMA CompiledFields ==
  ASSUME NEW l, NEW r, R!MeansTheSame(l, r)
  PROVE  /\ R!Compiled(r).action \in {"replace", ""} => R!Action(r) = "replace"
         /\ R!Compiled(r).action \notin {"replace", ""} => R!Compiled(r).action = R!Action(r)
         /\ R!Compiled(r).source = r.source
         /\ R!Compiled(r).target = r.target
         /\ R!Compiled(r).regex = R!Regex(r)
         /\ R!Compiled(r).replacement = R!Replacement(r)
         /\ R!Compiled(r).separator = R!Separator(r)
  <1>1. ASSUME NEW f, NEW default, f # "" PROVE R!OrDefault(f, default) = R!PromField(f, default)
    BY <1>1 DEF R!OrDefault, R!Field, R!PromField
  <1>2. r.action # "" /\ r.regex # "" /\ r.replacement # "" /\ r.separator # ""
    BY DEF R!MeansTheSame
  <1>3. /\ R!OrDefault(r.regex, R!AnyString) = R!PromField(r.regex, R!AnyString)
        /\ R!OrDefault(r.replacement, R!FirstGroup) = R!PromField(r.replacement, R!FirstGroup)
        /\ R!OrDefault(r.separator, R!Semicolon) = R!PromField(r.separator, R!Semicolon)
    BY <1>1, <1>2
  <1>4. R!Compiled(r).action = R!Field(r.action)
    BY DEF R!Compiled
  <1>5. /\ R!Field(r.action) \in {"replace", ""} => R!Action(r) = "replace"
        /\ R!Field(r.action) \notin {"replace", ""} => R!Field(r.action) = R!Action(r)
    BY <1>2 DEF R!Field, R!Action, R!PromField
  <1> QED BY <1>3, <1>4, <1>5 DEF R!Compiled, R!Regex, R!Replacement, R!Separator

(* Values join alike without the labels that are empty. *)
LEMMA JoinsPresent ==
  ASSUME NEW l, NEW keys, NEW sep
  PROVE  R!joinValues(R!Present(l), keys, sep) = R!joinValues(l, keys, sep)
  <1>1. ASSUME NEW k PROVE R!Get(R!Present(l), k) = R!Get(l, k)
    BY DEF R!Get, R!Present, R!Restrict
  <1> QED BY <1>1 DEF R!joinValues

(* What setting, deleting and restricting do to the labels that are not empty *)
LEMMA PresentAfter ==
  ASSUME NEW l, NEW k, NEW v, NEW T
  PROVE  /\ v # "" => R!Present(R!Set(l, k, v)) = R!Set(R!Present(l), k, v)
         /\ R!Present(R!Delete(l, {k})) = R!Delete(R!Present(l), {k})
         /\ R!Present(R!Restrict(l, T \cap DOMAIN l)) = R!Restrict(R!Present(l), T \cap DOMAIN R!Present(l))
  <1> DEFINE p == R!Present(l)
             Full == {x \in DOMAIN l : l[x] # ""}
  <1>1. p = [x \in Full |-> l[x]] /\ DOMAIN p = Full
    BY DEF R!Present, R!Restrict
  <1>2. \A m : R!Present(m) = [x \in {y \in DOMAIN m : m[y] # ""} |-> m[x]]
    BY DEF R!Present, R!Restrict
  <1>3. \A m : R!Set(m, k, v) = [x \in DOMAIN m \cup {k} |-> IF x = k THEN v ELSE m[x]]
    <2> TAKE m
    <2> DEFINE over == [x \in {k} |-> v]
    <2>1. DOMAIN over = {k} /\ over[k] = v
      OBVIOUS
    <2> HIDE DEF over
    <2>2. R!Override(m, over) = [x \in DOMAIN m \cup {k} |-> IF x \in {k} THEN over[x] ELSE m[x]]
      BY <2>1 DEF R!Override
    <2>3. \A x : (IF x \in {k} THEN over[x] ELSE m[x]) = (IF x = k THEN v ELSE m[x])
      BY <2>1
    <2> QED BY <2>2, <2>3 DEF R!Set, over
  <1> HIDE DEF p
  <1>4. ASSUME v # "" PROVE R!Present(R!Set(l, k, v)) = R!Set(p, k, v)
    <2> DEFINE s == R!Set(l, k, v)
               t == R!Set(p, k, v)
    <2>1. s = [x \in DOMAIN l \cup {k} |-> IF x = k THEN v ELSE l[x]]
      BY <1>3
    <2>2. t = [x \in Full \cup {k} |-> IF x = k THEN v ELSE p[x]]
      <3>1. t = [x \in DOMAIN p \cup {k} |-> IF x = k THEN v ELSE p[x]]
        BY <1>3
      <3> HIDE DEF Full
      <3> QED BY <1>1, <3>1
    <2> HIDE DEF s, t
    <2>3. {y \in DOMAIN s : s[y] # ""} = Full \cup {k}
      BY <1>4, <2>1
    <2>4. R!Present(s) = [x \in Full \cup {k} |-> s[x]]
      BY <1>2, <2>3
    <2>5. \A x \in Full \cup {k} : s[x] = IF x = k THEN v ELSE p[x]
      BY <1>1, <2>1
    <2> QED BY <2>2, <2>4, <2>5 DEF s, t
  <1>5. ASSUME NEW U PROVE R!Present(R!Restrict(l, U \cap DOMAIN l)) = R!Restrict(p, U \cap DOMAIN p)
    <2> DEFINE s == R!Restrict(l, U \cap DOMAIN l)
    <2>1. s = [x \in U \cap DOMAIN l |-> l[x]]
      BY DEF R!Restrict
    <2> HIDE DEF s
    <2>2. {y \in DOMAIN s : s[y] # ""} = U \cap Full
      BY <2>1
    <2>3. R!Present(s) = [x \in U \cap Full |-> s[x]]
      BY <1>2, <2>2
    <2>4. R!Restrict(p, U \cap DOMAIN p) = [x \in U \cap Full |-> p[x]]
      BY <1>1 DEF R!Restrict
    <2>5. \A x \in U \cap Full : s[x] = p[x]
      BY <1>1, <2>1
    <2> QED BY <2>3, <2>4, <2>5 DEF s
  <1>6. R!Present(R!Delete(l, {k})) = R!Delete(p, {k})
    <2> DEFINE U == (DOMAIN l \cup DOMAIN p) \ {k}
    <2>1. U \cap DOMAIN l = DOMAIN l \ {k} /\ U \cap DOMAIN p = DOMAIN p \ {k}
      OBVIOUS
    <2> HIDE DEF U
    <2>2. R!Present(R!Restrict(l, U \cap DOMAIN l)) = R!Restrict(p, U \cap DOMAIN p)
      BY <1>5
    <2> QED BY <2>1, <2>2 DEF R!Delete
  <1> QED BY <1>4, <1>5, <1>6 DEF p

(* The steps that take one rule do to the labels that are not empty what
   Prometheus does, and make no label empty. *)
LEMMA RuleLikePrometheus ==
  ASSUME NEW r, NEW l, l = R!Present(made), R!MeansTheSame(l, r), Head(todo) = R!Compiled(r), IsMap(made)
  PROVE  /\ R!DropOrKeep => /\ made' = made /\ (status' = "dropped" <=> ~R!PromKeeps(l, r))
                            /\ (R!PromKeeps(l, r) => status' = status)
                            /\ R!PromStep(l, r) = l
         /\ R!Replace \/ R!LabelDropOrKeep =>
              /\ R!Present(made') = R!PromStep(l, r) /\ R!PromKeeps(l, r)
              /\ l = made => R!Present(made') = made'
         /\ ~R!Ignored
  <1> DEFINE v == R!Subject(l, r)
  <1>1. /\ R!rule.action \in {"replace", ""} => R!Action(r) = "replace"
        /\ R!rule.action \notin {"replace", ""} => R!rule.action = R!Action(r)
        /\ R!rule.target = r.target /\ R!rule.regex = R!Regex(r)
        /\ R!rule.replacement = R!Replacement(r)
        /\ R!val = v
    <2>1. R!val = R!joinValues(made, r.source, R!Separator(r))
      BY CompiledFields DEF R!rule, R!val
    <2>2. v = R!joinValues(R!Present(made), r.source, R!Separator(r))
      BY DEF R!Subject
    <2>3. R!val = v
      BY <2>1, <2>2, JoinsPresent
    <2> QED BY <2>3, CompiledFields DEF R!rule
  <1>2. R!Match(l, r) <=> MatchString(R!rule.regex, R!val)
    BY <1>1 DEF R!Match
  <1>3. R!DropOrKeep => /\ made' = made /\ (status' = "dropped" <=> ~R!PromKeeps(l, r))
                        /\ (R!PromKeeps(l, r) => status' = status)
                        /\ R!PromStep(l, r) = l
    <2> SUFFICES ASSUME R!DropOrKeep
                 PROVE  /\ made' = made /\ (status' = "dropped" <=> ~R!PromKeeps(l, r))
                        /\ (R!PromKeeps(l, r) => status' = status)
                        /\ R!PromStep(l, r) = l
      OBVIOUS
    <2>1. R!Action(r) \in {"drop", "keep"} /\ R!rule.action = R!Action(r) /\ status = "running" /\ made' = made
      BY <1>1 DEF R!DropOrKeep, R!At
    <2>2. R!Discards(R!Action(r), R!Match(l, r)) <=> ~R!PromKeeps(l, r)
      BY <2>1 DEF R!Discards, R!PromKeeps
    <2>3. R!Discards(R!rule.action, MatchString(R!rule.regex, R!val)) <=> ~R!PromKeeps(l, r)
      BY <1>2, <2>1, <2>2 DEF R!Discards
    <2>4. status' = IF R!PromKeeps(l, r) THEN "running" ELSE "dropped"
      BY <2>1, <2>3 DEF R!DropOrKeep
    <2>5. R!PromStep(l, r) = l
      BY <2>1 DEF R!PromStep
    <2> QED BY <2>1, <2>4, <2>5
  <1>4. ASSUME R!Replace
        PROVE  /\ R!Present(made') = R!PromStep(l, r) /\ R!PromKeeps(l, r)
               /\ l = made => R!Present(made') = made'
    <2>1. R!Action(r) = "replace"
      BY <1>1, <1>4 DEF R!Replace, R!At
    <2> DEFINE new == ReplaceAllString(R!Regex(r), R!Replacement(r), v)
               t == r.target
    <2>2. t # "" /\ R!Expand(l, r, t) = t /\ t \in LabelNames
      BY <2>1 DEF R!MeansTheSame, R!Loads
    <2>3. made' = IF R!Match(l, r) THEN R!Assign(made, t, new) ELSE made
      BY <1>1, <1>2, <1>4, <2>2 DEF R!Replace
    <2>4. R!PromStep(l, r) = IF R!Match(l, r) THEN R!Assign(l, t, new) ELSE l
      BY <2>1, <2>2 DEF R!PromStep, R!PromReplace, R!Assign, R!Expand
    <2> HIDE DEF new, t
    <2>5. R!Present(R!Assign(made, t, new)) = R!Assign(l, t, new)
      BY PresentAfter DEF R!Assign
    <2>6. R!PromKeeps(l, r)
      BY <2>1 DEF R!PromKeeps
    <2>7. R!Present(made') = R!PromStep(l, r)
      BY <2>3, <2>4, <2>5
    <2>8. l = made => R!Present(made') = made'
      BY <2>3, <2>5
    <2> QED BY <2>6, <2>7, <2>8
  <1>5. ASSUME R!LabelDropOrKeep
        PROVE  /\ R!Present(made') = R!PromStep(l, r) /\ R!PromKeeps(l, r)
               /\ l = made => R!Present(made') = made'
    <2>1. R!Action(r) \in {"labeldrop", "labelkeep"} /\ R!rule.action = R!Action(r)
      BY <1>1, <1>5 DEF R!LabelDropOrKeep, R!At
    <2> DEFINE Chosen(m) == {k \in DOMAIN m : MatchString(R!Regex(r), <<k>>) <=> R!Action(r) = "labelkeep"}
    <2>2. made' = R!Restrict(made, Chosen(made))
      BY <1>1, <1>5, <2>1 DEF R!LabelDropOrKeep, R!Matches
    <2>3. R!PromStep(l, r) = R!Restrict(l, Chosen(l))
      <3>1. CASE R!Action(r) = "labeldrop"
        <4>1. Chosen(l) = DOMAIN l \ R!Hits(l, r)
          BY <3>1 DEF R!Hits
        <4> HIDE DEF Chosen
        <4> QED BY <3>1, <4>1 DEF R!PromStep, R!Delete
      <3>2. CASE R!Action(r) = "labelkeep"
        <4>1. Chosen(l) = R!Hits(l, r)
          BY <3>2 DEF R!Hits
        <4> HIDE DEF Chosen
        <4> QED BY <3>2, <4>1 DEF R!PromStep
      <3> QED BY <2>1, <3>1, <3>2
    <2>4. DOMAIN l \subseteq DOMAIN made
      BY DEF R!Present, R!Restrict
    <2>5. Chosen(made) = Chosen(made) \cap DOMAIN made /\ Chosen(l) = Chosen(made) \cap DOMAIN l
      BY <2>4
    <2> HIDE DEF Chosen
    <2>6. R!Present(made') = R!Restrict(l, Chosen(l))
      BY <2>2, <2>5, PresentAfter
    <2>7. R!PromKeeps(l, r)
      BY <2>1 DEF R!PromKeeps
    <2> QED BY <2>2, <2>3, <2>6, <2>7
  <1>6. ~R!Ignored
    <2>1. R!Action(r) \in {"drop", "keep", "replace", "labelmap", "labeldrop", "labelkeep"}
      BY DEF R!MeansTheSame, R!Loads
    <2> QED BY <1>1, <2>1 DEF R!Ignored
  <1> QED BY <1>3, <1>4, <1>5, <1>6

(* labelmap's loop has mapped the labels that matched and are not ahead: the
   labels it started with are there, except where a mapped one has the name. *)
Ranging(l, r, labels, ahead, fresh) ==
  /\ ahead \subseteq DOMAIN l
  /\ IsMap(labels) /\ DOMAIN labels = DOMAIN l \cup {R!Image(r, k) : k \in R!Hits(l, r) \ ahead}
  /\ \A k \in R!Hits(l, r) \ ahead : labels[R!Image(r, k)] = l[k]
  /\ \A x \in DOMAIN l : (\A k \in R!Hits(l, r) \ ahead : R!Image(r, k) # x) => labels[x] = l[x]
  /\ fresh \subseteq {R!Image(r, k) : k \in R!Hits(l, r) \ ahead}

(* Before the first turn of labelmap's loop nothing is mapped. *)
LEMMA RangingStarts ==
  ASSUME NEW l, NEW r, IsMap(l)
  PROVE  Ranging(l, r, l, DOMAIN l, {})
  <1>1. R!Hits(l, r) \ DOMAIN l = {}
    BY DEF R!Hits
  <1> QED BY <1>1 DEF Ranging

(* In any order of the keys, one that the loop has inserted included *)
LEMMA RangingGoesOn ==
  ASSUME NEW l, NEW r, R!MeansTheSame(l, r), R!Action(r) = "labelmap", Head(todo) = R!Compiled(r),
         Ranging(l, r, made, aux2, aux3), R!LabelmapVisit
  PROVE  Ranging(l, r, made', aux2', aux3')
  <1> DEFINE hits == R!Hits(l, r)
             Im(k) == R!Image(r, k)
  <1>1. /\ \A k \in hits : ~MatchString(R!Regex(r), <<Im(k)>>)
        /\ \A k, j \in hits : Im(j) = Im(k) => j = k
    BY DEF R!MeansTheSame, R!OneToOne
  <1>2. \A k : /\ R!Matches(k) <=> MatchString(R!Regex(r), <<k>>)
               /\ ReplaceAllString(R!rule.regex, R!rule.replacement, <<k>>) = Im(k)
    BY CompiledFields DEF R!Matches, R!rule, R!Image
  <1>3. PICK k \in aux2 \cup aux3 :
          /\ aux2' = aux2 \ {k}
          /\ IF R!Matches(k)
             THEN /\ made' = R!Set(made, Im(k), made[k])
                  /\ aux3' = (aux3 \cup ({Im(k)} \ DOMAIN made)) \ {k}
             ELSE made' = made /\ aux3' = aux3 \ {k}
    BY <1>2 DEF R!LabelmapVisit
  <1>4. hits = {x \in DOMAIN l : MatchString(R!Regex(r), <<x>>)}
    BY DEF R!Hits
  <1>5. CASE R!Matches(k)
    <2>1. k \in hits /\ k \in aux2
      <3>1. k \notin aux3
        BY <1>1, <1>2, <1>5 DEF Ranging
      <3> QED BY <1>2, <1>3, <1>4, <1>5, <3>1 DEF Ranging
    <2>2. hits \ aux2' = (hits \ aux2) \cup {k}
      BY <1>3, <2>1
    <2>3. made[k] = l[k]
      <3>1. \A j \in hits \ aux2 : Im(j) # k
        BY <1>1, <1>2, <1>5
      <3> QED BY <1>4, <2>1, <3>1 DEF Ranging
    <2>4. /\ DOMAIN made' = DOMAIN made \cup {Im(k)} /\ made'[Im(k)] = l[k] /\ IsMap(made')
          /\ \A x \in DOMAIN made : x # Im(k) => made'[x] = made[x]
      <3>1. made' = [x \in DOMAIN made \cup {Im(k)} |-> IF x = Im(k) THEN l[k] ELSE made[x]]
        <4>1. made' = R!Override(made, [x \in {Im(k)} |-> l[k]])
          BY <1>3, <1>5, <2>3 DEF R!Set
        <4> DEFINE y == Im(k)
                   z == l[k]
        <4> HIDE DEF y, z
        <4>2. R!Override(made, [x \in {y} |-> z]) = [x \in DOMAIN made \cup {y} |-> IF x = y THEN z ELSE made[x]]
          BY DEF R!Override
        <4> QED BY <4>1, <4>2 DEF y, z
      <3> QED BY <3>1 DEF IsMap
    <2>5. {Im(j) : j \in hits \ aux2'} = {Im(j) : j \in hits \ aux2} \cup {Im(k)}
      BY <2>2
    <2>6. DOMAIN made' = DOMAIN l \cup {Im(j) : j \in hits \ aux2'}
      BY <2>4, <2>5 DEF Ranging
    <2>7. ASSUME NEW j \in hits \ aux2' PROVE made'[Im(j)] = l[j]
      <3>1. CASE j = k
        BY <2>4, <3>1
      <3>2. CASE j # k
        <4>1. j \in hits \ aux2 /\ j \in hits
          BY <2>2, <3>2
        <4>2. Im(j) # Im(k)
          BY <1>1, <2>1, <3>2, <4>1
        <4>3. Im(j) \in DOMAIN made /\ made[Im(j)] = l[j]
          BY <4>1 DEF Ranging
        <4> QED BY <2>4, <4>2, <4>3
      <3> QED BY <3>1, <3>2
    <2>8. ASSUME NEW x \in DOMAIN l, \A j \in hits \ aux2' : Im(j) # x PROVE made'[x] = l[x]
      <3>1. x # Im(k) /\ \A j \in hits \ aux2 : Im(j) # x
        BY <2>2, <2>8
      <3>2. x \in DOMAIN made /\ made[x] = l[x]
        BY <3>1 DEF Ranging
      <3> QED BY <2>4, <3>1, <3>2
    <2>9. aux3' \subseteq {Im(j) : j \in hits \ aux2'}
      BY <1>3, <1>5, <2>5 DEF Ranging
    <2> QED BY <1>3, <2>4, <2>6, <2>7, <2>8, <2>9 DEF Ranging
  <1>6. CASE ~R!Matches(k)
    <2>1. hits \ aux2' = hits \ aux2
      BY <1>2, <1>3, <1>4, <1>6
    <2> QED BY <1>3, <1>6, <2>1 DEF Ranging
  <1> QED BY <1>5, <1>6

(* After the last turn the labels are those of Prometheus' labelmap. *)
LEMMA RangingEnds ==
  ASSUME NEW l, NEW r, R!MeansTheSame(l, r), R!Action(r) = "labelmap", NEW labels, NEW fresh,
         Ranging(l, r, labels, {}, fresh), R!Present(l) = l
  PROVE  labels = R!PromStep(l, r) /\ R!PromKeeps(l, r) /\ R!Present(labels) = labels
  <1> DEFINE hits == R!Hits(l, r)
             Im(k) == R!Image(r, k)
             names == {Im(k) : k \in hits}
             f == R!Mapped(l, r)
             g == R!Override(l, f)
  <1>1. \A k, j \in hits : Im(j) = Im(k) => j = k
    BY DEF R!MeansTheSame, R!OneToOne
  <1>2. DOMAIN f = names /\ \A k \in hits : f[Im(k)] = l[k]
    <2>1. f = [x \in names |-> l[CHOOSE k \in hits : Im(k) = x]]
      BY DEF R!Mapped
    <2>2. ASSUME NEW k \in hits PROVE (CHOOSE j \in hits : Im(j) = Im(k)) = k
      BY <1>1
    <2>3. ASSUME NEW k \in hits PROVE f[Im(k)] = l[k]
      <3>1. Im(k) \in names
        OBVIOUS
      <3>2. f[Im(k)] = l[CHOOSE j \in hits : Im(j) = Im(k)]
        BY <2>1, <3>1
      <3> QED BY <2>2, <3>2
    <2> QED BY <2>1, <2>3
  <1>3. hits \ {} = hits
    OBVIOUS
  <1>4. /\ IsMap(labels) /\ DOMAIN labels = DOMAIN l \cup names
        /\ \A k \in hits : labels[Im(k)] = l[k]
        /\ \A x \in DOMAIN l : (\A k \in hits : Im(k) # x) => labels[x] = l[x]
    BY <1>3 DEF Ranging
  <1>5. g = [x \in DOMAIN l \cup DOMAIN f |-> IF x \in DOMAIN f THEN f[x] ELSE l[x]]
    BY DEF R!Override
  <1> HIDE DEF f, g
  <1>6. ASSUME NEW x \in DOMAIN labels PROVE labels[x] = g[x]
    <2>1. CASE x \in names
      <3>1. PICK k \in hits : x = Im(k)
        BY <2>1
      <3> QED BY <1>2, <1>4, <1>5, <2>1, <3>1
    <2>2. CASE x \notin names
      <3>1. x \in DOMAIN l /\ \A k \in hits : Im(k) # x
        BY <1>4, <2>2
      <3> QED BY <1>2, <1>4, <1>5, <2>2, <3>1
    <2> QED BY <2>1, <2>2
  <1>7. labels = g
    <2>1. DOMAIN g = DOMAIN labels /\ g = [x \in DOMAIN g |-> g[x]]
      BY <1>2, <1>4, <1>5
    <2> QED BY <1>4, <1>6, <2>1 DEF IsMap
  <1>8. \A x \in DOMAIN labels : labels[x] # ""
    <2>1. \A x \in DOMAIN l : l[x] # ""
      BY DEF R!Present, R!Restrict
    <2>2. hits \subseteq DOMAIN l
      BY DEF R!Hits
    <2> QED BY <1>4, <2>1, <2>2
  <1>9. R!Present(labels) = labels
    <2>1. {x \in DOMAIN labels : labels[x] # ""} = DOMAIN labels
      BY <1>8
    <2>2. R!Present(labels) = R!Restrict(labels, DOMAIN labels)
      BY <2>1, Zenon DEF R!Present
    <2> QED BY <1>4, <2>2 DEF IsMap, R!Restrict
  <1> QED BY <1>7, <1>9 DEF f, g, R!PromStep, R!PromKeeps

(* Rules that Apply is done with *)
Applied == Len(given.rules) - Len(todo)

(* The labels are the ones that Prometheus has by now, and none of them is
   empty if a labelmap may look at it. *)
Alike(prom) ==
  /\ prom.verdict = "kept" /\ R!Present(made) = prom.labels
  /\ R!Labelmaps => R!Present(made) = made

(* In the middle of labelmap's loop, too *)
RangingAlike(prom, r) ==
  /\ prom.verdict = "kept" /\ R!Action(r) = "labelmap"
  /\ Ranging(prom.labels, r, made, aux2, aux3) /\ R!Present(prom.labels) = prom.labels

(* Apply has done what Prometheus would have done with the rules so far, if they
   mean the same to both; a kept series has been through all of them, and a
   dropped one is dropped by Prometheus as well. *)
Applying ==
  /\ given \in Cases
  /\ IsSeq(todo) /\ Len(todo) <= Len(given.rules)
  /\ \A j \in 1..Len(todo) : todo[j] = R!Compiled(given.rules[Applied + j])
  /\ IsMap(made)
  /\ status \in {"running", "kept", "dropped"} /\ aux1 \in BOOLEAN
  /\ status = "running" /\ aux1 = FALSE /\ R!Comparable(Applied) => Alike(R!Prometheus[Applied])
  /\ aux1 = TRUE =>
       /\ status = "running" /\ todo # <<>>
       /\ R!Comparable(Applied + 1) => RangingAlike(R!Prometheus[Applied], given.rules[Applied + 1])
  /\ status = "kept" /\ R!Comparable(Len(given.rules)) => Alike(R!Prometheus[Len(given.rules)])
  /\ status = "dropped" /\ R!Comparable(Len(given.rules)) => R!Prometheus[Len(given.rules)].verdict = "dropped"

(* What is comparable up to a rule was so up to an earlier one. *)
LEMMA ComparableBefore ==
  ASSUME NEW n \in Nat, NEW m \in 0..n, R!Comparable(n)
  PROVE  R!Comparable(m)
  <1>1. 1..m \subseteq 1..n
    OBVIOUS
  <1> QED BY <1>1 DEF R!Comparable

(* What Prometheus does with a rule to labels that it has not dropped *)
LEMMA NextOutcome ==
  ASSUME NEW b, NEW r, b.verdict = "kept"
  PROVE  /\ R!PromOutcome(b, r).labels = R!PromStep(b.labels, r)
         /\ R!PromOutcome(b, r).verdict = IF R!PromKeeps(b.labels, r) THEN "kept" ELSE "dropped"
  <1> HIDE DEF R!PromKeeps
  <1> QED BY DEF R!PromOutcome, R!Outcome

(* Each step of Apply keeps that. *)
LEMMA ApplyingStep ==
  ASSUME NEW Rule, \A c \in Cases : c.rules \in Seq(Rule), Applying, R!Next
  PROVE  Applying'
  <1> DEFINE n == Len(given.rules)
             d == Applied
             A == R!Prometheus
             C(i) == R!Comparable(i)
             r == given.rules[d + 1]
  <1>1. given' = given /\ given \in Cases /\ n \in Nat
    <2>1. given' = given
      BY DEF R!Next, R!DropOrKeep, R!Replace, R!LabelDropOrKeep, R!Ignored, R!Return,
             R!LabelmapStart, R!LabelmapVisit, R!LabelmapEnd
    <2> QED BY <2>1 DEF Applying
  <1>2. R!Prometheus' = A /\ R!Labelmaps' = R!Labelmaps /\ (\A i : R!Comparable(i)' = C(i))
    <2>1. R!Prometheus' = A
      BY <1>1 DEF R!Prometheus, R!PromOutcome, R!Outcome, R!Merge
    <2>2. R!Labelmaps' = R!Labelmaps /\ R!EmptyHarmless' = R!EmptyHarmless
      BY <1>1 DEF R!Labelmaps, R!EmptyHarmless, R!Merge
    <2> QED BY <1>1, <2>1, <2>2 DEF R!Comparable
  <1>3. PICK E : todo \in Seq(E)
    BY DEF Applying, IsSeq
  <1>4. Len(todo) \in Nat /\ d \in 0..n /\ (todo = <<>> => d = n)
    BY <1>1, <1>3 DEF Applying, Applied
  <1>5. ASSUME todo # <<>>
        PROVE  /\ d + 1 \in 1..n /\ (d + 1) - 1 = d /\ A[d + 1] = R!PromOutcome(A[d], r)
               /\ Head(todo) = R!Compiled(r)
    <2>1. Len(todo) > 0 /\ Head(todo) = todo[1] /\ Len(todo) <= n
      BY <1>3, <1>5 DEF Applying
    <2>2. d + 1 \in 1..n /\ (d + 1) - 1 = d
      BY <1>1, <1>4, <2>1 DEF Applied
    <2>3. A[d + 1] = R!PromOutcome(A[d], r)
      <3> DEFINE m == d + 1
      <3>1. m \in 1..n /\ m - 1 = d
        BY <2>2
      <3>2. \A i \in 1..n : A[i] = R!PromOutcome(A[i - 1], given.rules[i])
        BY <1>1, PrometheusUnfolds
      <3> HIDE DEF A, m, d
      <3>3. A[m] = R!PromOutcome(A[m - 1], given.rules[m])
        BY <3>1, <3>2
      <3> QED BY <3>1, <3>3 DEF m
    <2> QED BY <1>4, <2>1, <2>2, <2>3 DEF Applying
  <1>6. ASSUME todo # <<>>, todo' = Tail(todo)
        PROVE  /\ IsSeq(todo') /\ Len(todo') <= n /\ Applied' = d + 1
               /\ \A j \in 1..Len(todo') : todo'[j] = R!Compiled(given.rules[d + 1 + j])
    <2>1. /\ todo' \in Seq(E) /\ Len(todo') = Len(todo) - 1 /\ Len(todo) > 0
          /\ \A j \in 1..Len(todo') : todo'[j] = todo[j + 1]
      BY <1>3, <1>6, HeadTailProperties
    <2>2. Applied' = d + 1 /\ Len(todo') <= n
      BY <1>1, <1>4, <2>1 DEF Applied, Applying
    <2>3. \A j \in 1..Len(todo') : todo'[j] = R!Compiled(given.rules[d + 1 + j])
      <3> TAKE j \in 1..Len(todo')
      <3>1. j + 1 \in 1..Len(todo) /\ d + (j + 1) = d + 1 + j
        BY <1>4, <2>1
      <3>2. todo[j + 1] = R!Compiled(given.rules[d + (j + 1)])
        BY <3>1 DEF Applying
      <3> QED BY <2>1, <3>1, <3>2
    <2> QED BY <2>1, <2>2, <2>3 DEF IsSeq
  <1> HIDE DEF A, C, d, r
  <1>7. ASSUME todo # <<>>, todo' = Tail(todo), status = "running", status' = "running", aux1' = FALSE,
               IsMap(made'), C(d + 1) => /\ A[d + 1].verdict = "kept" /\ R!Present(made') = A[d + 1].labels
                                         /\ R!Labelmaps => R!Present(made') = made'
        PROVE  Applying'
    BY <1>1, <1>2, <1>6, <1>7 DEF Applying, Alike
  <1>8. ASSUME todo # <<>>, C(d + 1), A[d].verdict = "kept"
        PROVE  /\ C(d) /\ R!MeansTheSame(A[d].labels, r)
               /\ A[d + 1].labels = R!PromStep(A[d].labels, r)
               /\ A[d + 1].verdict = IF R!PromKeeps(A[d].labels, r) THEN "kept" ELSE "dropped"
    <2>1. A[d + 1] = R!PromOutcome(A[d], r) /\ d + 1 \in 1..(d + 1) /\ (d + 1) - 1 = d
      BY <1>4, <1>5, <1>8
    <2>2. C(d)
      BY <1>4, <1>8, ComparableBefore DEF C
    <2>3. R!MeansTheSame(A[d].labels, r)
      <3> DEFINE m == d + 1
      <3>1. m \in 1..m /\ m - 1 = d /\ R!Comparable(m) /\ r = given.rules[m]
        BY <1>8, <2>1 DEF C, r
      <3> HIDE DEF m
      <3>2. A[m - 1].verdict = "kept" => R!MeansTheSame(A[m - 1].labels, given.rules[m])
        BY <3>1 DEF R!Comparable, A
      <3> QED BY <1>8, <3>1, <3>2
    <2> QED BY <1>8, <2>1, <2>2, <2>3, NextOutcome
  <1>9. ASSUME todo # <<>>, status = "running", aux1 = FALSE, C(d + 1)
        PROVE  Alike(A[d])
    BY <1>4, <1>9, ComparableBefore DEF Applying, A, C, d
  <1>10. CASE R!DropOrKeep
    <2>1. todo # <<>> /\ status = "running" /\ aux1 = FALSE /\ made' = made /\ aux1' = aux1
      BY <1>10 DEF R!DropOrKeep, R!At, Applying
    <2>2. ASSUME C(d + 1)
          PROVE  /\ A[d + 1].labels = R!Present(made) /\ (R!Labelmaps => R!Present(made) = made)
                 /\ A[d + 1].verdict = IF status' = "dropped" THEN "dropped" ELSE "kept"
      <3>1. Alike(A[d])
        BY <1>9, <2>1, <2>2
      <3>2. /\ R!MeansTheSame(A[d].labels, r) /\ A[d + 1].labels = R!PromStep(A[d].labels, r)
            /\ A[d + 1].verdict = IF R!PromKeeps(A[d].labels, r) THEN "kept" ELSE "dropped"
        BY <1>8, <2>1, <2>2, <3>1 DEF Alike
      <3>3. /\ status' = "dropped" <=> ~R!PromKeeps(A[d].labels, r)
            /\ R!PromStep(A[d].labels, r) = A[d].labels
        BY <1>5, <1>10, <2>1, <3>1, <3>2, RuleLikePrometheus DEF Alike, Applying
      <3> QED BY <3>1, <3>2, <3>3 DEF Alike
    <2>3. CASE status' = "dropped"
      <3>1. todo' = todo
        BY <1>10, <2>1, <2>3 DEF R!DropOrKeep
      <3>2. d + 1 \in 0..n /\ n \in (d + 1)..n
        BY <1>1, <1>5, <2>1
      <3>3. ASSUME C(n) PROVE A[n].verdict = "dropped"
        <4>1. C(d + 1)
          BY <1>1, <3>2, <3>3, ComparableBefore DEF C
        <4>2. A[d + 1].verdict = "dropped"
          BY <2>2, <2>3, <4>1
        <4> QED BY <1>1, <3>2, <4>2, DroppedStays DEF A
      <3>4. Applied' = d
        BY <1>1, <3>1 DEF d, Applied
      <3> QED BY <1>1, <1>2, <2>1, <2>3, <3>1, <3>3, <3>4 DEF Applying, d
    <2>4. CASE status' # "dropped"
      <3>1. todo' = Tail(todo) /\ status' = "running"
        BY <1>10, <2>1, <2>4 DEF R!DropOrKeep, R!NextRule
      <3>2. IsMap(made')
        BY <2>1 DEF Applying
      <3> QED BY <1>7, <2>1, <2>2, <2>4, <3>1, <3>2
    <2> QED BY <2>3, <2>4
  <1>11. CASE R!Replace \/ R!LabelDropOrKeep \/ R!Ignored
    <2>1. todo # <<>> /\ status = "running" /\ aux1 = FALSE /\ todo' = Tail(todo) /\ status' = status /\ aux1' = aux1
      BY <1>11 DEF R!Replace, R!LabelDropOrKeep, R!Ignored, R!At, R!NextRule, Applying
    <2>2. ASSUME C(d + 1)
          PROVE  /\ A[d + 1].verdict = "kept" /\ R!Present(made') = A[d + 1].labels
                 /\ R!Labelmaps => R!Present(made') = made'
      <3>1. Alike(A[d])
        BY <1>9, <2>1, <2>2
      <3>2. /\ R!MeansTheSame(A[d].labels, r) /\ A[d + 1].labels = R!PromStep(A[d].labels, r)
            /\ A[d + 1].verdict = IF R!PromKeeps(A[d].labels, r) THEN "kept" ELSE "dropped"
        BY <1>8, <2>1, <2>2, <3>1 DEF Alike
      <3>3. /\ R!Present(made') = R!PromStep(A[d].labels, r) /\ R!PromKeeps(A[d].labels, r)
            /\ A[d].labels = made => R!Present(made') = made'
        BY <1>5, <1>11, <2>1, <3>1, <3>2, RuleLikePrometheus DEF Alike, Applying
      <3> QED BY <3>1, <3>2, <3>3 DEF Alike
    <2>3. IsMap(made')
      <3>1. IsMap(made)
        BY DEF Applying
      <3>2. CASE R!Replace
        BY <3>1, <3>2 DEF R!Replace, R!Assign, R!Delete, R!Set, R!Override, R!Restrict, IsMap
      <3>3. CASE R!LabelDropOrKeep
        BY <3>3 DEF R!LabelDropOrKeep, R!Restrict, IsMap
      <3>4. CASE R!Ignored
        BY <3>1, <3>4 DEF R!Ignored
      <3> QED BY <1>11, <3>2, <3>3, <3>4
    <2> QED BY <1>7, <2>1, <2>2, <2>3
  <1>12. CASE R!Return
    <2>1. todo = <<>> /\ status = "running" /\ status' = "kept" /\ UNCHANGED <<todo, made, aux1, aux2, aux3>>
      BY <1>12 DEF R!Return
    <2>2. aux1 = FALSE /\ (C(n) => Alike(A[n]))
      BY <1>4, <2>1 DEF Applying, A, C, d
    <2>3. Applied' = d
      BY <1>1, <2>1 DEF d, Applied
    <2> QED BY <1>1, <1>2, <2>1, <2>2, <2>3 DEF Applying, Alike, d
  <1>13. CASE R!LabelmapStart
    <2>1. /\ todo # <<>> /\ status = "running" /\ aux1 = FALSE /\ aux1' = TRUE
          /\ aux2' = DOMAIN made /\ aux3' = {} /\ UNCHANGED <<todo, made, status>>
          /\ Head(todo).action = "labelmap"
      BY <1>13 DEF R!LabelmapStart, R!At, R!rule, Applying
    <2>2. Applied' = d
      BY <1>1, <2>1 DEF d, Applied
    <2>3. ASSUME C(d + 1) PROVE RangingAlike(A[d], r)'
      <3>1. A[d]' = A[d] /\ r' = r
        BY <1>1, <1>2, <2>2 DEF A, d, r
      <3>2. Alike(A[d]) /\ R!MeansTheSame(A[d].labels, r)
        BY <1>8, <1>9, <2>1, <2>3 DEF Alike
      <3>3. R!Action(r) = "labelmap"
        BY <1>5, <2>1, <3>2, CompiledFields
      <3>4. R!Labelmaps
        <4>1. d + 1 \in DOMAIN given.rules
          BY <1>1, <1>5, <2>1
        <4> QED BY <3>3, <4>1 DEF R!Labelmaps, r
      <3>5. made = A[d].labels /\ R!Present(A[d].labels) = A[d].labels
        BY <3>2, <3>4 DEF Alike
      <3>6. Ranging(made, r, made', aux2', aux3')
        BY <2>1, RangingStarts DEF Applying
      <3>7. A[d].verdict = "kept"
        BY <3>2 DEF Alike
      <3>8. Ranging(A[d].labels, r, made', aux2', aux3')
        BY <3>5, <3>6
      <3> QED BY <3>1, <3>3, <3>5, <3>7, <3>8 DEF RangingAlike
    <2> QED BY <1>1, <1>2, <2>1, <2>2, <2>3 DEF Applying, A, C, d, r
  <1>14. CASE R!LabelmapVisit
    <2>1. aux1 = TRUE /\ UNCHANGED <<todo, status, aux1>>
      BY <1>14 DEF R!LabelmapVisit, Applying
    <2>2. Applied' = d /\ todo # <<>> /\ status = "running" /\ (C(d + 1) => RangingAlike(A[d], r))
      BY <1>1, <2>1 DEF d, r, A, C, Applied, Applying
    <2>3. ASSUME C(d + 1) PROVE RangingAlike(A[d], r)'
      <3>1. A[d]' = A[d] /\ r' = r
        BY <1>1, <1>2, <2>2 DEF A, d, r
      <3>2. RangingAlike(A[d], r) /\ R!MeansTheSame(A[d].labels, r)
        BY <1>8, <2>2, <2>3 DEF RangingAlike
      <3>3. Ranging(A[d].labels, r, made', aux2', aux3')
        BY <1>5, <1>14, <2>2, <3>2, RangingGoesOn DEF RangingAlike
      <3> QED BY <3>1, <3>2, <3>3 DEF RangingAlike
    <2>4. IsMap(made')
      <3>1. made' = made \/ \E k, v : made' = R!Set(made, k, v)
        BY <1>14 DEF R!LabelmapVisit
      <3> QED BY <3>1 DEF Applying, R!Set, R!Override, IsMap
    <2> QED BY <1>1, <1>2, <2>1, <2>2, <2>3, <2>4 DEF Applying, A, C, d, r
  <1>15. CASE R!LabelmapEnd
    <2>1. aux1 = TRUE /\ aux1' = FALSE /\ aux2 = {} /\ todo' = Tail(todo) /\ made' = made /\ status' = status
      BY <1>15 DEF R!LabelmapEnd, R!NextRule, Applying
    <2>2. todo # <<>> /\ status = "running" /\ (C(d + 1) => RangingAlike(A[d], r)) /\ IsMap(made)
      BY <2>1 DEF d, r, A, C, Applying
    <2>3. ASSUME C(d + 1)
          PROVE  /\ A[d + 1].verdict = "kept" /\ R!Present(made) = A[d + 1].labels
                 /\ R!Present(made) = made
      <3>1. /\ A[d].verdict = "kept" /\ R!Action(r) = "labelmap"
            /\ Ranging(A[d].labels, r, made, {}, aux3) /\ R!Present(A[d].labels) = A[d].labels
        BY <2>1, <2>2, <2>3 DEF RangingAlike
      <3>2. /\ R!MeansTheSame(A[d].labels, r)
            /\ A[d + 1].labels = R!PromStep(A[d].labels, r)
            /\ A[d + 1].verdict = IF R!PromKeeps(A[d].labels, r) THEN "kept" ELSE "dropped"
        BY <1>8, <2>2, <2>3, <3>1
      <3>3. made = R!PromStep(A[d].labels, r) /\ R!PromKeeps(A[d].labels, r) /\ R!Present(made) = made
        BY <3>1, <3>2, RangingEnds
      <3> QED BY <3>2, <3>3
    <2> QED BY <1>7, <2>1, <2>2, <2>3
  <1> QED BY <1>10, <1>11, <1>12, <1>13, <1>14, <1>15 DEF R!Next

(* Apply gives a series the labels that Prometheus gives it and drops it exactly
   when Prometheus does, for every list of rules of the documented actions that
   mean the same to both: Prometheus loads them, no field is written down as
   empty, target_label has no group in it, and the names that a labelmap makes
   are not mapped again and come from one label each; with a labelmap among
   them, no label to start with is empty.  labelmap's loop may range over labels
   that it has inserted itself, in any order. *)
THEOREM RelabelsLikePrometheus ==
  ASSUME NEW Rule, \A c \in Cases : c.rules \in Seq(Rule)
  PROVE  Spec => []LikePrometheus
  <1>1. R!Init => Applying
    <2> SUFFICES ASSUME R!Init PROVE Applying
      OBVIOUS
    <2>1. /\ given \in Cases /\ given.rules \in Seq(Rule)
          /\ todo = [i \in DOMAIN given.rules |-> R!Compiled(given.rules[i])]
          /\ made = R!Merge(given) /\ status = "running" /\ aux1 = FALSE
      BY DEF R!Init
    <2> DEFINE n == Len(given.rules)
    <2>2. n \in Nat /\ DOMAIN given.rules = 1..n
      BY <2>1
    <2>3. todo = [i \in 1..n |-> R!Compiled(given.rules[i])]
      BY <2>1, <2>2
    <2>4. todo \in Seq({R!Compiled(given.rules[i]) : i \in 1..n}) /\ Len(todo) = n
      BY <2>2, <2>3
    <2>5. Applied = 0 /\ IsSeq(todo)
      BY <2>2, <2>4 DEF Applied, IsSeq
    <2>6. IsMap(made)
      BY <2>1 DEF R!Merge, R!Set, R!Override, IsMap
    <2>7. R!Prometheus[0] = R!Outcome("kept", R!Present(R!Merge(given)))
      BY <2>2, PrometheusUnfolds
    <2>8. R!Comparable(0) => Alike(R!Prometheus[0])
      BY <2>1, <2>7 DEF Alike, R!Outcome, R!Comparable, R!EmptyHarmless
    <2>9. \A j \in 1..Len(todo) : todo[j] = R!Compiled(given.rules[Applied + j])
      BY <2>2, <2>3, <2>4, <2>5
    <2>10. Len(todo) <= Len(given.rules)
      BY <2>2, <2>4
    <2> HIDE DEF n
    <2> QED BY <2>1, <2>5, <2>6, <2>8, <2>9, <2>10 DEF Applying
  <1>2. Applying /\ [R!Next]_R!vars => Applying'
    <2> SUFFICES ASSUME Applying, [R!Next]_R!vars PROVE Applying'
      OBVIOUS
    <2>1. CASE UNCHANGED R!vars
      <3>1. UNCHANGED <<given, todo, made, status, aux1, aux2, aux3>>
        BY <2>1 DEF R!vars
      <3>2. R!Prometheus' = R!Prometheus /\ Applied' = Applied
        BY <3>1 DEF R!Prometheus, R!PromOutcome, R!Outcome, R!Merge, Applied
      <3>3. R!Labelmaps' = R!Labelmaps /\ \A i : R!Comparable(i)' = R!Comparable(i)
        BY <3>1, <3>2 DEF R!Labelmaps, R!EmptyHarmless, R!Comparable, R!Merge
      <3> QED BY <3>1, <3>2, <3>3 DEF Applying, Alike, RangingAlike
    <2> QED BY <2>1, ApplyingStep
  <1>3. Applying => R!LikePrometheus
    BY DEF Applying, Alike, R!LikePrometheus, R!SameAs
  <1> DEFINE Inv == part = "Relabel" => Applying
  <1>4. Init => Inv
    BY <1>1 DEF Init
  <1>5. Inv /\ [Next]_vars => Inv'
    BY <1>2, OtherParts
  <1>6. Inv => LikePrometheus
    BY <1>3 DEF LikePrometheus
  <1> QED BY <1>4, <1>5, <1>6, PTL DEF Spec

-----------------------------------------------------------------------------
(* Configuration and routing *)

(* A configuration as Load unmarshals it: a setting that is left out is 0.
   A negative duration, which YAML can write down, is not among them. *)
Config ==
  [identifier : Seq(Parts), settings : [S!Settings -> Nat],
   metricsTopics : SUBSET [topic : Seq(Parts), spaces : BOOLEAN],
   logTopics : SUBSET [topic : Seq(Parts), spaces : BOOLEAN],
   rwURL : BOOLEAN, lokiURL : BOOLEAN, cacheOn : BOOLEAN]

Identifier(c) == IF c.identifier = <<>> THEN S!DefaultIdentifier ELSE c.identifier

(* What applyDefaults makes of each field that routing and the tickers use *)
LEMMA DefaultsApplied ==
  ASSUME NEW c \in Config
  PROVE  LET d == S!applyDefaults(c) IN
         /\ DOMAIN d = DOMAIN c
         /\ d.identifier = Identifier(c)
         /\ \A s \in DOMAIN S!DefaultOf : d.settings[s] > 0
         /\ d.metricsTopics = IF c.metricsTopics = {}
                              THEN S!DefaultTopics(Identifier(c), S!DefaultMetricsKinds)
                              ELSE c.metricsTopics
         /\ d.logTopics = IF c.logTopics = {}
                          THEN S!DefaultTopics(Identifier(c), S!DefaultLogKinds)
                          ELSE c.logTopics
  <1> DEFINE d == S!applyDefaults(c)
             set == [s \in S!Settings |-> IF c.settings[s] = 0 /\ S!Defaulted(s)
                                          THEN S!DefaultOf[s] ELSE c.settings[s]]
  <1>1. DOMAIN d = DOMAIN c
    BY DEF S!applyDefaults
  <1>2. d.identifier = Identifier(c)
    BY DEF S!applyDefaults, Config, Identifier
  <1>3. d.settings = set
    BY DEF S!applyDefaults, Config
  <1>4. \A s \in DOMAIN S!DefaultOf : set[s] > 0
    <2>1. c.settings \in [S!Settings -> Nat]
      BY DEF Config
    <2>2. \A s \in DOMAIN S!DefaultOf : S!DefaultOf[s] > 0
      BY DEF S!DefaultOf
    <2> QED BY <2>1, <2>2 DEF S!Settings, S!Defaulted
  <1>5. d.metricsTopics = IF c.metricsTopics = {}
                          THEN S!DefaultTopics(Identifier(c), S!DefaultMetricsKinds)
                          ELSE c.metricsTopics
    BY DEF S!applyDefaults, Config, Identifier
  <1>6. d.logTopics = IF c.logTopics = {}
                      THEN S!DefaultTopics(Identifier(c), S!DefaultLogKinds)
                      ELSE c.logTopics
    BY DEF S!applyDefaults, Config, Identifier
  <1> QED BY <1>1, <1>2, <1>3, <1>4, <1>5, <1>6
(* Past Load the configuration is what applyDefaults made of a file, every
   ticker has a period, and routed records what processMessage did with it. *)
Started ==
  /\ status \in {"file", "refused", "loaded", "running"}
  /\ IF status = "file" THEN given \in Configs
     ELSE \E c \in Configs : given = S!applyDefaults(c)
  /\ \A r \in made :
       /\ status = "running"
       /\ \E kind \in S!MessageKinds, payload \in Payloads :
            r = <<kind, payload.valid, S!Destinations(given, S!TopicOf(kind), payload)>>

(* Load, Build and Process keep that: the tickers are among the settings that
   applyDefaults fills in. *)
LEMMA StartedInvariant ==
  ASSUME Configs \subseteq Config
  PROVE  Spec => [](part = "Startup" => Started)
  <1>1. S!Init => Started
    BY DEF S!Init, Started
  <1>2. Started /\ [S!Next]_S!vars => Started'
    <2> SUFFICES ASSUME Started, [S!Next]_S!vars PROVE Started'
      OBVIOUS
    <2>1. CASE S!Load
      <3>1. given \in Configs /\ made = {}
        BY <2>1 DEF S!Load, Started
      <3> QED BY <2>1, <3>1 DEF S!Load, Started
    <2>2. CASE S!Build
      <3>1. PICK c \in Configs : given = S!applyDefaults(c)
        BY <2>2 DEF S!Build, Started
      <3>2. S!Tickers(given) \subseteq DOMAIN S!DefaultOf
        BY DEF S!Tickers, S!DefaultOf
      <3>3. \A t \in S!Tickers(given) : given.settings[t] > 0
        BY <3>1, <3>2, DefaultsApplied
      <3>4. status' = "running" /\ given' = given /\ made' = {}
        BY <2>2, <3>3 DEF S!Build, Started
      <3> QED BY <3>1, <3>4 DEF Started
    <2>3. ASSUME NEW kind \in S!MessageKinds, NEW payload \in Payloads, S!Process(kind, payload)
          PROVE  Started'
      <3>1. given' = given /\ status' = "running" /\ status = "running"
        BY <2>3 DEF S!Process
      <3>2. made' = {<<kind, payload.valid, S!Destinations(given, S!TopicOf(kind), payload)>>}
        BY <2>3 DEF S!Process
      <3>3. S!TopicOf(kind)' = S!TopicOf(kind)
        BY <3>1 DEF S!TopicOf
      <3> QED BY <3>1, <3>2, <3>3 DEF Started, S!TopicOf
    <2>4. CASE UNCHANGED S!vars
      BY <2>4 DEF S!vars, Started, S!TopicOf
    <2> QED BY <2>1, <2>2, <2>3, <2>4 DEF S!Next
  <1> DEFINE Inv == part = "Startup" => Started
  <1>3. Init => Inv
    BY <1>1 DEF Init
  <1>4. Inv /\ [Next]_vars => Inv'
    BY <1>2, OtherParts
  <1> QED BY <1>3, <1>4, PTL DEF Spec

(* A configuration that Load accepts starts up, whichever settings the file
   leaves out and whatever the others are: no ticker gets the period 0. *)
THEOREM LoadedConfigsStart ==
  ASSUME Configs \subseteq Config
  PROVE  Spec => []LoadedStarts
  <1>1. (part = "Startup" => Started) => LoadedStarts
    BY DEF Started, LoadedStarts, S!LoadedStarts
  <1> QED BY <1>1, StartedInvariant, PTL

(* The topic lists are left out, or are the documented ones of the configured
   identifier, in whichever way they are spaced. *)
DocumentedLists(c) ==
  /\ S!buildTopicSet(c.metricsTopics)
       \in {{}, {Identifier(c) \o <<k>> : k \in S!DefaultMetricsKinds}}
  /\ S!buildTopicSet(c.logTopics)
       \in {{}, {Identifier(c) \o <<k>> : k \in S!DefaultLogKinds}}

Payload == [valid : BOOLEAN, readings : Nat, components : Nat]

(* The topic sets that main builds from the defaulted configuration *)
LEMMA TopicSets ==
  ASSUME NEW c \in Config, DocumentedLists(c)
  PROVE  LET d == S!applyDefaults(c) IN
         /\ S!buildTopicSet(d.metricsTopics) = {Identifier(c) \o <<k>> : k \in S!DefaultMetricsKinds}
         /\ S!buildTopicSet(d.logTopics) = {Identifier(c) \o <<k>> : k \in S!DefaultLogKinds}
  <1>1. ASSUME NEW id, NEW kinds
        PROVE  S!buildTopicSet(S!DefaultTopics(id, kinds)) = {id \o <<k>> : k \in kinds}
    <2> DEFINE all == S!buildTopicSet(S!DefaultTopics(id, kinds))
    <2>1. \A k \in kinds : S!Plain(id \o <<k>>).topic = id \o <<k>>
      BY DEF S!Plain
    <2>2. \A x : x \in all <=> \E k \in kinds : x = S!Plain(id \o <<k>>).topic
      BY DEF S!buildTopicSet, S!DefaultTopics
    <2>3. \A x : x \in all <=> \E k \in kinds : x = id \o <<k>>
      BY <2>1, <2>2
    <2> HIDE DEF all
    <2>4. all = {id \o <<k>> : k \in kinds}
      BY <2>3
    <2> QED BY <2>4 DEF all
  <1>2. ASSUME NEW T, T # {} PROVE S!buildTopicSet(T) # {}
    BY <1>2 DEF S!buildTopicSet
  <1>4. S!buildTopicSet(S!applyDefaults(c).metricsTopics)
          = {Identifier(c) \o <<k>> : k \in S!DefaultMetricsKinds}
    <2>1. CASE c.metricsTopics = {}
      BY <1>1, <2>1, DefaultsApplied
    <2>2. CASE c.metricsTopics # {}
      BY <1>2, <2>2, DefaultsApplied DEF DocumentedLists
    <2> QED BY <2>1, <2>2
  <1>5. S!buildTopicSet(S!applyDefaults(c).logTopics)
          = {Identifier(c) \o <<k>> : k \in S!DefaultLogKinds}
    <2>1. CASE c.logTopics = {}
      BY <1>1, <2>1, DefaultsApplied
    <2>2. CASE c.logTopics # {}
      BY <1>2, <2>2, DefaultsApplied DEF DocumentedLists
    <2> QED BY <2>1, <2>2
  <1> QED BY <1>4, <1>5

(* What the topics of OME are made of: the parts of the configured names, the
   default identifier and the kinds *)
NameParts == Parts \cup S!MessageKinds \cup {"ome"}

(* The identifier in use is a sequence of parts, configured or not. *)
LEMMA IdentifierType ==
  ASSUME NEW c \in Config
  PROVE  Identifier(c) \in Seq(NameParts)
  <1>1. c.identifier \in Seq(NameParts)
    <2>1. c.identifier \in Seq(Parts)
      BY DEF Config
    <2> QED BY <2>1 DEF NameParts
  <1>2. S!DefaultIdentifier \in Seq(NameParts)
    <2>1. ASSUME NEW T, NEW x \in T PROVE <<x>> \in Seq(T)
      OBVIOUS
    <2> QED BY <2>1 DEF S!DefaultIdentifier, NameParts
  <1> QED BY <1>1, <1>2 DEF Identifier

(* An identifier of one part is not the empty one. *)
LEMMA NotEmpty ==
  ASSUME NEW T, NEW id \in Seq(T), Len(id) = 1
  PROVE  id # <<>>
  OBVIOUS

(* A topic of two parts gives back the second. *)
LEMMA SecondPart ==
  ASSUME NEW T, NEW id \in Seq(T), Len(id) = 1, NEW k \in T
  PROVE  Len(id \o <<k>>) = 2 /\ (id \o <<k>>)[2] = k
  <1>1. <<k>> \in Seq(T) /\ Len(<<k>>) = 1 /\ <<k>>[1] = k
    OBVIOUS
  <1>2. Len(id \o <<k>>) = 2
    BY <1>1, ConcatProperties
  <1>3. ASSUME NEW t \in Seq(T), Len(t) = 1 PROVE (id \o t)[2] = t[1]
    BY <1>3, ConcatProperties
  <1> QED BY <1>1, <1>2, <1>3

(* Where a message goes is decided by its kind. *)
LEMMA DestinationsDocumented ==
  ASSUME NEW c \in Config, DocumentedLists(c), Len(Identifier(c)) = 1,
         NEW kind \in S!MessageKinds, NEW payload \in Payload
  PROVE  LET d == S!applyDefaults(c)
             route == S!Destinations(d, Identifier(c) \o <<kind>>, payload)
         IN /\ route \subseteq S!DocumentedRoute(kind)
            /\ payload.valid /\ kind # "telemetry" => route = S!DocumentedRoute(kind)
  <1> DEFINE d == S!applyDefaults(c)
             id == Identifier(c)
             topic == id \o <<kind>>
  <1>1. id \in Seq(NameParts)
    BY IdentifierType
  <1> HIDE DEF id
  <1>2. Len(id) = 1
    BY DEF id
  <1>3. \A k \in S!MessageKinds : Len(id \o <<k>>) = 2 /\ (id \o <<k>>)[2] = k
    <2>1. S!MessageKinds \subseteq NameParts
      BY DEF NameParts
    <2> QED BY <1>1, <1>2, <2>1, SecondPart
  <1>4. S!topicKind(topic) = kind
    BY <1>3 DEF S!topicKind, S!MessageKinds
  <1>5. topic \in S!buildTopicSet(d.metricsTopics) <=> kind \in S!DefaultMetricsKinds
    <2>1. S!DefaultMetricsKinds \subseteq S!MessageKinds
      BY DEF S!DefaultMetricsKinds, S!MessageKinds
    <2>2. S!buildTopicSet(d.metricsTopics) = {id \o <<k>> : k \in S!DefaultMetricsKinds}
      BY TopicSets DEF id
    <2> QED BY <1>3, <2>1, <2>2
  <1>6. topic \in S!buildTopicSet(d.logTopics) <=> kind \in S!DefaultLogKinds
    <2>1. S!DefaultLogKinds \subseteq S!MessageKinds
      BY DEF S!DefaultLogKinds, S!MessageKinds
    <2>2. S!buildTopicSet(d.logTopics) = {id \o <<k>> : k \in S!DefaultLogKinds}
      BY TopicSets DEF id
    <2> QED BY <1>3, <2>1, <2>2
  <1> HIDE DEF d, topic
  <1>7. S!ToLog(d, topic) <=> kind \in S!DefaultLogKinds
    BY <1>4, <1>6 DEF S!ToLog, S!HasLogEntry, S!DefaultLogKinds
  <1>8. S!ToMetrics(d, topic, payload) > 0 => kind \in S!DefaultMetricsKinds
    BY <1>5 DEF S!ToMetrics
  <1>9. kind = "health" => S!ToMetrics(d, topic, payload) > 0
    BY <1>4, <1>5 DEF S!ToMetrics, S!MetricsIn, S!DefaultMetricsKinds, Payload
  <1>10. S!ParseFails(topic, payload) <=> ~payload.valid
    BY <1>4 DEF S!ParseFails, S!MessageKinds
  <1> QED BY <1>7, <1>8, <1>9, <1>10
          DEF d, topic, id, S!Destinations, S!DocumentedRoute, S!DefaultLogKinds, S!DefaultMetricsKinds,
              S!MessageKinds

(* Every message goes where the README's table says, whatever the identifier
   without a dot and whatever the other settings, as long as the topic lists
   are not put together differently. *)
THEOREM RoutesAreDocumented ==
  ASSUME Configs \subseteq Config, \A c \in Configs : DocumentedLists(c), Payloads \subseteq Payload
  PROVE  Spec => []RoutedAsDocumented
  <1>1. Started => S!RoutedAsDocumented
    <2> SUFFICES ASSUME Started, Len(given.identifier) = 1, NEW r \in made
                 PROVE  /\ r[3] \subseteq S!DocumentedRoute(r[1])
                        /\ r[2] /\ r[1] # "telemetry" => r[3] = S!DocumentedRoute(r[1])
      BY DEF S!RoutedAsDocumented
    <2>1. PICK c \in Configs : given = S!applyDefaults(c)
      BY DEF Started
    <2>2. PICK kind \in S!MessageKinds, payload \in Payloads :
            r = <<kind, payload.valid, S!Destinations(given, S!TopicOf(kind), payload)>>
      BY DEF Started
    <2>3. given.identifier = Identifier(c)
      BY <2>1, DefaultsApplied
    <2>4. S!TopicOf(kind) = Identifier(c) \o <<kind>>
      <3>1. given.identifier # <<>>
        <4>1. Identifier(c) \in Seq(NameParts) /\ Len(Identifier(c)) = 1
          BY <2>3, IdentifierType
        <4> QED BY <2>3, <4>1, NotEmpty
      <3>2. "identifier" \in DOMAIN given
        BY <2>1, DefaultsApplied DEF Config
      <3>3. S!applyDefaults(given).identifier = given.identifier
        BY <3>1, <3>2 DEF S!applyDefaults
      <3> QED BY <2>3, <3>3 DEF S!TopicOf
    <2> QED BY <2>1, <2>2, <2>3, <2>4, DestinationsDocumented
  <1>2. (part = "Startup" => Started) => RoutedAsDocumented
    BY <1>1 DEF RoutedAsDocumented
  <1> QED BY <1>2, StartedInvariant, PTL

-----------------------------------------------------------------------------
(* Produce request decoder *)

Bytes == 0..255

(* The length of the request *)
Size == Len(D!buf)

(* The buffer has a length. *)
LEMMA BufferFacts ==
  ASSUME D!buf \in Seq(Bytes)
  PROVE  Size \in Nat
  BY DEF Size

(* A byte is a number up to 255. *)
LEMMA ByteRange ==
  \A b \in Bytes : b \in Nat /\ b <= 255
  BY DEF Bytes

(* A byte read within the buffer is a byte. *)
LEMMA ByteFacts ==
  ASSUME D!buf \in Seq(Bytes), NEW i \in Nat, NEW n \in Nat, D!Fits(i, n), n > 0
  PROVE  D!Byte(i) \in Nat /\ D!Byte(i) <= 255
  <1>1. i + 1 \in 1..Len(D!buf)
    BY DEF D!Fits
  <1>2. D!buf[i + 1] \in Bytes
    BY <1>1
  <1>3. D!Byte(i) \in Bytes
    BY <1>2 DEF D!Byte
  <1> QED BY <1>3, ByteRange

(* A fixed-size field: the reader moves on, and not beyond the buffer. *)
LEMMA PastFacts ==
  ASSUME D!buf \in Seq(Bytes), NEW p \in Nat, NEW n \in Nat
  PROVE  /\ D!Past(p, n) \in Nat
         /\ D!Past(p, n) >= p
         /\ p <= Size => D!Past(p, n) <= Size
         /\ p + n <= Size => D!Past(p, n) = p + n
  BY BufferFacts DEF D!Past, D!Fits, Size

(* The reader's integers are integers, the zero for a missing one included. *)
LEMMA IntFacts ==
  ASSUME D!buf \in Seq(Bytes), NEW p \in Nat
  PROVE  D!Int8(p) \in Int /\ D!Int16(p) \in Int /\ D!Int32(p) \in Int
  <1>1. D!Fits(p, 1) => D!Byte(p) \in Int
    BY ByteFacts
  <1>2. D!Fits(p, 2) => D!Byte(p) \in Int /\ D!Byte(p + 1) \in Int
    <2> SUFFICES ASSUME D!Fits(p, 2) PROVE D!Byte(p) \in Int /\ D!Byte(p + 1) \in Int
      OBVIOUS
    <2>1. D!Fits(p + 1, 1)
      BY BufferFacts DEF D!Fits, Size
    <2> QED BY <2>1, ByteFacts
  <1>3. D!Fits(p, 4) => /\ D!Byte(p) \in Int /\ D!Byte(p + 1) \in Int
                        /\ D!Byte(p + 2) \in Int /\ D!Byte(p + 3) \in Int
    <2> SUFFICES ASSUME D!Fits(p, 4)
                 PROVE  /\ D!Byte(p) \in Int /\ D!Byte(p + 1) \in Int
                        /\ D!Byte(p + 2) \in Int /\ D!Byte(p + 3) \in Int
      OBVIOUS
    <2>1. D!Fits(p + 1, 1) /\ D!Fits(p + 2, 1) /\ D!Fits(p + 3, 1)
      BY BufferFacts DEF D!Fits, Size
    <2> QED BY <2>1, ByteFacts
  <1>4. D!Int8(p) \in Int
    BY <1>1 DEF D!Int8, D!Signed8
  <1>5. D!Int16(p) \in Int
    BY <1>2 DEF D!Int16, D!Signed8
  <1>6. D!Int32(p) \in Int
    <2>1. ASSUME NEW a \in Int, NEW b \in Int, NEW c \in Int, NEW d \in Int
          PROVE  ((a * 256 + b) * 256 + c) * 256 + d \in Int
      BY <2>1
    <2>2. D!Fits(p, 4) => D!Signed8(D!Byte(p)) \in Int
      BY <1>3 DEF D!Signed8
    <2> QED BY <1>3, <2>1, <2>2 DEF D!Int32
  <1> QED BY <1>4, <1>5, <1>6

(* A length-prefixed field, whatever length was read *)
LEMMA ChunkFacts ==
  ASSUME D!buf \in Seq(Bytes), NEW p \in Nat, NEW n \in Int
  PROVE  /\ D!Chunk(p, n).pos \in Nat
         /\ D!Chunk(p, n).pos >= p
         /\ p <= Size => D!Chunk(p, n).pos <= Size
  BY BufferFacts DEF D!Chunk, D!Fits, Size

(* One whose length is a varint: only a sum that wraps around leaves the buffer. *)
LEMMA VarChunkFacts ==
  ASSUME D!buf \in Seq(Bytes), NEW p \in Nat, NEW n \in Int
  PROVE  /\ D!VarChunk(p, n).pos \in Nat
         /\ D!VarChunk(p, n).pos >= p
         /\ p <= Size /\ n <= MaxInt - Size => D!VarChunk(p, n).pos <= Size
  BY BufferFacts, ChunkFacts, WidthAssumption DEF D!VarChunk

(* A varint: the reader moves on when it got one, by as many bytes as it has. *)
LEMMA VarintFacts ==
  ASSUME D!buf \in Seq(Bytes), NEW p \in Nat
  PROVE  /\ D!Uvarint(p).val \in Nat
         /\ D!Uvarint(p).pos \in Nat /\ D!Uvarint(p).pos >= p
         /\ D!Varint(p).val \in Int /\ D!Varint(p).val <= D!Uvarint(p).val
         /\ D!Varint(p).pos = D!Uvarint(p).pos
         /\ p <= Size => D!Uvarint(p).pos <= Size
         /\ D!Uvarint(p).pos = p => D!Uvarint(p).val = 0
  <1> DEFINE last == CHOOSE i \in D!LastOfVarint(p) : TRUE
             v == D!UvarintValue(p, last)
  <1>1. CASE D!LastOfVarint(p) = {} \/ v > 2 * MaxInt + 1
    <2>1. D!Uvarint(p) = [val |-> 0, pos |-> p]
      BY <1>1 DEF D!Uvarint
    <2> QED BY <2>1 DEF D!Varint
  <1>2. CASE ~(D!LastOfVarint(p) = {} \/ v > 2 * MaxInt + 1)
    <2>1. D!Uvarint(p) = [val |-> v, pos |-> last + 1]
      BY <1>2 DEF D!Uvarint
    <2>2. last \in D!LastOfVarint(p)
      BY <1>2
    <2>3. /\ last \in Int /\ last >= p /\ D!Fits(p, last - p + 1)
      BY <2>2, WidthAssumption DEF D!LastOfVarint
    <2>4. \A k \in 0..9 : (IF p + k <= last THEN D!Byte(p + k) % 128 ELSE 0) \in Nat
      <3> SUFFICES ASSUME NEW k \in 0..9, p + k <= last
                   PROVE  D!Byte(p + k) % 128 \in Nat
        OBVIOUS
      <3>1. D!Fits(p + k, 1)
        BY <2>3, BufferFacts DEF D!Fits, Size
      <3> QED BY <3>1, ByteFacts
    <2>5. v \in Nat
      <3> DEFINE low(k) == IF p + k <= last THEN D!Byte(p + k) % 128 ELSE 0
      <3>1. v = low(0) + 128 * (low(1) + 128 * (low(2) + 128 * (low(3) + 128 * (low(4) + 128 * (low(5)
                  + 128 * (low(6) + 128 * (low(7) + 128 * (low(8) + 128 * low(9)))))))))
        BY DEF D!UvarintValue
      <3>2. \A k \in 0..9 : low(k) \in Nat
        BY <2>4
      <3> HIDE DEF low, v, last
      <3>3. /\ low(0) \in Nat /\ low(1) \in Nat /\ low(2) \in Nat /\ low(3) \in Nat /\ low(4) \in Nat
            /\ low(5) \in Nat /\ low(6) \in Nat /\ low(7) \in Nat /\ low(8) \in Nat /\ low(9) \in Nat
        BY <3>2
      <3>4. PICK a0, a1, a2, a3, a4, a5, a6, a7, a8, a9 \in Nat :
              /\ a0 = low(0) /\ a1 = low(1) /\ a2 = low(2) /\ a3 = low(3) /\ a4 = low(4)
              /\ a5 = low(5) /\ a6 = low(6) /\ a7 = low(7) /\ a8 = low(8) /\ a9 = low(9)
        BY <3>3, Zenon
      <3>5. v = a0 + 128 * (a1 + 128 * (a2 + 128 * (a3 + 128 * (a4 + 128 * (a5
                  + 128 * (a6 + 128 * (a7 + 128 * (a8 + 128 * a9))))))))
        BY <3>1, <3>4
      <3> QED BY <3>5
    <2>6. last + 1 \in Nat /\ last + 1 > p /\ (p <= Size => last + 1 <= Size)
      BY <2>3, BufferFacts DEF D!Fits, Size
    <2>7. ASSUME NEW x \in Nat
          PROVE  (IF x % 2 = 0 THEN x \div 2 ELSE -(x \div 2) - 1) \in Int
                 /\ (IF x % 2 = 0 THEN x \div 2 ELSE -(x \div 2) - 1) <= x
      BY <2>7
    <2> HIDE DEF last, v
    <2> QED BY <2>1, <2>5, <2>6, <2>7 DEF D!Varint
  <1> QED BY <1>1, <1>2

(* Cutting down a number that fits changes nothing. *)
LEMMA NarrowFacts ==
  ASSUME NEW v \in Int, NEW max \in Nat
  PROVE  /\ D!Narrow(v, max) \in Int
         /\ v \in -1..max => D!Narrow(v, max) = v
  <1>1. v % (2 * (max + 1)) \in Int
    OBVIOUS
  <1>2. v \in 0..max => v % (2 * (max + 1)) = v
    OBVIOUS
  <1>3. v = -1 => v % (2 * (max + 1)) = 2 * max + 1
    OBVIOUS
  <1> QED BY <1>1, <1>2, <1>3 DEF D!Narrow

(* A name of either encoding *)
LEMMA NameFacts ==
  ASSUME D!buf \in Seq(Bytes), NEW p \in Nat
  PROVE  /\ D!Name(p).pos \in Nat
         /\ D!Name(p).pos >= p
         /\ D!NoWrap /\ p <= Size => D!Name(p).pos <= Size
  <1>1. CASE D!flexible
    <2> DEFINE u == D!Uvarint(p)
               n == D!Narrow(u.val - 1, MaxInt)
    <2>1. D!Name(p) = D!VarChunk(u.pos, n)
      BY <1>1 DEF D!Name, D!readCompactString
    <2>2. u.val \in Nat /\ u.pos \in Nat /\ u.pos >= p /\ (p <= Size => u.pos <= Size)
      BY VarintFacts
    <2>c. \A v \in Int : D!Narrow(v, MaxInt) \in Int /\ (v \in -1..MaxInt => D!Narrow(v, MaxInt) = v)
      BY NarrowFacts, WidthAssumption
    <2>a. u.val - 1 \in Int
      BY <2>2
    <2>b. n \in Int
      BY <2>a, <2>c
    <2>3. ASSUME D!NoWrap, p <= Size PROVE n <= MaxInt - Size
      <3>1. u.val \in Nat /\ u.val <= MaxInt - Size
        BY <2>3, VarintFacts, BufferFacts DEF D!NoWrap, Size
      <3>2. u.val - 1 \in -1..MaxInt
        BY <3>1, BufferFacts, WidthAssumption
      <3>3. n = u.val - 1
        BY <2>a, <2>c, <3>2
      <3> HIDE DEF u, n
      <3> QED BY <3>1, <3>3, BufferFacts, WidthAssumption
    <2> HIDE DEF u, n
    <2> QED BY <2>1, <2>2, <2>3, <2>b, VarChunkFacts
  <1>2. CASE ~D!flexible
    <2> DEFINE q == D!Past(p, 2)
               n == D!Int16(p)
    <2>1. q \in Nat /\ q >= p /\ (p <= Size => q <= Size)
      BY PastFacts
    <2>2. n \in Int
      BY IntFacts
    <2>3. D!Name(p) = D!Chunk(q, n)
      BY <1>2 DEF D!Name, D!readString
    <2> HIDE DEF q, n
    <2>4. D!Chunk(q, n).pos \in Nat /\ D!Chunk(q, n).pos >= q /\ (q <= Size => D!Chunk(q, n).pos <= Size)
      BY <2>1, <2>2, ChunkFacts
    <2> QED BY <2>1, <2>3, <2>4, BufferFacts
  <1> QED BY <1>1, <1>2

(* A count of either encoding *)
LEMMA CountFacts ==
  ASSUME D!buf \in Seq(Bytes), NEW p \in Nat
  PROVE  /\ D!CountAt(p).val \in Int
         /\ D!CountAt(p).pos \in Nat
         /\ D!CountAt(p).pos >= p
         /\ p <= Size => D!CountAt(p).pos <= Size
  <1>1. CASE D!flexible
    <2>1. D!Uvarint(p).val - 1 \in Int
      BY VarintFacts
    <2> QED BY <1>1, <2>1, VarintFacts, NarrowFacts, WidthAssumption DEF D!CountAt
  <1>2. CASE ~D!flexible
    BY <1>2, PastFacts, IntFacts DEF D!CountAt
  <1> QED BY <1>1, <1>2

(* Tagged fields *)
LEMMA TagFacts ==
  ASSUME D!buf \in Seq(Bytes), NEW p \in Nat
  PROVE  /\ D!PastTags(p) \in Nat
         /\ D!PastTags(p) >= p
         /\ p <= Size => D!PastTags(p) <= Size
  BY VarintFacts DEF D!PastTags

(* A key, a value or a part of a header of format 2 *)
LEMMA VarBytesFacts ==
  ASSUME D!buf \in Seq(Bytes), NEW p \in Nat
  PROVE  /\ D!readVarBytes(p).pos \in Nat
         /\ D!readVarBytes(p).pos >= p
         /\ D!readVarBytes(p).pos >= D!Varint(p).pos
         /\ D!NoWrap /\ p <= Size => D!readVarBytes(p).pos <= Size
  <1> DEFINE u == D!Uvarint(p)
             v == D!Varint(p)
  <1>1. /\ v.val \in Int /\ v.pos \in Nat /\ v.pos >= p /\ v.val <= u.val /\ u.val \in Nat
        /\ p <= Size => v.pos <= Size
    BY VarintFacts
  <1>2. ASSUME D!NoWrap, p <= Size PROVE v.val <= MaxInt - Size
    <2>1. u.val <= MaxInt - Size
      BY <1>2, VarintFacts, BufferFacts DEF D!NoWrap, Size
    <2> QED BY <1>1, <2>1, BufferFacts, WidthAssumption
  <1>3. D!readVarBytes(p) = D!VarChunk(v.pos, v.val)
    BY DEF D!readVarBytes
  <1> HIDE DEF u, v
  <1>4. /\ D!VarChunk(v.pos, v.val).pos \in Nat
        /\ D!VarChunk(v.pos, v.val).pos >= v.pos
        /\ v.pos <= Size /\ v.val <= MaxInt - Size => D!VarChunk(v.pos, v.val).pos <= Size
    BY <1>1, VarChunkFacts
  <1> QED BY <1>1, <1>2, <1>3, <1>4, BufferFacts DEF v

(* A key or a value of format 0 *)
LEMMA BytesFacts ==
  ASSUME D!buf \in Seq(Bytes), NEW p \in Nat
  PROVE  /\ D!readBytes(p).pos \in Nat
         /\ D!readBytes(p).pos >= p
         /\ p <= Size => D!readBytes(p).pos <= Size
  <1> DEFINE q == D!Past(p, 4)
             n == D!Int32(p)
  <1>1. q \in Nat /\ q >= p /\ (p <= Size => q <= Size)
    BY PastFacts
  <1>2. n \in Int
    BY IntFacts
  <1>3. D!readBytes(p) = D!Chunk(q, n)
    BY DEF D!readBytes
  <1> HIDE DEF q, n
  <1>4. D!Chunk(q, n).pos \in Nat /\ D!Chunk(q, n).pos >= q /\ (q <= Size => D!Chunk(q, n).pos <= Size)
    BY <1>1, <1>2, ChunkFacts
  <1> QED BY <1>1, <1>3, <1>4, BufferFacts
(* The request stays the same, and all that only depends on it. *)
LEMMA SameRequest ==
  ASSUME given' = given
  PROVE  (D!NoWrap <=> D!NoWrap') /\ D!buf' = D!buf /\ Size' = Size
  <1>1. D!buf' = D!buf
    BY DEF D!buf
  <1>2. Size' = Size
    BY <1>1 DEF Size
  <1>3. ASSUME NEW p PROVE D!LastOfVarint(p)' = D!LastOfVarint(p)
    BY <1>1 DEF D!LastOfVarint, D!Fits, D!Byte
  <1>4. ASSUME NEW p, NEW i PROVE D!UvarintValue(p, i)' = D!UvarintValue(p, i)
    BY <1>1 DEF D!UvarintValue, D!Byte
  <1>5. ASSUME NEW p PROVE D!Uvarint(p)' = D!Uvarint(p)
    BY <1>3, <1>4 DEF D!Uvarint
  <1> QED BY <1>1, <1>2, <1>5 DEF D!NoWrap
(* What is read is bytes. *)
LEMMA ChunkValue ==
  ASSUME D!buf \in Seq(Bytes), NEW p \in Nat, NEW n \in Int
  PROVE  D!Chunk(p, n).val \in Seq(Bytes) /\ D!VarChunk(p, n).val \in Seq(Bytes)
  <1>1. <<>> \in Seq(Bytes)
    OBVIOUS
  <1>2. D!Fits(p, n) /\ n >= 0 => SubSeq(D!buf, p + 1, p + n) \in Seq(Bytes)
    <2> SUFFICES ASSUME D!Fits(p, n), n >= 0 PROVE SubSeq(D!buf, p + 1, p + n) \in Seq(Bytes)
      OBVIOUS
    <2>1. p + 1 \in 1..(Len(D!buf) + 1) /\ p + n \in p..Len(D!buf)
      BY BufferFacts DEF D!Fits, Size
    <2> QED BY <2>1, SubSeqProperties, BufferFacts DEF Size
  <1> QED BY <1>1, <1>2 DEF D!Chunk, D!VarChunk

(* Names, keys and values are bytes. *)
LEMMA ReadValue ==
  ASSUME D!buf \in Seq(Bytes), NEW p \in Nat
  PROVE  /\ D!Name(p).val \in Seq(Bytes)
         /\ D!readBytes(p).val \in Seq(Bytes)
         /\ D!readVarBytes(p).val \in Seq(Bytes)
  <1>1. D!Past(p, 2) \in Nat /\ D!Past(p, 4) \in Nat /\ D!Int16(p) \in Int /\ D!Int32(p) \in Int
    BY PastFacts, IntFacts
  <1>2. D!Uvarint(p).val - 1 \in Int /\ D!Uvarint(p).pos \in Nat
        /\ D!Varint(p).val \in Int /\ D!Varint(p).pos \in Nat
    BY VarintFacts
  <1>3. D!Narrow(D!Uvarint(p).val - 1, MaxInt) \in Int
    BY <1>2, NarrowFacts, WidthAssumption
  <1>4. D!readString(p).val \in Seq(Bytes)
    BY <1>1, ChunkValue DEF D!readString
  <1>5. D!readCompactString(p).val \in Seq(Bytes)
    BY <1>2, <1>3, ChunkValue DEF D!readCompactString
  <1>6. D!readBytes(p).val \in Seq(Bytes)
    BY <1>1, ChunkValue DEF D!readBytes
  <1>7. D!readVarBytes(p).val \in Seq(Bytes)
    BY <1>2, ChunkValue DEF D!readVarBytes
  <1> QED BY <1>4, <1>5, <1>6, <1>7 DEF D!Name

(* The records decoded so far have been paid for, and the reader has left its
   buffer only if a varint made it. *)
Decoding ==
  /\ D!buf \in Seq(Bytes)
  /\ aux1 \in Nat
  /\ aux2 \in Seq(Bytes)
  /\ made \in Seq([topic : Seq(Bytes), value : Seq(Bytes)])
  /\ Len(made) <= aux1
  /\ D!NoWrap => aux1 <= Size

(* A step that reads on and hands on at most one record, which it pays for *)
LEMMA DecodingKept ==
  ASSUME Decoding, given' = given, aux1' \in Nat, aux1' >= aux1, aux2' \in Seq(Bytes),
         D!NoWrap /\ aux1 <= Size => aux1' <= Size,
         \/ made' = made
         \/ /\ aux1' > aux1
            /\ \E v \in Seq(Bytes) : made' = Append(made, [topic |-> aux2, value |-> v])
  PROVE  Decoding'
  <1>1. D!buf' \in Seq(Bytes) /\ Size' = Size /\ (D!NoWrap' => aux1' <= Size')
    BY SameRequest DEF Decoding
  <1>2. Len(made) \in Nat
    BY DEF Decoding
  <1>3. /\ made' \in Seq([topic : Seq(Bytes), value : Seq(Bytes)])
        /\ Len(made') <= Len(made) + (IF made' = made THEN 0 ELSE 1)
    <2>1. CASE made' = made
      BY <1>2, <2>1 DEF Decoding
    <2>2. ASSUME NEW v \in Seq(Bytes), made' = Append(made, [topic |-> aux2, value |-> v])
          PROVE  /\ made' \in Seq([topic : Seq(Bytes), value : Seq(Bytes)])
                 /\ Len(made') = Len(made) + 1
      <3>1. [topic |-> aux2, value |-> v] \in [topic : Seq(Bytes), value : Seq(Bytes)]
        BY DEF Decoding
      <3> QED BY <2>2, <3>1, AppendProperties DEF Decoding
    <2>3. CASE made' # made
      <3>1. PICK v \in Seq(Bytes) : made' = Append(made, [topic |-> aux2, value |-> v])
        BY <2>3
      <3>2. made' \in Seq([topic : Seq(Bytes), value : Seq(Bytes)]) /\ Len(made') = Len(made) + 1
        BY <2>2, <3>1
      <3> QED BY <1>2, <2>3, <3>2
    <2> QED BY <2>1, <2>3
  <1>4. Len(made') <= aux1'
    BY <1>2, <1>3 DEF Decoding
  <1> QED BY <1>1, <1>3, <1>4 DEF Decoding

(* Every step of handleProduce keeps that. *)
LEMMA DecodingStep ==
  ASSUME Decoding, D!Next
  PROVE  Decoding'
  <1>0. /\ aux1 \in Nat /\ D!buf \in Seq(Bytes) /\ Size \in Nat /\ aux2 \in Seq(Bytes)
        /\ D!NoWrap => aux1 <= Size
    BY BufferFacts DEF Decoding
  <1>1. CASE D!ReadHeader
    <2> DEFINE a == D!Name(aux1).pos
               b == D!Past(a, 2)
               c == D!Past(b, 4)
               d == D!CountAt(c).pos
    <2>1. a \in Nat /\ a >= aux1 /\ (D!NoWrap /\ aux1 <= Size => a <= Size)
      BY <1>0, NameFacts
    <2>2. b \in Nat /\ b >= a /\ (a <= Size => b <= Size)
      BY <1>0, <2>1, PastFacts
    <2>3. c \in Nat /\ c >= b /\ (b <= Size => c <= Size)
      BY <1>0, <2>2, PastFacts
    <2>4. d \in Nat /\ d >= c /\ (c <= Size => d <= Size)
      BY <1>0, <2>3, CountFacts
    <2>5. aux1' = d /\ UNCHANGED <<given, aux2, made>>
      BY <1>1 DEF D!ReadHeader
    <2> HIDE DEF a, b, c, d
    <2>6. d >= aux1 /\ (D!NoWrap /\ aux1 <= Size => d <= Size)
      BY <1>0, <2>1, <2>2, <2>3, <2>4
    <2> QED BY <1>0, <2>4, <2>5, <2>6, DecodingKept
  <1>2. CASE D!ReadTopic
    <2> DEFINE a == D!Name(aux1).pos
               d == D!CountAt(a).pos
    <2>1. a \in Nat /\ a >= aux1 /\ (D!NoWrap /\ aux1 <= Size => a <= Size)
      BY <1>0, NameFacts
    <2>2. d \in Nat /\ d >= a /\ (a <= Size => d <= Size)
      BY <1>0, <2>1, CountFacts
    <2>3. aux1' = d /\ UNCHANGED <<given, made>> /\ aux2' = D!Name(aux1).val
      BY <1>2 DEF D!ReadTopic
    <2>4. aux2' \in Seq(Bytes)
      BY <1>0, <2>3, ReadValue
    <2> HIDE DEF a, d
    <2>5. d >= aux1 /\ (D!NoWrap /\ aux1 <= Size => d <= Size)
      BY <1>0, <2>1, <2>2
    <2> QED BY <1>0, <2>2, <2>3, <2>4, <2>5, DecodingKept
  <1>3. CASE D!TopicsEnd \/ D!PartitionsEnd \/ D!PartitionEnd
    <2>1. aux1' = D!PastTags(aux1) /\ UNCHANGED <<given, aux2, made>>
      BY <1>3 DEF D!TopicsEnd, D!PartitionsEnd, D!PartitionEnd
    <2> QED BY <1>0, <2>1, TagFacts, DecodingKept
  <1>4. CASE D!ReadPartition
    <2> DEFINE start == D!Past(D!Past(aux1, 4), 4)
               magic == D!Past(D!Past(D!Past(start, 8), 4), 4)
               count == D!PastV2Header(D!Past(magic, 1))
               end == D!Past(count, 4)
    <2>1. \A p, n \in Nat : /\ D!Past(p, n) \in Nat
                            /\ D!Past(p, n) >= p
                            /\ p <= Size => D!Past(p, n) <= Size
      BY <1>0, PastFacts
    <2>a. ASSUME NEW p \in Nat, NEW n \in Nat, NEW m \in Nat
          PROVE  /\ D!Past(D!Past(p, n), m) \in Nat
                 /\ D!Past(D!Past(p, n), m) >= p
                 /\ p <= Size => D!Past(D!Past(p, n), m) <= Size
      <3> DEFINE q == D!Past(p, n)
      <3>1. q \in Nat /\ q >= p /\ (p <= Size => q <= Size)
        BY <2>1
      <3> HIDE DEF q
      <3>2. D!Past(q, m) \in Nat /\ D!Past(q, m) >= q /\ (q <= Size => D!Past(q, m) <= Size)
        BY <2>1, <3>1
      <3>3. D!Past(q, m) \in Nat /\ D!Past(q, m) >= p /\ (p <= Size => D!Past(q, m) <= Size)
        BY <1>0, <3>1, <3>2
      <3> QED BY <3>3 DEF q
    <2>2. start \in Nat /\ start >= aux1 /\ (aux1 <= Size => start <= Size)
      BY <1>0, <2>a
    <2> HIDE DEF start
    <2>3. magic \in Nat /\ magic >= start /\ (start <= Size => magic <= Size)
      <3> DEFINE q == D!Past(start, 8)
      <3>1. q \in Nat /\ q >= start /\ (start <= Size => q <= Size)
        BY <2>1, <2>2
      <3> HIDE DEF q
      <3>2. magic = D!Past(D!Past(q, 4), 4)
        BY DEF q
      <3>3. D!Past(D!Past(q, 4), 4) \in Nat /\ D!Past(D!Past(q, 4), 4) >= q
            /\ (q <= Size => D!Past(D!Past(q, 4), 4) <= Size)
        BY <2>a, <3>1
      <3> HIDE DEF magic
      <3> QED BY <1>0, <2>2, <3>1, <3>2, <3>3
    <2> HIDE DEF magic
    <2>4. count \in Nat /\ count >= magic /\ (magic <= Size => count <= Size)
      <3> DEFINE a == D!Past(D!Past(magic, 1), 2)
                 b == D!Past(D!Past(a, 4), 8)
                 c == D!Past(D!Past(b, 8), 8)
                 d == D!Past(D!Past(c, 2), 4)
      <3>0. count = d
        BY DEF D!PastV2Header
      <3>1. a \in Nat /\ a >= magic /\ (magic <= Size => a <= Size)
        BY <2>3, <2>a
      <3> HIDE DEF a
      <3>2. b \in Nat /\ b >= a /\ (a <= Size => b <= Size)
        BY <2>a, <3>1
      <3> HIDE DEF b
      <3>3. c \in Nat /\ c >= b /\ (b <= Size => c <= Size)
        BY <2>a, <3>2
      <3> HIDE DEF c
      <3>4. d \in Nat /\ d >= c /\ (c <= Size => d <= Size)
        BY <2>a, <3>3
      <3> HIDE DEF d, count
      <3> QED BY <1>0, <2>3, <3>0, <3>1, <3>2, <3>3, <3>4
    <2> HIDE DEF count
    <2>5. end \in Nat /\ end >= count /\ (count <= Size => end <= Size)
      BY <2>1, <2>4
    <2>6. (aux1' = start \/ aux1' = end) /\ UNCHANGED <<given, aux2, made>>
      BY <1>4 DEF D!ReadPartition, start, magic, count
    <2> HIDE DEF end
    <2>7. aux1' \in Nat /\ aux1' >= aux1 /\ (aux1 <= Size => aux1' <= Size)
      BY <1>0, <2>2, <2>3, <2>4, <2>5, <2>6
    <2> QED BY <1>0, <2>6, <2>7, DecodingKept
  <1>5. CASE D!LegacyMessage
    <2> DEFINE body == D!LegacyBody
               key == D!Past(D!Past(D!Past(body, 4), 1), 1)
               value == D!LegacyKey.pos
               end == D!readBytes(value).pos
    <2>1. aux1 + 12 <= Size
      BY <1>0, <1>5 DEF D!LegacyMessage, D!LegacyMore, D!remaining, Size
    <2>2. D!Past(aux1, 8) = aux1 + 8
      BY <1>0, <2>1, PastFacts
    <2>3. body = aux1 + 12
      BY <1>0, <2>1, <2>2, PastFacts DEF D!LegacyBody
    <2>4. key \in Nat /\ key >= body /\ key <= Size
      <3>1. D!Past(body, 4) \in Nat /\ D!Past(body, 4) >= body /\ D!Past(body, 4) <= Size
        BY <1>0, <2>1, <2>3, PastFacts
      <3> DEFINE q == D!Past(body, 4)
      <3> HIDE DEF q
      <3>2. D!Past(q, 1) \in Nat /\ D!Past(q, 1) >= q /\ D!Past(q, 1) <= Size
        BY <1>0, <3>1, PastFacts DEF q
      <3> DEFINE r == D!Past(q, 1)
      <3> HIDE DEF r
      <3>3. D!Past(r, 1) \in Nat /\ D!Past(r, 1) >= r /\ D!Past(r, 1) <= Size
        BY <1>0, <3>2, PastFacts DEF r
      <3>4. key = D!Past(r, 1)
        BY DEF q, r
      <3> QED BY <1>0, <2>3, <3>1, <3>2, <3>3, <3>4 DEF q, r
    <2>5. D!LegacyKey = D!readBytes(key)
      BY DEF D!LegacyKey
    <2> HIDE DEF key
    <2>6. value \in Nat /\ value >= key /\ value <= Size
      BY <1>0, <2>4, <2>5, BytesFacts
    <2>7. end \in Nat /\ end >= value /\ end <= Size
      BY <1>0, <2>6, BytesFacts
    <2>8. aux1' = end /\ UNCHANGED <<given, aux2>>
          /\ made' = Append(made, [topic |-> aux2, value |-> D!readBytes(value).val])
      BY <1>5 DEF D!LegacyMessage, D!Emit
    <2>9. D!readBytes(value).val \in Seq(Bytes)
      BY <1>0, <2>6, ReadValue
    <2> HIDE DEF body, value, end
    <2>10. aux1' \in Nat /\ aux1' > aux1 /\ aux1' <= Size
      BY <1>0, <2>3, <2>4, <2>6, <2>7, <2>8
    <2> QED BY <1>0, <2>8, <2>9, <2>10, DecodingKept
  <1>6. CASE D!LegacyEnd
    <2>1. D!Past(aux1, 8) \in Nat /\ D!Past(aux1, 8) >= aux1 /\ (aux1 <= Size => D!Past(aux1, 8) <= Size)
      BY <1>0, PastFacts
    <2>2. D!LegacyBody \in Nat /\ D!LegacyBody >= D!Past(aux1, 8)
          /\ (D!Past(aux1, 8) <= Size => D!LegacyBody <= Size)
      BY <1>0, <2>1, PastFacts DEF D!LegacyBody
    <2>3. (aux1' = D!LegacyBody \/ aux1' = aux1) /\ UNCHANGED <<given, aux2, made>>
      BY <1>6 DEF D!LegacyEnd
    <2>4. aux1' \in Nat /\ aux1' >= aux1 /\ (aux1 <= Size => aux1' <= Size)
      BY <1>0, <2>1, <2>2, <2>3
    <2> QED BY <1>0, <2>3, <2>4, DecodingKept
  <1>7. CASE D!V2Record
    <2> DEFINE a == D!Varint(aux1).pos
               b == D!Past(a, 1)
               c == D!Varint(b).pos
               d == D!Varint(c).pos
               e == D!RecordKey.pos
               f == D!readVarBytes(e).pos
               g == D!Varint(f).pos
    <2>0. aux1 < Size
      BY <1>0, <1>7 DEF D!V2Record, D!V2More, D!remaining, Size
    <2>1. a \in Nat /\ a >= aux1 /\ a <= Size
      BY <1>0, <2>0, VarintFacts
    <2>2. b \in Nat /\ b >= a /\ b > aux1 /\ b <= Size
      <3>1. D!Past(a, 1) \in Nat /\ D!Past(a, 1) >= a /\ D!Past(a, 1) <= Size
            /\ (a + 1 <= Size => D!Past(a, 1) = a + 1)
        BY <1>0, <2>1, PastFacts
      <3> QED BY <1>0, <2>0, <2>1, <3>1
    <2>3. c \in Nat /\ c >= b /\ c <= Size
      BY <1>0, <2>2, VarintFacts
    <2>4. d \in Nat /\ d >= c /\ d <= Size
      BY <1>0, <2>3, VarintFacts
    <2>5. D!RecordKey = D!readVarBytes(d)
      BY DEF D!RecordKey
    <2>6. e \in Nat /\ e >= d /\ (D!NoWrap => e <= Size)
      BY <1>0, <2>4, <2>5, VarBytesFacts
    <2> HIDE DEF e
    <2>7. f \in Nat /\ f >= e /\ (D!NoWrap /\ e <= Size => f <= Size)
      BY <1>0, <2>6, VarBytesFacts
    <2>8. D!readVarBytes(e).val \in Seq(Bytes)
      BY <1>0, <2>6, ReadValue
    <2>9. /\ aux1' = g /\ UNCHANGED <<given, aux2>>
          /\ made' = Append(made, [topic |-> aux2, value |-> D!readVarBytes(e).val])
      BY <1>7 DEF D!V2Record, D!Emit, e
    <2> HIDE DEF f
    <2>10. g \in Nat /\ g >= f /\ (f <= Size => g <= Size)
      BY <1>0, <2>7, VarintFacts
    <2> HIDE DEF a, b, c, d, g
    <2>11. aux1' \in Nat /\ aux1' > aux1 /\ (D!NoWrap => aux1' <= Size)
      BY <1>0, <2>1, <2>2, <2>3, <2>4, <2>6, <2>7, <2>9, <2>10
    <2> QED BY <1>0, <2>8, <2>9, <2>11, DecodingKept
  <1>8. CASE D!V2RecordHeader
    <2> DEFINE a == D!readVarBytes(aux1).pos
               b == D!readVarBytes(a).pos
    <2>1. a \in Nat /\ a >= aux1 /\ (D!NoWrap /\ aux1 <= Size => a <= Size)
      BY <1>0, VarBytesFacts
    <2>2. b \in Nat /\ b >= a /\ (D!NoWrap /\ a <= Size => b <= Size)
      BY <1>0, <2>1, VarBytesFacts
    <2>3. aux1' = b /\ UNCHANGED <<given, aux2, made>>
      BY <1>8 DEF D!V2RecordHeader, D!PastHeader
    <2> HIDE DEF a, b
    <2>4. b >= aux1 /\ (D!NoWrap /\ aux1 <= Size => b <= Size)
      BY <1>0, <2>1, <2>2
    <2> QED BY <1>0, <2>2, <2>3, <2>4, DecodingKept
  <1>9. CASE D!V2RecordEnd \/ D!V2End
    <2>1. UNCHANGED <<given, aux1, aux2, made>>
      BY <1>9 DEF D!V2RecordEnd, D!V2End
    <2> QED BY <1>0, <2>1, DecodingKept
  <1> QED BY <1>1, <1>2, <1>3, <1>4, <1>5, <1>6, <1>7, <1>8, <1>9 DEF D!Next
(* So it holds of every request made of bytes. *)
LEMMA DecodingHolds ==
  ASSUME \A r \in ProduceRequests : r.bytes \in Seq(Bytes)
  PROVE  Spec => [](part = "Decoder" => Decoding)
  <1> DEFINE Inv == part = "Decoder" => Decoding
  <1>1. Init => Inv
    <2> SUFFICES ASSUME D!Init PROVE Decoding
      BY DEF Init
    <2>1. D!buf \in Seq(Bytes) /\ aux1 = 0 /\ aux2 = <<>> /\ made = <<>>
      BY DEF D!Init, D!buf
    <2>2. Size \in Nat
      BY <2>1, BufferFacts
    <2>3. made \in Seq([topic : Seq(Bytes), value : Seq(Bytes)]) /\ Len(made) = 0
      BY <2>1
    <2> QED BY <2>1, <2>2, <2>3 DEF Decoding
  <1>2. Inv /\ [Next]_vars => Inv'
    <2>1. ASSUME Decoding, UNCHANGED D!vars PROVE Decoding'
      <3>1. UNCHANGED <<given, aux1, aux2, made>>
        BY <2>1 DEF D!vars
      <3>2. aux1' \in Nat /\ aux1' >= aux1 /\ aux2' \in Seq(Bytes)
        BY <2>1, <3>1 DEF Decoding
      <3> QED BY <2>1, <3>1, <3>2, DecodingKept
    <2> QED BY <2>1, OtherParts, DecodingStep
  <1> QED BY <1>1, <1>2, PTL DEF Spec

(* No request, whatever its bytes, makes the reader leave its buffer, unless a
   varint in it is so large that its sum with the position wraps around: the
   checks that every read of the reader makes are enough. *)
THEOREM ReaderStaysInBounds ==
  ASSUME \A r \in ProduceRequests : r.bytes \in Seq(Bytes)
  PROVE  Spec => []InBounds
  <1>1. (part = "Decoder" => Decoding) => InBounds
    BY BufferFacts DEF InBounds, D!InBounds, Decoding, Size
  <1> QED BY <1>1, DecodingHolds, PTL

(* handleProduce never hands on more records than it has read bytes, whatever
   count a record batch claims: a loop over the count ends with the buffer. *)
THEOREM RecordsArePaidFor ==
  ASSUME \A r \in ProduceRequests : r.bytes \in Seq(Bytes)
  PROVE  Spec => []RecordsCostBytes
  <1>1. (part = "Decoder" => Decoding) => RecordsCostBytes
    BY DEF RecordsCostBytes, D!RecordsCostBytes, Decoding
  <1> QED BY <1>1, DecodingHolds, PTL

-----------------------------------------------------------------------------
(* Requests with messages of format 0 *)

(* Integers at a position of a byte sequence, as a Kafka client writes them *)
I16(w, p) == D!Signed8(w[p + 1]) * 256 + w[p + 2]
I32(w, p) == ((D!Signed8(w[p + 1]) * 256 + w[p + 2]) * 256 + w[p + 3]) * 256 + w[p + 4]

(* A message of format 0 that begins at p and ends before q: offset, size,
   checksum, magic, attributes, a key of k bytes or none, the value *)
MessageAt(w, p, q, k, value) ==
  /\ k \in Nat /\ value \in Seq(Bytes)
  /\ q = p + 26 + k + Len(value)
  /\ I32(w, p + 8) = 14 + k + Len(value)
  /\ w[p + 17] = 0
  /\ I32(w, p + 18) = k \/ (k = 0 /\ I32(w, p + 18) = -1)
  /\ I32(w, p + 22 + k) = Len(value)
  /\ SubSeq(w, p + 27 + k, p + 26 + k + Len(value)) = value

(* A request with no transactional id, one topic and one partition, whose
   messages begin at the positions in at *)
Layout(w, name, values, at, keys) ==
  /\ w \in Seq(Bytes) /\ name \in Seq(Bytes) /\ values \in Seq(Seq(Bytes))
  /\ at \in [1..(Len(values) + 1) -> 0..Len(w)]
  /\ I16(w, 0) = -1 /\ I32(w, 8) = 1
  /\ I16(w, 12) = Len(name) /\ SubSeq(w, 15, 14 + Len(name)) = name
  /\ I32(w, 14 + Len(name)) = 1
  /\ at[1] = 26 + Len(name) /\ at[Len(values) + 1] = Len(w)
  /\ \A i \in 1..Len(values) : MessageAt(w, at[i], at[i + 1], keys[i], values[i])

(* The first n bytes of it: a name of up to 29 bytes that is cut off is too
   short to be misread as records. *)
SentAs(r, w, name, values, at, keys, n) ==
  /\ Layout(w, name, values, at, keys)
  /\ n \in 0..Len(w) /\ r.bytes = SubSeq(w, 1, n)
  /\ r.whole => n = Len(w)
  /\ n = Len(w) \/ Len(name) <= 29
  /\ r.produced = [i \in 1..Len(values) |-> [topic |-> name, value |-> values[i]]]

(* The buffer holds the first n bytes of w. *)
Begins(w, n) == w \in Seq(Bytes) /\ n \in 0..Len(w) /\ D!buf = SubSeq(w, 1, n)

(* The buffer's bytes are the first n of w. *)
LEMMA BeginningBytes ==
  ASSUME NEW w, NEW n, Begins(w, n)
  PROVE  /\ D!buf \in Seq(Bytes) /\ Len(D!buf) = n /\ n \in Nat
         /\ \A i \in 1..n : D!buf[i] = w[i]
  <1>1. n \in Nat /\ n <= Len(w) /\ \A i \in 1..n : w[i] \in Bytes
    BY DEF Begins
  <1>2. /\ SubSeq(w, 1, n) \in Seq(Bytes) /\ Len(SubSeq(w, 1, n)) = IF 1 <= n THEN n - 1 + 1 ELSE 0
        /\ \A i \in 1..(n - 1 + 1) : SubSeq(w, 1, n)[i] = w[1 + i - 1]
    BY <1>1, SubSeqProperties
  <1> DEFINE s == SubSeq(w, 1, n)
  <1>3. D!buf = s
    BY DEF Begins
  <1> HIDE DEF s
  <1>4. s \in Seq(Bytes) /\ Len(s) = n /\ \A i \in 1..n : s[i] = w[i]
    BY <1>1, <1>2 DEF s
  <1> QED BY <1>1, <1>3, <1>4

(* An integer is read as it stands in w, or is 0 when it is cut off. *)
LEMMA BeginningInts ==
  ASSUME NEW w, NEW n, Begins(w, n), NEW p \in Nat
  PROVE  /\ D!Int16(p) = IF p + 2 <= n THEN I16(w, p) ELSE 0
         /\ D!Int32(p) = IF p + 4 <= n THEN I32(w, p) ELSE 0
         /\ p + 1 <= n => D!Int8(p) = D!Signed8(w[p + 1])
  <1>1. Len(D!buf) = n /\ n \in Nat /\ \A i \in 1..n : D!buf[i] = w[i]
    BY BeginningBytes
  <1>2. \A m \in Nat : D!Fits(p, m) <=> p + m <= n
    BY <1>1 DEF D!Fits
  <1>3. ASSUME NEW m \in Nat, p + m + 1 <= n PROVE D!Byte(p + m) = w[p + m + 1]
    BY <1>1, <1>3 DEF D!Byte
  <1>a. p + 0 = p /\ p + 0 + 1 = p + 1 /\ p + 1 + 1 = p + 2 /\ p + 2 + 1 = p + 3 /\ p + 3 + 1 = p + 4
    OBVIOUS
  <1>b. p + 1 <= n => D!Byte(p) = w[p + 1]
    BY <1>3, <1>a
  <1>c. p + 2 <= n => D!Byte(p) = w[p + 1] /\ D!Byte(p + 1) = w[p + 2]
    BY <1>1, <1>3, <1>a
  <1>d. p + 4 <= n => /\ D!Byte(p) = w[p + 1] /\ D!Byte(p + 1) = w[p + 2]
                      /\ D!Byte(p + 2) = w[p + 3] /\ D!Byte(p + 3) = w[p + 4]
    BY <1>1, <1>3, <1>a
  <1>4. D!Int16(p) = IF p + 2 <= n THEN I16(w, p) ELSE 0
    BY <1>2, <1>c DEF D!Int16, I16
  <1>5. D!Int32(p) = IF p + 4 <= n THEN I32(w, p) ELSE 0
    BY <1>2, <1>d DEF D!Int32, I32
  <1>6. p + 1 <= n => D!Int8(p) = D!Signed8(w[p + 1])
    BY <1>2, <1>b DEF D!Int8
  <1> QED BY <1>4, <1>5, <1>6

(* A field that is all there is skipped. *)
LEMMA BeginningPast ==
  ASSUME NEW w, NEW n, Begins(w, n), NEW p \in Nat, NEW m \in Nat
  PROVE  D!Past(p, m) = IF p + m <= n THEN p + m ELSE p
  BY BeginningBytes DEF D!Past, D!Fits

(* A length-prefixed field is read as it stands in w, or is empty when cut off. *)
LEMMA BeginningChunk ==
  ASSUME NEW w, NEW n, Begins(w, n), NEW p \in Nat, NEW m \in Int
  PROVE  D!Chunk(p, m) = IF m >= 0 /\ p + m <= n THEN [val |-> SubSeq(w, p + 1, p + m), pos |-> p + m]
                         ELSE [val |-> <<>>, pos |-> p]
  <1>1. Len(D!buf) = n /\ n \in Nat /\ (\A i \in 1..n : D!buf[i] = w[i]) /\ D!buf \in Seq(Bytes)
        /\ w \in Seq(Bytes) /\ n <= Len(w)
    BY BeginningBytes DEF Begins
  <1>2. ASSUME m >= 0, p + m <= n PROVE SubSeq(D!buf, p + 1, p + m) = SubSeq(w, p + 1, p + m)
    <2> DEFINE s == SubSeq(D!buf, p + 1, p + m)
               t == SubSeq(w, p + 1, p + m)
               a == p + 1
               b == p + m
    <2>1. a \in Int /\ b \in Int /\ b - a + 1 = m /\ (a <= b <=> m > 0)
      BY <1>2
    <2>2. \A i \in a..b : D!buf[i] \in Bytes /\ w[i] \in Bytes /\ D!buf[i] = w[i]
      BY <1>1, <1>2
    <2> HIDE DEF a, b
    <2>3. /\ SubSeq(D!buf, a, b) \in Seq(Bytes) /\ Len(SubSeq(D!buf, a, b)) = (IF a <= b THEN b - a + 1 ELSE 0)
          /\ \A i \in 1..(b - a + 1) : SubSeq(D!buf, a, b)[i] = D!buf[a + i - 1]
      BY <2>1, <2>2, SubSeqProperties
    <2>4. /\ SubSeq(w, a, b) \in Seq(Bytes) /\ Len(SubSeq(w, a, b)) = (IF a <= b THEN b - a + 1 ELSE 0)
          /\ \A i \in 1..(b - a + 1) : SubSeq(w, a, b)[i] = w[a + i - 1]
      BY <2>1, <2>2, SubSeqProperties
    <2>5. s = SubSeq(D!buf, a, b) /\ t = SubSeq(w, a, b)
      BY DEF a, b
    <2> HIDE DEF s, t
    <2>6. s \in Seq(Bytes) /\ t \in Seq(Bytes) /\ Len(s) = m /\ Len(t) = m
      BY <1>2, <2>1, <2>3, <2>4, <2>5
    <2>7. \A i \in 1..m : s[i] = t[i]
      <3> TAKE i \in 1..m
      <3>1. a + i - 1 \in a..b
        BY <2>1
      <3> QED BY <2>1, <2>2, <2>3, <2>4, <2>5, <3>1
    <2>8. s = t
      BY <2>6, <2>7, SeqEqual
    <2> QED BY <2>8 DEF s, t
  <1>3. D!Fits(p, m) <=> p + m <= n
    BY <1>1 DEF D!Fits
  <1>4. n \in Nat
    BY <1>1
  <1>5. CASE m >= 0 /\ p + m <= n
    <2> DEFINE s == SubSeq(D!buf, p + 1, p + m)
               t == SubSeq(w, p + 1, p + m)
    <2>1. s = t
      BY <1>2, <1>5
    <2>2. D!Chunk(p, m) = [val |-> s, pos |-> p + m]
      BY <1>3, <1>5 DEF D!Chunk
    <2> HIDE DEF s, t
    <2>3. D!Chunk(p, m) = [val |-> t, pos |-> p + m]
      BY <2>1, <2>2
    <2> QED BY <1>5, <2>3 DEF t
  <1>6. CASE ~(m >= 0 /\ p + m <= n)
    <2>1. m < 0 \/ ~D!Fits(p, m)
      BY <1>3, <1>4, <1>6
    <2> QED BY <1>6, <2>1 DEF D!Chunk
  <1> QED BY <1>5, <1>6

(* The first messages have been handed on. *)
HandedOn(values, name) ==
  /\ IsSeq(made) /\ Len(made) <= Len(values)
  /\ \A i \in 1..Len(made) : made[i] = [topic |-> name, value |-> values[i]]

(* Where handleProduce can be in the first n bytes of a request laid out so *)
ReadSoFar(w, name, values, at, n) ==
  LET complete == n = Len(w) => Len(made) = Len(values) IN
  /\ aux1 \in Nat
  /\ HandedOn(values, name)
  /\ status \in {"header", "topics", "partitions", "partition end", "legacy", "answer"}
  /\ status = "header" => aux1 = 0 /\ made = <<>>
  /\ status = "topics" =>
       \/ todo = 1 /\ aux1 = 12 /\ made = <<>>
       \/ todo = 0 /\ complete
  /\ status \in {"partitions", "partition end", "legacy"} => todo = 0
  /\ status = "partitions" =>
       \/ aux3 = 1 /\ aux1 = 18 + Len(name) /\ aux2 = name /\ made = <<>>
       \/ aux3 \in Int /\ n < Len(w) /\ n - aux1 < 25
       \/ aux3 = 0 /\ complete
  /\ status = "partition end" =>
       \/ aux3 \in Int /\ n < Len(w) /\ n - aux1 < 25
       \/ aux3 = 0 /\ complete
  /\ status = "legacy" => aux3 = 0 /\ aux2 = name /\ aux1 = at[Len(made) + 1]
  /\ status = "answer" => complete

(* However the request can be seen as laid out, handleProduce is somewhere in it. *)
Reading0 ==
  /\ given \in ProduceRequests
  /\ D!Format0 => \A w, name, values, at, keys, n :
       SentAs(given, w, name, values, at, keys, n) => ReadSoFar(w, name, values, at, n)

(* What the layout says of sizes *)
LEMMA LayoutSizes ==
  ASSUME NEW w, NEW name, NEW values, NEW at, NEW keys, Layout(w, name, values, at, keys)
  PROVE  /\ Len(w) \in Nat /\ Len(name) \in Nat /\ Len(values) \in Nat /\ Len(w) >= 26 + Len(name)
         /\ \A i \in 1..(Len(values) + 1) : at[i] \in Nat /\ at[i] <= Len(w)
         /\ \A i \in 1..Len(values) : i \in 1..(Len(values) + 1) /\ i + 1 \in 1..(Len(values) + 1) /\ at[i + 1] >= at[i] + 26
  <1>1. Len(w) \in Nat /\ Len(name) \in Nat /\ Len(values) \in Nat
    BY DEF Layout
  <1>2. \A i \in 1..(Len(values) + 1) : at[i] \in Nat /\ at[i] <= Len(w)
    <2>1. at \in [1..(Len(values) + 1) -> 0..Len(w)]
      BY DEF Layout
    <2>2. \A i \in 1..(Len(values) + 1) : at[i] \in 0..Len(w)
      BY <2>1
    <2> QED BY <1>1, <2>2
  <1>3. Len(w) >= 26 + Len(name)
    <2>1. 1 \in 1..(Len(values) + 1)
      BY <1>1
    <2> QED BY <1>1, <1>2, <2>1 DEF Layout
  <1>4. ASSUME NEW i \in 1..Len(values)
        PROVE  i \in 1..(Len(values) + 1) /\ i + 1 \in 1..(Len(values) + 1) /\ at[i + 1] >= at[i] + 26
    <2>1. i \in 1..(Len(values) + 1) /\ i + 1 \in 1..(Len(values) + 1)
      BY <1>1
    <2>2. MessageAt(w, at[i], at[i + 1], keys[i], values[i])
      BY DEF Layout
    <2>3. keys[i] \in Nat /\ Len(values[i]) \in Nat /\ at[i + 1] = at[i] + 26 + keys[i] + Len(values[i])
      BY <2>2 DEF MessageAt
    <2>4. at[i] \in Nat
      BY <1>2, <2>1
    <2> QED BY <2>1, <2>3, <2>4
  <1> QED BY <1>1, <1>2, <1>3, <1>4

(* The request header: the number of topics is read where it is, or is 0. *)
LEMMA HeaderRead ==
  ASSUME NEW w, NEW n, Begins(w, n), ~D!flexible, I16(w, 0) = -1, I32(w, 8) = 1
  PROVE  LET c == D!CountAt(D!Past(D!Past(D!Name(0).pos, 2), 4)) IN
         /\ c.pos \in 0..n
         /\ n >= 12 => c.val = 1 /\ c.pos = 12
         /\ n < 12 => c.val = 0
  <1> DEFINE a == D!Name(0).pos
             b == D!Past(a, 2)
             e == D!Past(b, 4)
  <1>1. n \in Nat
    BY BeginningBytes
  <1>2. a = IF n >= 2 THEN 2 ELSE 0
    <2>a. D!Past(0, 2) = IF 0 + 2 <= n THEN 0 + 2 ELSE 0
      BY BeginningPast
    <2>b. D!Int16(0) = IF 0 + 2 <= n THEN I16(w, 0) ELSE 0
      BY BeginningInts
    <2>1. D!Past(0, 2) = (IF n >= 2 THEN 2 ELSE 0) /\ D!Int16(0) = (IF n >= 2 THEN -1 ELSE 0)
      BY <1>1, <2>a, <2>b
    <2>2. D!Name(0) = D!Chunk(D!Past(0, 2), D!Int16(0))
      BY DEF D!Name, D!readString
    <2>3. CASE n >= 2
      <3>1. D!Name(0) = D!Chunk(2, -1)
        BY <2>1, <2>2, <2>3
      <3>2. D!Chunk(2, -1).pos = 2
        BY DEF D!Chunk
      <3> QED BY <2>3, <3>1, <3>2
    <2>4. CASE ~(n >= 2)
      <3>1. D!Name(0) = D!Chunk(0, 0)
        BY <2>1, <2>2, <2>4
      <3>2. D!Chunk(0, 0).pos = 0
        BY DEF D!Chunk
      <3> QED BY <2>4, <3>1, <3>2
    <2> QED BY <2>3, <2>4
  <1> HIDE DEF a
  <1>3. a \in Nat /\ b = IF a + 2 <= n THEN a + 2 ELSE a
    BY <1>1, <1>2, BeginningPast
  <1> HIDE DEF b
  <1>4. b \in Nat /\ e = IF b + 4 <= n THEN b + 4 ELSE b
    <2>1. b \in Nat
      BY <1>1, <1>3
    <2> QED BY <2>1, BeginningPast
  <1> HIDE DEF e
  <1>5. e \in Nat /\ e <= n /\ (n >= 12 => e = 8) /\ (n < 12 => e + 4 > n)
    BY <1>1, <1>2, <1>3, <1>4
  <1>6. D!CountAt(e) = [val |-> D!Int32(e), pos |-> D!Past(e, 4)]
    BY DEF D!CountAt
  <1>7. /\ D!Int32(e) = IF e + 4 <= n THEN I32(w, e) ELSE 0
        /\ D!Past(e, 4) = IF e + 4 <= n THEN e + 4 ELSE e
    BY <1>5, BeginningInts, BeginningPast
  <1> QED BY <1>1, <1>5, <1>6, <1>7 DEF a, b, e

(* Topic and number of partitions: read, or cut off *)
LEMMA TopicRead ==
  ASSUME NEW w, NEW n, NEW name, Begins(w, n), ~D!flexible, name \in Seq(Bytes), n >= 14,
         I16(w, 12) = Len(name), SubSeq(w, 15, 14 + Len(name)) = name, I32(w, 14 + Len(name)) = 1
  PROVE  LET c == D!CountAt(D!Name(12).pos) IN
         /\ c.val \in Int /\ c.pos \in 0..n
         /\ n >= 18 + Len(name) => D!Name(12).val = name /\ c.val = 1 /\ c.pos = 18 + Len(name)
         /\ n < 18 + Len(name) =>
              \/ c.val = 0
              \/ n < 14 + Len(name) /\ c.pos = 18
  <1> DEFINE len == Len(name)
             a == D!Name(12).pos
  <1>1. n \in Nat /\ len \in Nat /\ D!buf \in Seq(Bytes)
    BY BeginningBytes
  <1>2. D!Past(12, 2) = 14 /\ D!Int16(12) = len
    BY <1>1, BeginningPast, BeginningInts
  <1>3. D!Name(12) = D!Chunk(14, len)
    BY <1>2 DEF D!Name, D!readString
  <1>4. D!Chunk(14, len) = IF len >= 0 /\ 14 + len <= n THEN [val |-> SubSeq(w, 14 + 1, 14 + len), pos |-> 14 + len]
                           ELSE [val |-> <<>>, pos |-> 14]
    BY <1>1, BeginningChunk
  <1>5. /\ a = IF 14 + len <= n THEN 14 + len ELSE 14
        /\ 14 + len <= n => D!Name(12).val = name
    <2> DEFINE chunk == D!Chunk(14, len)
               s == SubSeq(w, 15, 14 + len)
    <2>1. 14 + 1 = 15
      OBVIOUS
    <2>2. chunk = IF 14 + len <= n THEN [val |-> s, pos |-> 14 + len] ELSE [val |-> <<>>, pos |-> 14]
      BY <1>1, <1>4, <2>1
    <2>3. s = name /\ D!Name(12) = chunk
      BY <1>3
    <2> HIDE DEF s, chunk
    <2>4. a = chunk.pos /\ D!Name(12).val = chunk.val
      BY <2>3
    <2> QED BY <1>1, <2>2, <2>3, <2>4
  <1> HIDE DEF a
  <1>6. a \in Nat
    BY <1>1, <1>5
  <1>7. D!CountAt(a) = [val |-> D!Int32(a), pos |-> D!Past(a, 4)]
    BY DEF D!CountAt
  <1>8. /\ D!Int32(a) = IF a + 4 <= n THEN I32(w, a) ELSE 0
        /\ D!Past(a, 4) = IF a + 4 <= n THEN a + 4 ELSE a
        /\ D!Int32(a) \in Int
    BY <1>1, <1>6, BeginningInts, BeginningPast, IntFacts
  <1> DEFINE c == D!CountAt(a)
  <1>9. c.val = D!Int32(a) /\ c.pos = D!Past(a, 4)
    BY <1>7
  <1> HIDE DEF c
  <1>10. CASE 14 + len <= n
    BY <1>1, <1>5, <1>8, <1>9, <1>10 DEF a, c
  <1>11. CASE ~(14 + len <= n)
    BY <1>1, <1>5, <1>8, <1>9, <1>11 DEF a, c
  <1> QED BY <1>10, <1>11

(* Where the records of a partition begin *)
LEMMA PartitionRead ==
  ASSUME NEW w, NEW n, Begins(w, n), NEW p \in Nat
  PROVE  LET start == D!Past(D!Past(p, 4), 4) IN
         /\ start \in Nat
         /\ p + 8 <= n => start = p + 8
         /\ n - p < 25 => n - start < 17
         /\ n - start < n - p \/ start = p
  <1> DEFINE a == D!Past(p, 4)
             start == D!Past(a, 4)
  <1>1. n \in Nat
    BY BeginningBytes
  <1>2. a = IF p + 4 <= n THEN p + 4 ELSE p
    BY BeginningPast
  <1>3. a \in Nat
    BY <1>1, <1>2
  <1> HIDE DEF a
  <1>4. start = IF a + 4 <= n THEN a + 4 ELSE a
    BY <1>3, BeginningPast
  <1> HIDE DEF start
  <1>5. /\ start \in Nat
        /\ p + 8 <= n => start = p + 8
        /\ n - p < 25 => n - start < 17
        /\ n - start < n - p \/ start = p
    BY <1>1, <1>2, <1>3, <1>4
  <1> QED BY <1>5 DEF a, start

(* A message of format 0 is read when all of it is there, and its value is what
   comes out. *)
LEMMA MessageRead ==
  ASSUME NEW w, NEW n, NEW q, NEW k, NEW value, Begins(w, n), aux1 \in Nat, aux1 + 12 <= n,
         MessageAt(w, aux1, q, k, value)
  PROVE  /\ D!LegacyWhole <=> q <= n
         /\ q <= n => D!readBytes(D!LegacyKey.pos) = [val |-> value, pos |-> q]
  <1> DEFINE p == aux1
             len == Len(value)
  <1>1. n \in Nat /\ p \in Nat /\ k \in Nat /\ len \in Nat /\ value \in Seq(Bytes) /\ q = p + 26 + k + len /\ Len(D!buf) = n
    BY BeginningBytes DEF MessageAt
  <1>2. ASSUME NEW x \in Nat, NEW m \in Nat, x + m <= n PROVE D!Past(x, m) = x + m
    BY <1>2, BeginningPast
  <1>3. ASSUME NEW x \in Nat, x + 4 <= n PROVE D!Int32(x) = I32(w, x)
    BY <1>3, BeginningInts
  <1>4. D!Past(p, 8) = p + 8 /\ D!LegacyBody = p + 12
    <2>1. D!Past(p, 8) = p + 8
      BY <1>1, <1>2
    <2>2. D!Past(p + 8, 4) = p + 12
      BY <1>1, <1>2
    <2> QED BY <2>1, <2>2 DEF D!LegacyBody
  <1>5. D!LegacySize = 14 + k + len
    <2>1. D!Int32(p + 8) = I32(w, p + 8)
      BY <1>1, <1>3
    <2> QED BY <1>4, <2>1 DEF D!LegacySize, MessageAt
  <1>6. D!LegacyWhole <=> q <= n
    <2>1. D!Fits(p + 12, 14 + k + len) <=> q <= n
      BY <1>1 DEF D!Fits
    <2> QED BY <1>1, <1>4, <1>5, <2>1 DEF D!LegacyWhole
  <1>7. ASSUME q <= n PROVE D!readBytes(D!LegacyKey.pos) = [val |-> value, pos |-> q]
    <2>1. D!Past(D!Past(D!Past(D!LegacyBody, 4), 1), 1) = p + 18
      <3>1. D!Past(p + 12, 4) = p + 16
        BY <1>1, <1>2, <1>7
      <3>2. D!Past(p + 16, 1) = p + 17
        BY <1>1, <1>2, <1>7
      <3>3. D!Past(p + 17, 1) = p + 18
        BY <1>1, <1>2, <1>7
      <3> QED BY <1>4, <3>1, <3>2, <3>3
    <2>2. D!LegacyKey = D!Chunk(D!Past(p + 18, 4), D!Int32(p + 18))
      BY <2>1 DEF D!LegacyKey, D!readBytes
    <2>3. D!Past(p + 18, 4) = p + 22 /\ D!Int32(p + 18) = I32(w, p + 18)
      <3>1. p + 18 \in Nat /\ p + 18 + 4 <= n /\ p + 18 + 4 = p + 22
        BY <1>1, <1>7
      <3>2. D!Past(p + 18, 4) = p + 18 + 4
        BY <1>2, <3>1
      <3> QED BY <1>3, <3>1, <3>2
    <2>4. D!LegacyKey = D!Chunk(p + 22, I32(w, p + 18))
      BY <2>2, <2>3
    <2>5. D!LegacyKey.pos = p + 22 + k
      <3>1. CASE I32(w, p + 18) = k
        <4>1. D!Chunk(p + 22, k) = IF k >= 0 /\ p + 22 + k <= n THEN [val |-> SubSeq(w, p + 22 + 1, p + 22 + k), pos |-> p + 22 + k]
                                   ELSE [val |-> <<>>, pos |-> p + 22]
          <5> DEFINE x == p + 22
          <5>1. x \in Nat /\ k \in Int
            BY <1>1
          <5> HIDE DEF x
          <5>2. D!Chunk(x, k) = IF k >= 0 /\ x + k <= n THEN [val |-> SubSeq(w, x + 1, x + k), pos |-> x + k]
                                ELSE [val |-> <<>>, pos |-> x]
            BY <5>1, BeginningChunk
          <5> QED BY <5>2 DEF x
        <4> DEFINE s == SubSeq(w, p + 22 + 1, p + 22 + k)
        <4> HIDE DEF s
        <4>2. D!Chunk(p + 22, k) = IF k >= 0 /\ p + 22 + k <= n THEN [val |-> s, pos |-> p + 22 + k]
                                   ELSE [val |-> <<>>, pos |-> p + 22]
          BY <4>1 DEF s
        <4>3. k >= 0 /\ p + 22 + k <= n
          BY <1>1, <1>7
        <4> QED BY <2>4, <3>1, <4>2, <4>3
      <3>2. CASE k = 0 /\ I32(w, p + 18) = -1
        <4>1. D!Chunk(p + 22, -1).pos = p + 22
          BY DEF D!Chunk
        <4> QED BY <1>1, <2>4, <3>2, <4>1
      <3> QED BY <3>1, <3>2 DEF MessageAt
    <2> DEFINE x == p + 22 + k
               y == p + 26 + k
    <2>6. x \in Nat /\ y \in Nat /\ x + 4 = y /\ x + 4 <= n /\ y + len = q /\ y + 1 = p + 27 + k
      BY <1>1, <1>7
    <2>7. I32(w, x) = len /\ SubSeq(w, y + 1, y + len) = value
      BY <2>6 DEF MessageAt
    <2>8. D!LegacyKey.pos = x
      BY <2>5
    <2> HIDE DEF x, y
    <2>9. D!readBytes(x) = D!Chunk(y, len)
      <3>1. D!Past(x, 4) = y /\ D!Int32(x) = len
        BY <1>2, <1>3, <2>6, <2>7
      <3> QED BY <3>1 DEF D!readBytes
    <2>10. D!Chunk(y, len) = IF len >= 0 /\ y + len <= n THEN [val |-> SubSeq(w, y + 1, y + len), pos |-> y + len]
                             ELSE [val |-> <<>>, pos |-> y]
      BY <1>1, <2>6, BeginningChunk
    <2>11. len >= 0 /\ y + len <= n
      BY <1>1, <1>7, <2>6
    <2>12. D!Chunk(y, len) = [val |-> SubSeq(w, y + 1, y + len), pos |-> y + len]
      BY <2>10, <2>11
    <2> QED BY <2>6, <2>7, <2>8, <2>9, <2>12
  <1> QED BY <1>6, <1>7

(* Every step of handleProduce keeps that. *)
LEMMA Reading0Step ==
  ASSUME Reading0, D!Next
  PROVE  Reading0'
  <1>1. given' = given /\ given \in ProduceRequests
    <2>1. given' = given
      BY DEF D!Next, D!ReadHeader, D!ReadTopic, D!TopicsEnd, D!ReadPartition, D!PartitionEnd, D!PartitionsEnd,
             D!LegacyMessage, D!LegacyEnd, D!V2Record, D!V2RecordHeader, D!V2RecordEnd, D!V2End
    <2> QED BY <2>1 DEF Reading0
  <1>2. D!Format0' <=> D!Format0
    BY <1>1 DEF D!Format0
  <1> SUFFICES ASSUME D!Format0, NEW w, NEW name, NEW values, NEW at, NEW keys, NEW n,
                      SentAs(given, w, name, values, at, keys, n)
               PROVE  ReadSoFar(w, name, values, at, n)'
    BY <1>1, <1>2 DEF Reading0
  <1>3. ReadSoFar(w, name, values, at, n)
    BY DEF Reading0
  <1>4. Begins(w, n) /\ Layout(w, name, values, at, keys)
    BY DEF SentAs, Begins, Layout, D!buf
  <1> DEFINE len == Len(name)
             m == Len(values)
  <1>5. /\ Len(w) \in Nat /\ len \in Nat /\ m \in Nat /\ Len(w) >= 26 + len
        /\ \A i \in 1..(m + 1) : at[i] \in Nat /\ at[i] <= Len(w)
        /\ \A i \in 1..m : i \in 1..(m + 1) /\ i + 1 \in 1..(m + 1) /\ at[i + 1] >= at[i] + 26
    BY <1>4, LayoutSizes
  <1>6. n \in Nat /\ n <= Len(w) /\ Len(D!buf) = n /\ (n = Len(w) \/ len <= 29)
    BY <1>4, <1>5, BeginningBytes DEF SentAs
  <1>7. /\ ~D!flexible /\ (\A p : D!PastTags(p) = p) /\ (\A p : D!remaining(p) = n - p)
        /\ (\A k : D!Exhausted(k) <=> n - aux1 < k)
    <2>1. ~D!flexible
      BY DEF D!Format0, D!flexible
    <2> QED BY <1>6, <2>1 DEF D!PastTags, D!remaining, D!Exhausted
  <1>8. /\ aux1 \in Nat /\ HandedOn(values, name)
        /\ status \in {"header", "topics", "partitions", "partition end", "legacy", "answer"}
    BY <1>3 DEF ReadSoFar
  <1>9. Len(made) \in Nat /\ Len(made) <= m
    <2>1. \A E : \A s \in Seq(E) : Len(s) \in Nat
      OBVIOUS
    <2> QED BY <1>8, <2>1 DEF HandedOn, IsSeq
  <1>a. made' = made => HandedOn(values, name)'
    BY <1>8 DEF HandedOn
  <1>b. aux1 \in Nat /\ n \in Nat
    BY <1>6, <1>8
  <1> DEFINE complete == n = Len(w) => Len(made) = Len(values)
  <1>10. CASE D!ReadHeader
    <2> DEFINE c == D!CountAt(D!Past(D!Past(D!Name(0).pos, 2), 4))
    <2>1. status = "header" /\ aux1 = 0 /\ made = <<>> /\ made' = made
      BY <1>3, <1>10 DEF D!ReadHeader, ReadSoFar
    <2>2. todo' = c.val /\ aux1' = c.pos /\ D!Continue("topics")
      BY <1>10, <2>1 DEF D!ReadHeader
    <2>3. c.pos \in 0..n /\ (n >= 12 => c.val = 1 /\ c.pos = 12) /\ (n < 12 => c.val = 0)
      BY <1>4, <1>7, HeaderRead DEF Layout
    <2> HIDE DEF c
    <2>4. status' = "topics"
      BY <1>6, <2>2, <2>3 DEF D!Continue
    <2>5. n < 12 => n # Len(w)
      BY <1>5, <1>6
    <2>6. (todo' = 1 /\ aux1' = 12 /\ made' = <<>>) \/ (todo' = 0 /\ complete')
      BY <1>6, <2>1, <2>2, <2>3, <2>5
    <2>7. aux1' \in Nat
      BY <1>6, <2>2, <2>3
    <2> QED BY <1>a, <2>1, <2>4, <2>6, <2>7 DEF ReadSoFar
  <1>11. CASE D!ReadTopic
    <2> DEFINE c == D!CountAt(D!Name(12).pos)
    <2>1. status = "topics" /\ todo > 0 /\ ~D!Exhausted(2) /\ made' = made /\ todo' = todo - 1
      BY <1>11 DEF D!ReadTopic
    <2>2. todo = 1 /\ aux1 = 12 /\ made = <<>>
      BY <1>3, <2>1 DEF ReadSoFar
    <2>3. n >= 14
      BY <1>6, <1>7, <2>1, <2>2
    <2>4. aux2' = D!Name(12).val /\ aux3' = c.val /\ aux1' = c.pos /\ D!Continue("partitions")
      BY <1>11, <2>2 DEF D!ReadTopic
    <2>5. /\ c.val \in Int /\ c.pos \in 0..n
          /\ n >= 18 + len => D!Name(12).val = name /\ c.val = 1 /\ c.pos = 18 + len
          /\ n < 18 + len => c.val = 0 \/ (n < 14 + len /\ c.pos = 18)
      BY <1>4, <1>7, <2>3, TopicRead DEF Layout
    <2> HIDE DEF c
    <2>6. status' = "partitions" /\ todo' = 0 /\ aux1' \in Nat
      BY <1>6, <2>1, <2>2, <2>4, <2>5 DEF D!Continue
    <2>7. n < 18 + len => n < Len(w) /\ n # Len(w)
      BY <1>5, <1>6
    <2>8. \/ aux3' = 1 /\ aux1' = 18 + len /\ aux2' = name /\ made' = <<>>
          \/ aux3' \in Int /\ n < Len(w) /\ n - aux1' < 25
          \/ aux3' = 0 /\ complete'
      <3>1. CASE n >= 18 + len
        BY <2>1, <2>2, <2>4, <2>5, <3>1
      <3>2. CASE n < 18 + len /\ c.val = 0
        BY <2>4, <2>7, <3>2
      <3>3. CASE n < 14 + len /\ c.pos = 18
        <4>1. n < 18 + len /\ len <= 29
          BY <1>5, <1>6, <2>7, <3>3
        <4> QED BY <1>5, <1>6, <2>4, <2>5, <2>7, <3>3, <4>1
      <3> QED BY <1>5, <1>6, <2>5, <3>1, <3>2, <3>3
    <2> QED BY <1>a, <2>1, <2>6, <2>8 DEF ReadSoFar
  <1>12. CASE D!TopicsEnd
    <2>1. status = "topics" /\ (todo <= 0 \/ D!Exhausted(2)) /\ aux1' = aux1 /\ status' = "answer" /\ made' = made
      BY <1>7, <1>12 DEF D!TopicsEnd
    <2>2. (todo = 1 /\ aux1 = 12) \/ (todo = 0 /\ complete)
      BY <1>3, <2>1 DEF ReadSoFar
    <2>3. complete'
      BY <1>5, <1>6, <1>7, <2>1, <2>2
    <2> QED BY <1>8, <1>a, <2>1, <2>3 DEF ReadSoFar
  <1>13. CASE D!ReadPartition
    <2> DEFINE start == D!Past(D!Past(aux1, 4), 4)
               magic == D!Past(D!Past(D!Past(start, 8), 4), 4)
    <2>1. /\ status = "partitions" /\ aux3 > 0 /\ ~D!Exhausted(4) /\ aux3' = aux3 - 1
          /\ made' = made /\ todo' = todo /\ aux2' = aux2 /\ todo = 0
      BY <1>3, <1>13 DEF D!ReadPartition, ReadSoFar
    <2>2. /\ n - start < 17 => status' = "partition end" /\ aux1' = start
          /\ ~(n - start < 17) /\ D!Int8(magic) # 2 => status' = "legacy" /\ aux1' = start
      <3>1. D!remaining(start) = n - start /\ n \in Nat
        BY <1>7, <1>b
      <3>a. start \in Nat
        BY <1>4, <1>8, PartitionRead
      <3>2. CASE n - start < 17
        <4>1. D!remaining(start) < 17 /\ ~(D!remaining(start) >= 17)
          <5> HIDE DEF start
          <5> QED BY <3>1, <3>2, <3>a
        <4> QED BY <1>13, <3>2, <4>1 DEF D!ReadPartition
      <3>3. CASE ~(n - start < 17)
        <4>1. ~(D!remaining(start) < 17)
          BY <3>1, <3>3
        <4> QED BY <1>13, <3>3, <4>1 DEF D!ReadPartition
      <3> QED BY <3>2, <3>3
    <2>3. /\ start \in Nat
          /\ aux1 + 8 <= n => start = aux1 + 8
          /\ n - aux1 < 25 => n - start < 17
          /\ n - start < n - aux1 \/ start = aux1
      BY <1>4, <1>8, PartitionRead
    <2>4. CASE aux3 \in Int /\ n < Len(w) /\ n - aux1 < 25
      <3>1. status' = "partition end" /\ aux1' = start
        BY <2>2, <2>3, <2>4
      <3> HIDE DEF start
      <3>2. aux3' \in Int /\ n < Len(w) /\ n - aux1' < 25 /\ aux1' \in Nat
        <4>1. n - start < 25 /\ start \in Nat
          BY <1>b, <2>3, <2>4
        <4>2. aux3 - 1 \in Int
          BY <2>4
        <4> QED BY <2>1, <2>4, <3>1, <4>1, <4>2
      <3> QED BY <1>a, <2>1, <3>1, <3>2 DEF ReadSoFar
    <2>5. CASE aux3 = 1 /\ aux1 = 18 + len /\ aux2 = name /\ made = <<>>
      <3>1. at[1] = 26 + len /\ at[m + 1] = Len(w) /\ Len(made) = 0 /\ aux3' = 0
        BY <1>4, <2>1, <2>5 DEF Layout
      <3>2. CASE n - start < 17
        <4>1. status' = "partition end" /\ aux1' = start
          BY <2>2, <3>2
        <4> HIDE DEF start
        <4>2. complete
          <5> SUFFICES ASSUME n = Len(w) PROVE m = 0
            BY <3>1
          <5>1. start = at[1]
            BY <1>5, <1>6, <2>3, <2>5, <3>1
          <5>2. m # 0 => at[1] + 26 <= Len(w)
            <6> SUFFICES ASSUME m # 0 PROVE at[1] + 26 <= Len(w)
              OBVIOUS
            <6>1. 1 \in 1..m
              BY <1>5
            <6>2. at[1] \in Nat /\ at[1 + 1] \in Nat /\ at[1 + 1] <= Len(w) /\ at[1 + 1] >= at[1] + 26
              BY <1>5, <6>1
            <6> QED BY <1>5, <6>2
          <5> QED BY <1>5, <1>6, <2>3, <3>1, <3>2, <5>1, <5>2
        <4>3. complete' /\ aux1' \in Nat
          BY <2>1, <2>3, <4>1, <4>2
        <4> QED BY <1>a, <2>1, <3>1, <4>1, <4>3 DEF ReadSoFar
      <3>3. CASE ~(n - start < 17)
        <4>1. aux1 + 8 <= n /\ start = 26 + len /\ start + 17 <= n
          <5> HIDE DEF start
          <5> QED BY <1>5, <1>6, <2>3, <2>5, <3>3
        <4>2. m # 0
          BY <1>5, <1>6, <3>1, <4>1
        <4>3. 1 \in 1..m /\ MessageAt(w, at[1], at[1 + 1], keys[1], values[1])
          <5>1. 1 \in 1..m
            BY <1>5, <4>2
          <5> QED BY <1>4, <5>1 DEF Layout
        <4>4. magic = start + 16
          <5> HIDE DEF start
          <5>a. start \in Nat /\ start + 8 \in Nat /\ start + 12 \in Nat
            BY <2>3
          <5>b. /\ start + 8 <= n /\ start + 8 + 4 <= n /\ start + 12 + 4 <= n
                /\ start + 8 + 4 = start + 12 /\ start + 12 + 4 = start + 16
            BY <1>b, <4>1, <5>a
          <5>1. D!Past(start, 8) = start + 8
            BY <1>4, <5>a, <5>b, BeginningPast
          <5>2. D!Past(start + 8, 4) = start + 8 + 4
            <6> DEFINE x == start + 8
            <6>1. x \in Nat /\ x + 4 <= n
              BY <5>a, <5>b
            <6> HIDE DEF x
            <6>2. D!Past(x, 4) = x + 4
              BY <1>4, <6>1, BeginningPast
            <6> QED BY <6>2 DEF x
          <5>3. D!Past(start + 12, 4) = start + 12 + 4
            <6> DEFINE x == start + 12
            <6>1. x \in Nat /\ x + 4 <= n
              BY <5>a, <5>b
            <6> HIDE DEF x
            <6>2. D!Past(x, 4) = x + 4
              BY <1>4, <6>1, BeginningPast
            <6> QED BY <6>2 DEF x
          <5> QED BY <5>b, <5>1, <5>2, <5>3
        <4> HIDE DEF start, magic
        <4>5. D!Int8(magic) = 0
          <5>1. magic \in Nat /\ magic + 1 <= n /\ magic + 1 = at[1] + 17
            BY <1>5, <1>6, <2>3, <3>1, <4>1, <4>4
          <5>2. D!Int8(magic) = D!Signed8(w[magic + 1])
            BY <1>4, <5>1, BeginningInts
          <5>3. w[magic + 1] = 0
            BY <4>3, <5>1 DEF MessageAt
          <5> QED BY <5>2, <5>3 DEF D!Signed8
        <4>6. status' = "legacy" /\ aux1' = start
          BY <2>2, <3>3, <4>5
        <4>7. aux1' = at[Len(made') + 1] /\ aux1' \in Nat
          BY <2>1, <2>3, <3>1, <4>1, <4>6
        <4> QED BY <1>a, <2>1, <2>5, <3>1, <4>6, <4>7 DEF ReadSoFar
      <3> QED BY <3>2, <3>3
    <2>6. \/ aux3 = 1 /\ aux1 = 18 + len /\ aux2 = name /\ made = <<>>
          \/ aux3 \in Int /\ n < Len(w) /\ n - aux1 < 25
          \/ aux3 = 0
      BY <1>3, <2>1 DEF ReadSoFar
    <2> QED BY <2>1, <2>4, <2>5, <2>6
  <1>14. CASE D!PartitionEnd
    <2>1. status = "partition end" /\ aux1' = aux1 /\ status' = "partitions" /\ made' = made /\ aux3' = aux3 /\ todo' = todo
      BY <1>7, <1>14 DEF D!PartitionEnd
    <2>2. todo = 0 /\ ((aux3 \in Int /\ n < Len(w) /\ n - aux1 < 25) \/ (aux3 = 0 /\ complete))
      BY <1>3, <2>1 DEF ReadSoFar
    <2> QED BY <1>8, <1>a, <2>1, <2>2 DEF ReadSoFar
  <1>15. CASE D!PartitionsEnd
    <2>1. /\ status = "partitions" /\ (aux3 <= 0 \/ D!Exhausted(4)) /\ aux1' = aux1 /\ status' = "topics"
          /\ made' = made /\ todo' = todo
      BY <1>7, <1>15 DEF D!PartitionsEnd
    <2>2. todo = 0 /\ (\/ aux3 = 1 /\ aux1 = 18 + len
                       \/ n < Len(w)
                       \/ complete)
      BY <1>3, <2>1 DEF ReadSoFar
    <2>3. complete
      BY <1>5, <1>6, <1>7, <2>1, <2>2
    <2> QED BY <1>8, <1>a, <2>1, <2>2, <2>3 DEF ReadSoFar
  <1>16. CASE D!LegacyMessage
    <2> DEFINE i == Len(made) + 1
               value == D!readBytes(D!LegacyKey.pos)
    <2>1. /\ status = "legacy" /\ D!LegacyMore /\ D!LegacyWhole /\ aux1' = value.pos /\ status' = status
          /\ made' = Append(made, [topic |-> aux2, value |-> value.val]) /\ todo' = todo /\ aux3' = aux3 /\ aux2' = aux2
      BY <1>16 DEF D!LegacyMessage, D!Emit
    <2>2. todo = 0 /\ aux3 = 0 /\ aux2 = name /\ aux1 = at[i] /\ aux1 + 12 <= n
      <3>1. todo = 0 /\ aux3 = 0 /\ aux2 = name /\ aux1 = at[i]
        BY <1>3, <2>1 DEF ReadSoFar
      <3>2. n - aux1 >= 12
        BY <1>7, <2>1 DEF D!LegacyMore
      <3>3. aux1 + 12 <= n
        BY <1>b, <3>2
      <3> QED BY <3>1, <3>3
    <2>3. i \in 1..m
      <3>1. i \in 1..(m + 1)
        BY <1>5, <1>9
      <3>2. i # m + 1
        <4>1. at[m + 1] = Len(w)
          BY <1>4 DEF Layout
        <4>2. Len(w) \in Nat /\ n <= Len(w) /\ aux1 + 12 <= n
          BY <1>5, <1>6, <2>2
        <4>3. aux1 # Len(w)
          BY <1>b, <4>2
        <4> QED BY <2>2, <4>1, <4>3
      <3> QED BY <1>5, <3>1, <3>2
    <2>4. MessageAt(w, aux1, at[i + 1], keys[i], values[i])
      BY <1>4, <2>2, <2>3 DEF Layout
    <2>5. value = [val |-> values[i], pos |-> at[i + 1]]
      BY <1>4, <1>8, <2>1, <2>2, <2>4, MessageRead
    <2> HIDE DEF value
    <2>6. aux1' = at[i + 1] /\ made' = Append(made, [topic |-> name, value |-> values[i]]) /\ at[i + 1] \in Nat
      BY <1>5, <2>1, <2>2, <2>3, <2>5
    <2>7. PICK E : made \in Seq(E)
      BY <1>8 DEF HandedOn, IsSeq
    <2> DEFINE x == [topic |-> name, value |-> values[i]]
    <2>8. /\ made' \in Seq(E \cup {x}) /\ Len(made') = i
          /\ \A j \in 1..Len(made) : made'[j] = made[j]
          /\ made'[i] = x
      <3> HIDE DEF x
      <3>1. made' = Append(made, x)
        BY <2>6 DEF x
      <3> QED BY <2>7, <3>1, AppendAny
    <2>9. HandedOn(values, name)'
      <3>1. \A j \in 1..i : j \in 1..Len(made) \/ j = i
        BY <1>9
      <3>2. \A j \in 1..i : made'[j] = [topic |-> name, value |-> values[j]]
        BY <1>8, <2>8, <3>1 DEF HandedOn
      <3>3. IsSeq(made') /\ Len(made') <= m
        BY <1>5, <2>3, <2>8 DEF IsSeq
      <3> QED BY <2>8, <3>2, <3>3 DEF HandedOn
    <2> QED BY <2>1, <2>2, <2>6, <2>8, <2>9 DEF ReadSoFar
  <1>17. CASE D!LegacyEnd
    <2> DEFINE i == Len(made) + 1
    <2>1. /\ status = "legacy" /\ ~(D!LegacyMore /\ D!LegacyWhole) /\ status' = "partition end"
          /\ aux1' = IF D!LegacyMore THEN D!LegacyBody ELSE aux1
          /\ made' = made /\ todo' = todo /\ aux3' = aux3
      BY <1>17 DEF D!LegacyEnd
    <2>2. todo = 0 /\ aux3 = 0 /\ aux1 = at[i]
      BY <1>3, <2>1 DEF ReadSoFar
    <2>3. complete
      <3> SUFFICES ASSUME n = Len(w), Len(made) # m PROVE FALSE
        OBVIOUS
      <3>1. i \in 1..m
        BY <1>5, <1>9
      <3>2. MessageAt(w, aux1, at[i + 1], keys[i], values[i]) /\ at[i + 1] <= n /\ at[i + 1] >= aux1 + 26 /\ at[i + 1] \in Nat
        BY <1>4, <1>5, <2>2, <3>1 DEF Layout
      <3>3. aux1 + 12 <= n /\ n - aux1 >= 12
        <4>1. at[i + 1] \in Nat /\ at[i + 1] <= n /\ at[i + 1] >= aux1 + 26
          BY <3>2
        <4> HIDE DEF i
        <4> QED BY <1>b, <4>1
      <3>4. D!LegacyMore
        BY <1>7, <3>3 DEF D!LegacyMore
      <3>5. D!LegacyWhole
        BY <1>4, <1>8, <3>2, <3>3, MessageRead
      <3> QED BY <2>1, <3>4, <3>5
    <2>4. aux1' \in Nat
      <3>1. D!buf \in Seq(Bytes)
        BY <1>4, BeginningBytes
      <3>2. D!Past(aux1, 8) \in Nat
        BY <1>8, <3>1, PastFacts
      <3>3. D!LegacyBody \in Nat
        BY <3>1, <3>2, PastFacts DEF D!LegacyBody
      <3> QED BY <1>8, <2>1, <3>3
    <2> QED BY <1>a, <2>1, <2>2, <2>3, <2>4 DEF ReadSoFar
  <1>18. CASE D!V2Record \/ D!V2RecordHeader \/ D!V2RecordEnd \/ D!V2End
    BY <1>8, <1>18 DEF D!V2Record, D!V2RecordHeader, D!V2RecordEnd, D!V2End
  <1> QED BY <1>10, <1>11, <1>12, <1>13, <1>14, <1>15, <1>16, <1>17, <1>18 DEF D!Next

(* The records that handleProduce decodes from a request with one topic of
   messages of format 0 are those that the client put into it, in their order
   and under their topic; of a request that is cut off anywhere they are the
   first of them, and nothing is made up.  This holds for every request of a
   version from 3 to 8 that is laid out as the protocol says, with any number of
   messages, keys or none, and values of any length, if a cut-off request's
   topic has no more than 29 bytes. *)
THEOREM Format0IsDecoded ==
  ASSUME \A r \in ProduceRequests : r.version \in 3..8 /\ r.topics = 1 /\ r.magic = 0 =>
           \E w, name, values, at, keys, n : SentAs(r, w, name, values, at, keys, n)
  PROVE  Spec => []DecodesFormat0
  <1>1. D!Init => Reading0
    <2> SUFFICES ASSUME D!Init, NEW w, NEW name, NEW values, NEW at, NEW keys, NEW n,
                        SentAs(given, w, name, values, at, keys, n)
                 PROVE  ReadSoFar(w, name, values, at, n)
      BY DEF Reading0, D!Init
    <2>1. aux1 = 0 /\ status = "header" /\ made = <<>>
      BY DEF D!Init
    <2>2. <<>> \in Seq({}) /\ Len(made) = 0 /\ Len(values) \in Nat
      BY <2>1 DEF SentAs, Layout
    <2>3. HandedOn(values, name)
      BY <2>1, <2>2 DEF HandedOn, IsSeq
    <2> QED BY <2>1, <2>3 DEF ReadSoFar
  <1>2. Reading0 /\ [D!Next]_D!vars => Reading0'
    <2> SUFFICES ASSUME Reading0, [D!Next]_D!vars PROVE Reading0'
      OBVIOUS
    <2>1. CASE UNCHANGED D!vars
      <3>1. /\ given' = given /\ todo' = todo /\ made' = made /\ status' = status
            /\ aux1' = aux1 /\ aux2' = aux2 /\ aux3' = aux3
        BY <2>1 DEF D!vars
      <3>2. D!Format0' <=> D!Format0
        BY <3>1 DEF D!Format0
      <3> SUFFICES ASSUME D!Format0, NEW w, NEW name, NEW values, NEW at, NEW keys, NEW n,
                          SentAs(given, w, name, values, at, keys, n)
                   PROVE  ReadSoFar(w, name, values, at, n)'
        BY <3>1, <3>2 DEF Reading0
      <3>3. ReadSoFar(w, name, values, at, n)
        BY DEF Reading0
      <3>4. HandedOn(values, name)' <=> HandedOn(values, name)
        BY <3>1 DEF HandedOn
      <3> QED BY <3>1, <3>3, <3>4 DEF ReadSoFar
    <2> QED BY <2>1, Reading0Step
  <1>3. Reading0 => D!DecodesFormat0
    <2> SUFFICES ASSUME Reading0, D!Format0
                 PROVE  D!IsPrefix(made, given.produced) /\ (given.whole /\ status = "answer" => made = given.produced)
      BY DEF D!DecodesFormat0
    <2>1. PICK w, name, values, at, keys, n : SentAs(given, w, name, values, at, keys, n)
      BY DEF Reading0, D!Format0
    <2>2. ReadSoFar(w, name, values, at, n)
      BY <2>1 DEF Reading0
    <2> DEFINE m == Len(values)
               s == [i \in 1..m |-> [topic |-> name, value |-> values[i]]]
    <2>3. given.produced = s /\ m \in Nat /\ (given.whole => n = Len(w))
      BY <2>1 DEF SentAs, Layout
    <2>4. PICK E : made \in Seq(E)
      BY <2>2 DEF ReadSoFar, HandedOn, IsSeq
    <2>5. s \in Seq({[topic |-> name, value |-> values[i]] : i \in 1..m}) /\ Len(s) = m
      BY <2>3
    <2>6. Len(made) \in Nat /\ Len(made) <= m /\ \A i \in 1..Len(made) : made[i] = s[i]
      <3>1. Len(made) \in Nat
        BY <2>4
      <3>2. Len(made) <= m /\ \A i \in 1..Len(made) : made[i] = [topic |-> name, value |-> values[i]]
        BY <2>2 DEF ReadSoFar, HandedOn
      <3>3. \A i \in 1..Len(made) : i \in 1..m
        BY <2>3, <3>1, <3>2
      <3> QED BY <3>1, <3>2, <3>3
    <2> DEFINE F == {[topic |-> name, value |-> values[i]] : i \in 1..m}
    <2> HIDE DEF s
    <2>7. SubSeq(made, 1, Len(made)) = SubSeq(s, 1, Len(made))
      <3> DEFINE k == Len(made)
                 a == SubSeq(made, 1, Len(made))
                 b == SubSeq(s, 1, Len(made))
      <3>1. k \in Nat /\ (\A i \in 1..k : made[i] \in E \cup F /\ s[i] \in E \cup F)
        <4>1. \A i \in 1..k : made[i] \in E
          BY <2>4
        <4> QED BY <2>3, <2>6, <4>1 DEF s
      <3> HIDE DEF k, F
      <3>2. /\ SubSeq(made, 1, k) \in Seq(E \cup F) /\ Len(SubSeq(made, 1, k)) = (IF 1 <= k THEN k - 1 + 1 ELSE 0)
            /\ \A i \in 1..(k - 1 + 1) : SubSeq(made, 1, k)[i] = made[1 + i - 1]
        BY <3>1, SubSeqProperties
      <3>3. /\ SubSeq(s, 1, k) \in Seq(E \cup F) /\ Len(SubSeq(s, 1, k)) = (IF 1 <= k THEN k - 1 + 1 ELSE 0)
            /\ \A i \in 1..(k - 1 + 1) : SubSeq(s, 1, k)[i] = s[1 + i - 1]
        BY <3>1, SubSeqProperties
      <3>4. a = SubSeq(made, 1, k) /\ b = SubSeq(s, 1, k)
        BY DEF k
      <3> HIDE DEF a, b
      <3>5. /\ a \in Seq(E \cup F) /\ b \in Seq(E \cup F) /\ Len(a) = k /\ Len(b) = k
            /\ \A i \in 1..k : a[i] = b[i]
        BY <2>6, <3>1, <3>2, <3>3, <3>4 DEF k
      <3>6. a = b
        BY <3>5, SeqEqual
      <3> QED BY <3>6 DEF a, b
    <2>8. D!IsPrefix(made, s)
      BY <2>5, <2>6, <2>7 DEF D!IsPrefix
    <2>9. ASSUME given.whole, status = "answer" PROVE made = s
      <3>1. Len(made) = m
        BY <2>2, <2>3, <2>9 DEF ReadSoFar
      <3>2. made \in Seq(E \cup F) /\ s \in Seq(E \cup F)
        BY <2>4, <2>5
      <3> HIDE DEF F
      <3> QED BY <2>5, <2>6, <3>1, <3>2, SeqEqual
    <2> QED BY <2>3, <2>8, <2>9
  <1> DEFINE Inv == part = "Decoder" => Reading0
  <1>4. Init => Inv
    BY <1>1 DEF Init
  <1>5. Inv /\ [Next]_vars => Inv'
    BY <1>2, OtherParts
  <1>6. Inv => DecodesFormat0
    BY <1>3 DEF DecodesFormat0
  <1> QED BY <1>4, <1>5, <1>6, PTL DEF Spec
=============================================================================
