--------------------------- MODULE ForwarderProofs ---------------------------
(***************************************************************************)
(* Proofs about Forwarder for any number of submitters and any batch size. *)
(***************************************************************************)
EXTENDS Forwarder, SequenceTheorems, FiniteSetTheorems, TLAPS

(* A goroutine outside flush holds no samples. *)
IdleHoldsNothing ==
  \A g \in Flushers : pc[g] \in {"idle", "flush", "returned"} => batch[g] = {}

(* The samples a fresh submission appends are the next n numbers. *)
LEMMA FreshProperties ==
  ASSUME TypeOK, NEW n \in Nat, accepted + n <= MaxSamples
  PROVE  /\ Fresh(n) \in Seq(Samples)
         /\ Len(Fresh(n)) = n
         /\ Range(Fresh(n)) = (accepted + 1)..(accepted + n)
  <1> USE ForwarderAssumption
  <1>1. \A i \in 1..n : accepted + i \in Samples
    BY DEF TypeOK, Samples
  <1>2. Fresh(n) \in [1..n -> Samples]
    BY <1>1 DEF Fresh
  <1>3. Fresh(n) \in Seq(Samples) /\ Len(Fresh(n)) = n
    BY <1>2
  <1>4. Range(Fresh(n)) = {accepted + i : i \in 1..n}
    BY DEF Fresh, Range
  <1>5. {accepted + i : i \in 1..n} = (accepted + 1)..(accepted + n)
    <2>1. ASSUME NEW k \in (accepted + 1)..(accepted + n)
          PROVE  k \in {accepted + i : i \in 1..n}
      <3>1. k - accepted \in 1..n /\ k = accepted + (k - accepted)
        BY DEF TypeOK
      <3> QED BY <3>1
    <2>2. \A i \in 1..n : accepted + i \in (accepted + 1)..(accepted + n)
      BY DEF TypeOK
    <2> QED BY <2>1, <2>2
  <1> QED BY <1>3, <1>4, <1>5

(* The state's types hold throughout, and only flushLoop ever returns. *)
THEOREM TypeCorrect == Spec => []TypeOK
  <1> USE ForwarderAssumption
  <1>1. Init => TypeOK
    <2> SUFFICES ASSUME Init PROVE TypeOK
      OBVIOUS
    <2>1. accepted \in 0..MaxSamples /\ pending \in Seq(Samples)
      BY DEF Init
    <2>2. /\ pc \in [Flushers -> {"idle", "flush", "encode", "send", "returned"}]
          /\ \A g \in Submitters : pc[g] # "returned"
      BY DEF Init, Flushers
    <2>3. batch \in [Flushers -> SUBSET Samples]
      BY DEF Init
    <2> QED BY <2>1, <2>2, <2>3, Zenon DEF Init, TypeOK
  <1>2. TypeOK /\ [Next]_vars => TypeOK'
    <2> SUFFICES ASSUME TypeOK, [Next]_vars PROVE TypeOK'
      OBVIOUS
    <2>1. ASSUME NEW g \in Submitters, NEW n \in 1..MaxSubmit, Submit(g, n)
          PROVE  TypeOK'
      <3>1. accepted + n <= MaxSamples /\ n \in Nat
        BY <2>1 DEF Submit
      <3>2. pending' \in Seq(Samples)
        BY <2>1, <3>1, FreshProperties, ConcatProperties DEF Submit, TypeOK
      <3> QED BY <2>1, <3>1, <3>2 DEF Submit, TypeOK, Flushers
    <2>2. ASSUME NEW g \in Flushers, TakeBatch(g) PROVE TypeOK'
      <3>1. Range(pending) \in SUBSET Samples
        BY RangeOfSeq DEF TypeOK
      <3>2. pending' \in Seq(Samples)
        BY <2>2 DEF TakeBatch, BufferAfterSwap
      <3> QED BY <2>2, <3>1, <3>2 DEF TakeBatch, TypeOK, AfterFlush, Flushers
    <2>3. ASSUME NEW g \in Flushers, NEW dropped \in SUBSET batch[g],
                 EncodeAndSend(g, dropped) \/ EncodeFail(g, dropped)
          PROVE  TypeOK'
      BY <2>3 DEF EncodeAndSend, EncodeFail, TypeOK, AfterFlush, Flushers
    <2>4. ASSUME NEW g \in Flushers, SendOk(g) \/ SendFail(g) PROVE TypeOK'
      BY <2>4 DEF SendOk, SendFail, TypeOK, AfterFlush, Flushers
    <2>5. ASSUME NEW r \in wire, NEW accept \in BOOLEAN, Backend(r, accept)
          PROVE  TypeOK'
      BY <2>5 DEF Backend, TypeOK
    <2>6. CASE Tick \/ LoopOnTick \/ LoopOnDone \/ Close
      BY <2>6 DEF Tick, LoopOnTick, LoopOnDone, Close, TypeOK, Flushers
    <2>7. CASE UNCHANGED vars
      BY <2>7 DEF vars, TypeOK
    <2> QED BY <2>1, <2>2, <2>3, <2>4, <2>5, <2>6, <2>7 DEF Next, Flush
  <1> QED BY <1>1, <1>2, PTL DEF Spec

(* A goroutine holds samples only between the swap and the end of flush. *)
LEMMA HoldsNothingStep ==
  ASSUME TypeOK, TypeOK', IdleHoldsNothing, [Next]_vars
  PROVE  IdleHoldsNothing'
  <1>1. ASSUME NEW g \in Submitters, NEW n \in 1..MaxSubmit, Submit(g, n)
        PROVE  IdleHoldsNothing'
    BY <1>1 DEF Submit, TypeOK, IdleHoldsNothing, Flushers
  <1>2. ASSUME NEW g \in Flushers, TakeBatch(g) PROVE IdleHoldsNothing'
    <2>1. pending = <<>> => Range(pending) = {}
      BY DEF Range
    <2> QED BY <1>2, <2>1 DEF TakeBatch, TypeOK, IdleHoldsNothing
  <1>3. ASSUME NEW g \in Flushers, NEW dropped \in SUBSET batch[g],
               EncodeAndSend(g, dropped) \/ EncodeFail(g, dropped)
        PROVE  IdleHoldsNothing'
    BY <1>3 DEF EncodeAndSend, EncodeFail, TypeOK, IdleHoldsNothing
  <1>4. ASSUME NEW g \in Flushers, SendOk(g) \/ SendFail(g) PROVE IdleHoldsNothing'
    BY <1>4 DEF SendOk, SendFail, TypeOK, IdleHoldsNothing
  <1>5. ASSUME NEW r \in wire, NEW accept \in BOOLEAN, Backend(r, accept)
        PROVE  IdleHoldsNothing'
    BY <1>5 DEF Backend, IdleHoldsNothing
  <1>6. CASE Tick \/ LoopOnTick \/ LoopOnDone \/ Close
    BY <1>6 DEF Tick, LoopOnTick, LoopOnDone, Close, TypeOK, IdleHoldsNothing, Flushers
  <1>7. CASE UNCHANGED vars
    BY <1>7 DEF vars, IdleHoldsNothing
  <1> QED BY <1>1, <1>2, <1>3, <1>4, <1>5, <1>6, <1>7 DEF Next, Flush

(* One step of any goroutine keeps every accepted sample in exactly one
   place. *)
LEMMA PlacesStep ==
  ASSUME TypeOK, TypeOK', IdleHoldsNothing, ExactlyOnePlace, [Next]_vars
  PROVE  ExactlyOnePlace'
  <1> USE ForwarderAssumption
  <1>1. ASSUME NEW g \in Submitters, NEW n \in 1..MaxSubmit, Submit(g, n)
        PROVE  ExactlyOnePlace'
    <2>1. accepted + n <= MaxSamples /\ n \in Nat
      BY <1>1 DEF Submit
    <2>2. Range(pending') = Range(pending) \cup ((accepted + 1)..(accepted + n))
      BY <1>1, <2>1, FreshProperties, RangeConcatenation DEF Submit, TypeOK
    <2>3. /\ Held' = Held /\ Settled' = Settled /\ accepted' = accepted + n
          /\ UNCHANGED <<batch, relabelled, acked, failed>>
      BY <1>1 DEF Submit, Held, Settled
    <2>4. /\ 1..(accepted + n) = 1..accepted \cup ((accepted + 1)..(accepted + n))
          /\ 1..accepted \cap ((accepted + 1)..(accepted + n)) = {}
      BY <2>1 DEF TypeOK
    <2> QED BY <2>2, <2>3, <2>4 DEF ExactlyOnePlace
  <1>2. ASSUME NEW g \in Flushers, TakeBatch(g) PROVE ExactlyOnePlace'
    <2>1. batch[g] = {} /\ batch' = [batch EXCEPT ![g] = Range(pending)]
      BY <1>2 DEF TakeBatch, IdleHoldsNothing
    <2>2. Held' = Held \cup Range(pending)
      BY <2>1 DEF Held, TypeOK
    <2>3. Range(pending') = {}
      BY <1>2 DEF TakeBatch, BufferAfterSwap, Range
    <2>4. Settled' = Settled /\ UNCHANGED <<accepted, relabelled, acked, failed>>
      BY <1>2 DEF TakeBatch, Settled
    <2>5. \A h \in Flushers : batch[h] \subseteq Held
      BY DEF Held
    <2> QED BY <2>1, <2>2, <2>3, <2>4, <2>5 DEF ExactlyOnePlace, TypeOK
  <1>3. ASSUME NEW g \in Flushers, NEW kept, NEW out,
               batch' = [batch EXCEPT ![g] = kept], batch[g] = kept \cup out,
               kept \cap out = {}, UNCHANGED <<accepted, pending>>,
               \/ relabelled' = relabelled \cup out /\ UNCHANGED <<acked, failed>>
               \/ acked' = acked \cup out /\ UNCHANGED <<relabelled, failed>>
               \/ failed' = failed \cup out /\ UNCHANGED <<relabelled, acked>>
        PROVE  ExactlyOnePlace'
    <2>1. Held = Held' \cup out /\ Settled' = Settled \cup out
      BY <1>3 DEF Held, Settled, TypeOK
    <2>2. Held' \cap out = {}
      BY <1>3 DEF Held, ExactlyOnePlace, TypeOK
    <2>3. out \subseteq Held /\ out \cap Settled = {}
      BY <2>1 DEF ExactlyOnePlace
    <2>4. \A h \in Flushers : batch'[h] \subseteq batch[h]
      BY <1>3 DEF TypeOK
    <2>5. \A a, b \in Flushers : a # b => batch'[a] \cap batch'[b] = {}
      BY <2>4 DEF ExactlyOnePlace
    <2>6. /\ relabelled' \cap (acked' \cup failed') = {}
          /\ acked' \cap failed' = {}
      BY <1>3, <2>3 DEF ExactlyOnePlace, Settled
    <2> QED BY <1>3, <2>1, <2>2, <2>3, <2>5, <2>6 DEF ExactlyOnePlace
  <1>4. ASSUME NEW g \in Flushers, NEW dropped \in SUBSET batch[g],
               EncodeAndSend(g, dropped)
        PROVE  ExactlyOnePlace'
    <2> DEFINE kept == batch[g] \ dropped
    <2>1. /\ batch' = [batch EXCEPT ![g] = kept] /\ UNCHANGED <<accepted, pending>>
          /\ relabelled' = relabelled \cup dropped /\ UNCHANGED <<acked, failed>>
      BY <1>4 DEF EncodeAndSend
    <2>2. batch[g] = kept \cup dropped /\ kept \cap dropped = {}
      OBVIOUS
    <2> HIDE DEF kept
    <2> QED BY <1>3, <2>1, <2>2
  <1>5. ASSUME NEW g \in Flushers, NEW dropped \in SUBSET batch[g],
               EncodeFail(g, dropped)
        PROVE  ExactlyOnePlace'
    <2> DEFINE kept == batch[g] \ dropped
    <2>1. /\ batch' = [batch EXCEPT ![g] = {}] /\ UNCHANGED <<accepted, pending, acked>>
          /\ relabelled' = relabelled \cup dropped /\ failed' = failed \cup kept
      BY <1>5 DEF EncodeFail
    <2>2. Held = Held' \cup batch[g] /\ Settled' = Settled \cup batch[g]
      BY <2>1 DEF Held, Settled, TypeOK
    <2>3. Held' \cap batch[g] = {} /\ batch[g] \cap Settled = {}
      BY <2>1 DEF Held, ExactlyOnePlace, TypeOK
    <2>4. \A a, b \in Flushers : a # b => batch'[a] \cap batch'[b] = {}
      BY <2>1 DEF ExactlyOnePlace, TypeOK
    <2>5. /\ relabelled' \cap (acked' \cup failed') = {}
          /\ acked' \cap failed' = {}
      BY <2>1, <2>3 DEF ExactlyOnePlace, Settled
    <2> QED BY <2>1, <2>2, <2>3, <2>4, <2>5 DEF ExactlyOnePlace
  <1>6. ASSUME NEW g \in Flushers, SendOk(g) \/ SendFail(g) PROVE ExactlyOnePlace'
    <2>1. /\ batch' = [batch EXCEPT ![g] = {}] /\ UNCHANGED <<accepted, pending>>
          /\ \/ acked' = acked \cup batch[g] /\ UNCHANGED <<relabelled, failed>>
             \/ failed' = failed \cup batch[g] /\ UNCHANGED <<relabelled, acked>>
      BY <1>6 DEF SendOk, SendFail
    <2>2. batch[g] = {} \cup batch[g] /\ {} \cap batch[g] = {}
      OBVIOUS
    <2> QED BY <1>3, <2>1, <2>2
  <1>7. CASE \/ \E r \in wire, accept \in BOOLEAN : Backend(r, accept)
             \/ Tick \/ LoopOnTick \/ LoopOnDone \/ Close
             \/ UNCHANGED vars
    BY <1>7 DEF Backend, Tick, LoopOnTick, LoopOnDone, Close, vars,
                ExactlyOnePlace, Held, Settled
  <1> QED BY <1>1, <1>2, <1>4, <1>5, <1>6, <1>7 DEF Next, Flush

(* The partition of the samples, with the strengthening it needs. *)
LEMMA PlacesInvariant == Spec => [](IdleHoldsNothing /\ ExactlyOnePlace)
  <1>1. Init => IdleHoldsNothing /\ ExactlyOnePlace
    BY ForwarderAssumption DEF Init, IdleHoldsNothing, ExactlyOnePlace, Held, Settled, Range
  <1>2. /\ TypeOK /\ TypeOK' /\ IdleHoldsNothing /\ ExactlyOnePlace /\ [Next]_vars
        => (IdleHoldsNothing /\ ExactlyOnePlace)'
    BY HoldsNothingStep, PlacesStep
  <1> QED BY <1>1, <1>2, TypeCorrect, PTL DEF Spec

(* No interleaving of submitters and flush loop loses, duplicates or shares
   a sample. *)
THEOREM SamplesConserved == Spec => []ExactlyOnePlace
  BY PlacesInvariant, PTL

(* Submission order survives the lock-free part of Submit and flush. *)
THEOREM OrderKept == Spec => []BufferedInOrder
  <1> USE ForwarderAssumption
  <1>1. Init => BufferedInOrder
    BY DEF Init, BufferedInOrder
  <1>2. /\ TypeOK /\ TypeOK' /\ ExactlyOnePlace /\ ExactlyOnePlace'
        /\ BufferedInOrder /\ [Next]_vars
        => BufferedInOrder'
    <2> SUFFICES ASSUME TypeOK, TypeOK', ExactlyOnePlace, ExactlyOnePlace',
                        BufferedInOrder, [Next]_vars
                 PROVE  BufferedInOrder'
      OBVIOUS
    <2>1. ASSUME NEW g \in Submitters, NEW n \in 1..MaxSubmit, Submit(g, n)
          PROVE  BufferedInOrder'
      <3> DEFINE new == Fresh(n)
      <3>1. accepted + n <= MaxSamples /\ n \in Nat
        BY <2>1 DEF Submit
      <3>2. /\ new \in Seq(Samples) /\ Len(new) = n
            /\ \A i \in 1..n : new[i] = accepted + i
        BY <3>1, FreshProperties DEF Fresh
      <3>3. pending' = pending \o new /\ pending \in Seq(Samples)
        BY <2>1 DEF Submit, TypeOK
      <3> HIDE DEF new
      <3>4. /\ Len(pending') = Len(pending) + n
            /\ \A i \in 1..(Len(pending) + n) : (pending \o new)[i] =
                  IF i <= Len(pending) THEN pending[i] ELSE new[i - Len(pending)]
        BY <3>2, <3>3, ConcatProperties
      <3>5. DOMAIN pending' = 1..Len(pending')
        BY LenProperties DEF TypeOK
      <3>6. /\ Len(pending') = Len(pending) + n
            /\ DOMAIN pending' = 1..(Len(pending) + n)
            /\ \A i \in 1..(Len(pending) + n) : pending'[i] =
                  IF i <= Len(pending) THEN pending[i] ELSE new[i - Len(pending)]
        BY <3>3, <3>4, <3>5
      <3>7. \A i \in 1..Len(pending) : pending[i] \in 1..accepted
        <4>1. \A i \in 1..Len(pending) : pending[i] \in Range(pending)
          BY <3>3, LenProperties DEF Range
        <4> QED BY <4>1 DEF ExactlyOnePlace
      <3>8. \A i \in 1..(Len(pending) + n) : i > Len(pending) =>
              pending'[i] = accepted + (i - Len(pending))
        BY <3>1, <3>2, <3>3, <3>6
      <3>9. /\ Len(pending) \in Nat /\ DOMAIN pending = 1..Len(pending)
            /\ accepted \in Nat
        BY <3>3, LenProperties DEF TypeOK
      <3>10. \A i, j \in DOMAIN pending' : i < j => pending'[i] < pending'[j]
        <4> SUFFICES ASSUME NEW i \in DOMAIN pending', NEW j \in DOMAIN pending', i < j
                     PROVE  pending'[i] < pending'[j]
          OBVIOUS
        <4>1. CASE j <= Len(pending)
          BY <4>1, <3>6, <3>9, <3>7 DEF BufferedInOrder
        <4>2. CASE i <= Len(pending) /\ j > Len(pending)
          <5>1. pending'[i] = pending[i] /\ pending[i] \in 1..accepted
            BY <4>2, <3>6, <3>7, <3>9
          <5>2. pending'[j] = accepted + (j - Len(pending))
            BY <4>2, <3>6, <3>8
          <5> QED BY <5>1, <5>2, <4>2, <3>6, <3>9, <3>1
        <4>3. CASE i > Len(pending)
          BY <4>3, <3>6, <3>8, <3>9, <3>1
        <4> QED BY <4>1, <4>2, <4>3, <3>6, <3>9, <3>1
      <3>11. ASSUME NEW m \in Held \cup Settled, NEW i \in DOMAIN pending'
            PROVE  m < pending'[i]
        <4>1. m \in 1..accepted
          BY DEF ExactlyOnePlace
        <4>2. CASE i <= Len(pending)
          BY <4>2, <3>6, <3>9 DEF BufferedInOrder
        <4>3. CASE i > Len(pending)
          <5>1. pending'[i] = accepted + (i - Len(pending))
            BY <4>3, <3>6, <3>8
          <5> QED BY <5>1, <4>1, <4>3, <3>6, <3>9, <3>1
        <4> QED BY <4>2, <4>3, <3>6, <3>9, <3>1
      <3>12. Held' = Held /\ Settled' = Settled
        BY <2>1 DEF Submit, Held, Settled
      <3> QED BY <3>10, <3>11, <3>12 DEF BufferedInOrder
    <2>2. ASSUME NEW g \in Flushers, TakeBatch(g) PROVE BufferedInOrder'
      <3>1. DOMAIN pending' = {}
        BY <2>2 DEF TakeBatch, BufferAfterSwap
      <3> QED BY <3>1 DEF BufferedInOrder
    <2>3. ASSUME UNCHANGED <<accepted, pending>> PROVE BufferedInOrder'
      <3>1. Held' \cup Settled' = Held \cup Settled
        <4>1. Held \cup Settled = (1..accepted) \ Range(pending)
          BY DEF ExactlyOnePlace
        <4>2. Held' \cup Settled' = (1..accepted') \ Range(pending')
          BY DEF ExactlyOnePlace
        <4> QED BY <2>3, <4>1, <4>2
      <3> QED BY <2>3, <3>1 DEF BufferedInOrder
    <2>4. CASE UNCHANGED vars
      BY <2>3, <2>4 DEF vars
    <2> QED BY <2>1, <2>2, <2>3, <2>4
            DEF Next, Flush, EncodeAndSend, EncodeFail, SendOk, SendFail, Backend,
                Tick, LoopOnTick, LoopOnDone, Close
  <1> QED BY <1>1, <1>2, TypeCorrect, SamplesConserved, PTL DEF Spec

(* The buffer's bound for every batch size and number of submitters.  It is
   inductive as it stands: a submission that fills the buffer makes its
   submitter a claimant, and every flush that ends a claim empties it. *)
THEOREM BufferIsBounded == Spec => []BufferBounded
  <1> USE ForwarderAssumption
  <1>0. ASSUME NEW S \in SUBSET Submitters
        PROVE  IsFiniteSet(S) /\ Cardinality(S) \in Nat
    BY FS_Subset, FS_CardinalityType
  <1>1. Init => BufferBounded
    <2> SUFFICES ASSUME Init PROVE BufferBounded
      OBVIOUS
    <2>1. Claimants = {} /\ Len(pending) = 0
      BY DEF Init, Claimants, Flushers
    <2> QED BY <2>1, FS_EmptySet DEF BufferBounded
  <1>2. TypeOK /\ TypeOK' /\ BufferBounded /\ [Next]_vars => BufferBounded'
    <2> SUFFICES ASSUME TypeOK, TypeOK', BufferBounded, [Next]_vars
                 PROVE  BufferBounded'
      OBVIOUS
    <2> DEFINE c == Cardinality(Claimants)
    <2>0. c \in Nat /\ c' \in Nat /\ Len(pending) \in Nat
      BY <1>0, LenProperties DEF Claimants, TypeOK
    <2>1. ASSUME NEW g \in Submitters, NEW n \in 1..MaxSubmit, Submit(g, n)
          PROVE  BufferBounded'
      <3>1. n \in Nat /\ accepted + n <= MaxSamples /\ g \notin Claimants
        BY <2>1 DEF Submit, Claimants
      <3>2. Len(pending') = Len(pending) + n
        <4>1. Fresh(n) \in Seq(Samples) /\ Len(Fresh(n)) = n
          BY <3>1, FreshProperties
        <4>2. pending \in Seq(Samples) /\ pending' = pending \o Fresh(n)
          BY <2>1 DEF Submit, TypeOK
        <4> QED BY <4>1, <4>2, ConcatProperties
      <3>3. CASE FlushDue(Len(pending) + n)
        <4>1. Claimants' = Claimants \cup {g}
          BY <2>1, <3>3 DEF Submit, Claimants, TypeOK, Flushers
        <4>2. c' = c + 1
          BY <4>1, <3>1, <1>0, FS_AddElement DEF Claimants
        <4>3. MaxSubmit * (c + 1) = MaxSubmit * c + MaxSubmit
          BY <2>0
        <4>4. MaxSubmit * c \in Nat
          BY <2>0
        <4> QED BY <4>2, <4>3, <4>4, <3>2, <2>0 DEF BufferBounded
      <3>4. CASE ~FlushDue(Len(pending) + n)
        <4>1. Len(pending') < BatchSize
          BY <3>1, <3>2, <3>4, <2>0 DEF FlushDue
        <4>2. MaxSubmit * c' \in Nat
          BY <2>0
        <4> QED BY <4>1, <4>2, <3>2, <2>0, <3>1 DEF BufferBounded
      <3> QED BY <3>3, <3>4
    <2>2. ASSUME NEW g \in Flushers, TakeBatch(g) PROVE BufferBounded'
      <3>1. Len(pending') = 0
        BY <2>2 DEF TakeBatch, BufferAfterSwap
      <3>2. MaxSubmit * c' \in Nat
        BY <2>0
      <3> QED BY <3>1, <3>2 DEF BufferBounded
    <2>3. ASSUME UNCHANGED pending, Claimants' = Claimants PROVE BufferBounded'
      BY <2>3 DEF BufferBounded
    <2>4. ASSUME NEW g \in Flushers, NEW dropped \in SUBSET batch[g],
                 \/ EncodeAndSend(g, dropped) \/ EncodeFail(g, dropped)
                 \/ SendOk(g) \/ SendFail(g)
          PROVE  UNCHANGED pending /\ Claimants' = Claimants
      BY <2>4 DEF EncodeAndSend, EncodeFail, SendOk, SendFail, AfterFlush,
                  Claimants, TypeOK, Flushers
    <2>5. CASE LoopOnTick \/ LoopOnDone
      <3>1. UNCHANGED pending /\ Claimants' = Claimants
        BY <2>5 DEF LoopOnTick, LoopOnDone, Claimants, TypeOK, Flushers
      <3> QED BY <3>1, <2>3
    <2>6. CASE \/ \E r \in wire, accept \in BOOLEAN : Backend(r, accept)
               \/ Tick \/ Close \/ UNCHANGED vars
      <3>1. UNCHANGED <<pending, pc>>
        BY <2>6 DEF Backend, Tick, Close, vars
      <3> QED BY <3>1, <2>3 DEF Claimants
    <2>7. ASSUME NEW g \in Flushers, SendOk(g) \/ SendFail(g) PROVE BufferBounded'
      <3>1. {} \in SUBSET batch[g]
        OBVIOUS
      <3> QED BY <2>3, <2>4, <2>7, <3>1
    <2>8. ASSUME NEW g \in Flushers, NEW dropped \in SUBSET batch[g],
                 EncodeAndSend(g, dropped) \/ EncodeFail(g, dropped)
          PROVE  BufferBounded'
      BY <2>3, <2>4, <2>8
    <2> QED BY <2>1, <2>2, <2>5, <2>6, <2>7, <2>8 DEF Next, Flush
  <1> QED BY <1>1, <1>2, TypeCorrect, PTL DEF Spec

(* A sample whose request has left the process. *)
Sent(n) == \/ n \in acked \cup failed
           \/ \E g \in Flushers : pc[g] = "send" /\ n \in batch[g]

(* Nothing reaches the wire or the backend that is not sent. *)
OnlySentIsOut ==
  /\ \A n \in stored : Sent(n)
  /\ \A r \in wire : \A n \in r : Sent(n)

(* AtMostOnce is not inductive: that a new request is disjoint from the old
   ones needs OnlySentIsOut and the partition of the samples. *)
LEMMA OutInvariant == Spec => [](AtMostOnce /\ OnlySentIsOut)
  <1>1. Init => AtMostOnce /\ OnlySentIsOut
    BY DEF Init, AtMostOnce, OnlySentIsOut
  <1>2. /\ TypeOK /\ TypeOK' /\ ExactlyOnePlace /\ AtMostOnce /\ OnlySentIsOut
        /\ [Next]_vars
        => (AtMostOnce /\ OnlySentIsOut)'
    <2> SUFFICES ASSUME TypeOK, TypeOK', ExactlyOnePlace, AtMostOnce, OnlySentIsOut,
                        [Next]_vars
                 PROVE  (AtMostOnce /\ OnlySentIsOut)'
      OBVIOUS
    <2>1. ASSUME UNCHANGED <<wire, stored>>, \A n : Sent(n) => Sent(n)'
          PROVE  (AtMostOnce /\ OnlySentIsOut)'
      BY <2>1 DEF AtMostOnce, OnlySentIsOut
    <2>2. ASSUME NEW g \in Submitters, NEW n \in 1..MaxSubmit, Submit(g, n)
          PROVE  (AtMostOnce /\ OnlySentIsOut)'
      <3>1. \A m : Sent(m) => Sent(m)'
        BY <2>2 DEF Submit, Sent, TypeOK, Flushers
      <3> QED BY <2>1, <2>2, <3>1 DEF Submit
    <2>3. ASSUME NEW g \in Flushers, TakeBatch(g) PROVE (AtMostOnce /\ OnlySentIsOut)'
      <3>1. \A m : Sent(m) => Sent(m)'
        BY <2>3 DEF TakeBatch, Sent, TypeOK
      <3> QED BY <2>1, <2>3, <3>1 DEF TakeBatch
    <2>4. ASSUME NEW g \in Flushers, NEW dropped \in SUBSET batch[g],
                 EncodeAndSend(g, dropped)
          PROVE  (AtMostOnce /\ OnlySentIsOut)'
      <3> DEFINE kept == batch[g] \ dropped
      <3>1. \A m \in batch[g] : ~Sent(m)
        <4>1. \A m \in batch[g] : m \in Held /\ m \notin acked \cup failed
          BY DEF Held, ExactlyOnePlace, Settled
        <4>2. pc[g] = "encode"
          BY <2>4 DEF EncodeAndSend
        <4> QED BY <4>1, <4>2 DEF Sent, ExactlyOnePlace
      <3>2. \A m : Sent(m) => Sent(m)'
        BY <2>4 DEF EncodeAndSend, Sent, TypeOK
      <3>3. kept # {} => \A m \in kept : Sent(m)'
        BY <2>4 DEF EncodeAndSend, Sent, TypeOK
      <3>4. kept \cap stored = {} /\ \A r \in wire : r \cap kept = {}
        BY <3>1 DEF OnlySentIsOut
      <3>5. stored' = stored /\ wire' = IF kept = {} THEN wire ELSE wire \cup {kept}
        BY <2>4 DEF EncodeAndSend
      <3> HIDE DEF kept
      <3>6. AtMostOnce'
        BY <3>4, <3>5 DEF AtMostOnce
      <3>7. OnlySentIsOut'
        BY <3>2, <3>3, <3>5 DEF OnlySentIsOut
      <3> QED BY <3>6, <3>7
    <2>5. ASSUME NEW g \in Flushers, NEW dropped \in SUBSET batch[g],
                 EncodeFail(g, dropped)
          PROVE  (AtMostOnce /\ OnlySentIsOut)'
      <3>1. \A m : Sent(m) => Sent(m)'
        BY <2>5 DEF EncodeFail, Sent, TypeOK
      <3> QED BY <2>1, <2>5, <3>1 DEF EncodeFail
    <2>6. ASSUME NEW g \in Flushers, SendOk(g) \/ SendFail(g)
          PROVE  (AtMostOnce /\ OnlySentIsOut)'
      <3>1. \A m : Sent(m) => Sent(m)'
        BY <2>6 DEF SendOk, SendFail, Sent, TypeOK
      <3> QED BY <2>1, <2>6, <3>1 DEF SendOk, SendFail
    <2>7. ASSUME NEW r \in wire, NEW accept \in BOOLEAN, Backend(r, accept)
          PROVE  (AtMostOnce /\ OnlySentIsOut)'
      <3>1. \A m : Sent(m) => Sent(m)'
        BY <2>7 DEF Backend, Sent
      <3>2. wire' = wire \ {r} /\ (stored' = stored \/ stored' = stored \cup r)
        BY <2>7 DEF Backend
      <3> QED BY <3>1, <3>2 DEF AtMostOnce, OnlySentIsOut
    <2>8. CASE Tick \/ LoopOnTick \/ LoopOnDone \/ Close \/ UNCHANGED vars
      <3>1. \A m : Sent(m) => Sent(m)'
        BY <2>8 DEF Tick, LoopOnTick, LoopOnDone, Close, vars, Sent, TypeOK, Flushers
      <3> QED BY <2>1, <2>8, <3>1 DEF Tick, LoopOnTick, LoopOnDone, Close, vars
    <2> QED BY <2>2, <2>3, <2>4, <2>5, <2>6, <2>7, <2>8 DEF Next, Flush
  <1> QED BY <1>1, <1>2, TypeCorrect, SamplesConserved, PTL DEF Spec

(* The backend sees each sample in one request at most. *)
THEOREM StoredAtMostOnce == Spec => []AtMostOnce
  BY OutInvariant, PTL

-----------------------------------------------------------------------------
(***************************************************************************)
(* Forwarder implements Delivery.  The mapping hides the buffer, the       *)
(* ticker and who holds what: Submit is Accept, the encoding step is       *)
(* Dispatch, Backend is Handle, a 2xx answer is Confirm, and every other   *)
(* step is a stutter.                                                      *)
(***************************************************************************)


(* The goroutines whose batch is not encoded yet. *)
Encoders == {h \in Flushers : pc[h] = "encode"}

(* Steps that move no goroutine into or out of "encode" and leave the buffer
   and the batches alone leave the abstract store alone. *)
LEMMA UnsentUnchanged ==
  ASSUME UNCHANGED <<pending, batch>>, Encoders' = Encoders
  PROVE  Unsent' = Unsent
  BY DEF Unsent, Encoders

(* Submit's samples are the next numbers: it is Accept. *)
LEMMA SubmitIsAccept ==
  ASSUME TypeOK, NEW g \in Submitters, NEW n \in 1..MaxSubmit, Submit(g, n)
  PROVE  Promise!Accept
  <1> USE ForwarderAssumption
  <1>1. n \in Nat \ {0} /\ accepted + n <= MaxSamples /\ accepted \in Nat
    BY DEF Submit, TypeOK
  <1>2. Range(pending') = Range(pending) \cup ((accepted + 1)..(accepted + n))
    BY <1>1, FreshProperties, RangeConcatenation DEF Submit, TypeOK
  <1>3. Encoders' = Encoders /\ batch' = batch /\ accepted' = accepted + n
    BY DEF Submit, Encoders, TypeOK, Flushers
  <1>4. Unsent' = Unsent \cup (accepted + 1)..accepted'
    BY <1>2, <1>3 DEF Unsent, Encoders
  <1>5. accepted' \in Nat /\ accepted' > accepted
    BY <1>1, <1>3
  <1> QED BY <1>4, <1>5 DEF Submit, Promise!Accept

(* The swap moves samples between two places the mapping does not tell
   apart. *)
LEMMA TakeBatchIsHidden ==
  ASSUME TypeOK, IdleHoldsNothing, NEW g \in Flushers, TakeBatch(g)
  PROVE  Unsent' = Unsent
  <1>1. Range(pending') = {}
    BY DEF TakeBatch, BufferAfterSwap, Range
  <1>2. CASE pending = <<>>
    <2>1. Range(pending) = {} /\ batch[g] = {} /\ batch' = batch
      BY <1>2 DEF TakeBatch, Range, IdleHoldsNothing, TypeOK
    <2>2. Encoders' = Encoders
      BY <1>2 DEF TakeBatch, Encoders, AfterFlush, TypeOK
    <2> QED BY <1>1, <2>1, <2>2 DEF Unsent, Encoders
  <1>3. CASE pending # <<>>
    <2>1. Encoders' = Encoders \cup {g} /\ g \notin Encoders
      BY <1>3 DEF TakeBatch, Encoders, TypeOK
    <2>2. batch'[g] = Range(pending) /\ \A h \in Flushers : h # g => batch'[h] = batch[h]
      BY DEF TakeBatch, TypeOK
    <2> QED BY <1>1, <2>1, <2>2 DEF Unsent, Encoders
  <1> QED BY <1>2, <1>3

(* What an encoding goroutine holds is nowhere else, so taking it out of the
   abstract store takes out exactly its batch. *)
LEMMA EncodeTakesBatch ==
  ASSUME TypeOK, ExactlyOnePlace, NEW g \in Flushers, pc[g] = "encode",
         pending' = pending, Encoders' = Encoders \ {g},
         \A h \in Flushers : h # g => batch'[h] = batch[h]
  PROVE  /\ batch[g] \subseteq Unsent
         /\ Unsent' = Unsent \ batch[g]
  <1>1. batch[g] \subseteq Unsent
    BY DEF Unsent
  <1>2. Range(pending) \cap batch[g] = {}
    BY DEF ExactlyOnePlace, Held
  <1>3. \A h \in Flushers : h # g => batch[h] \cap batch[g] = {}
    BY DEF ExactlyOnePlace
  <1>4. Unsent' = Range(pending) \cup UNION {batch[h] : h \in Encoders \ {g}}
    <2>1. \A h \in Encoders \ {g} : batch'[h] = batch[h]
      BY DEF Encoders
    <2>2. Unsent' = Range(pending') \cup UNION {batch'[h] : h \in Encoders'}
      BY DEF Unsent, Encoders
    <2> QED BY <2>1, <2>2
  <1>5. Unsent = Range(pending) \cup batch[g] \cup UNION {batch[h] : h \in Encoders \ {g}}
    BY DEF Unsent, Encoders
  <1>6. batch[g] \cap UNION {batch[h] : h \in Encoders \ {g}} = {}
    BY <1>3 DEF Encoders
  <1> QED BY <1>1, <1>2, <1>4, <1>5, <1>6

(* Encoding, whether it succeeds or fails, is one Dispatch. *)
LEMMA EncodeIsDispatch ==
  ASSUME TypeOK, IdleHoldsNothing, ExactlyOnePlace, OnlySentIsOut,
         NEW g \in Flushers, NEW dropped \in SUBSET batch[g],
         EncodeAndSend(g, dropped) \/ EncodeFail(g, dropped)
  PROVE  Promise!Next \/ UNCHANGED Promise!vars
  <1> DEFINE left == batch[g] \ dropped
  <1>1. pc[g] = "encode" /\ UNCHANGED <<accepted, pending, stored, acked>>
    BY DEF EncodeAndSend, EncodeFail
  <1>2. Encoders' = Encoders \ {g}
    BY DEF EncodeAndSend, EncodeFail, Encoders, AfterFlush, TypeOK
  <1>3. \A h \in Flushers : h # g => batch'[h] = batch[h]
    BY DEF EncodeAndSend, EncodeFail, TypeOK
  <1>4. batch[g] \subseteq Unsent /\ Unsent' = Unsent \ batch[g]
    BY <1>1, <1>2, <1>3, EncodeTakesBatch
  <1>5. \A m \in batch[g] : ~Sent(m)
    BY <1>1 DEF Sent, Held, Settled, ExactlyOnePlace
  <1>6. batch[g] \cap (stored \cup UNION wire) = {}
    BY <1>5 DEF OnlySentIsOut
  <1>7. CASE batch[g] = {}
    <2>1. wire' = wire
      BY <1>7 DEF EncodeAndSend, EncodeFail
    <2> QED BY <1>1, <1>4, <1>7, <2>1 DEF Promise!vars
  <1>8. CASE batch[g] # {} /\ EncodeAndSend(g, dropped)
    <2>1. wire' = IF left = {} THEN wire ELSE wire \cup {left}
      BY <1>8 DEF EncodeAndSend
    <2>2. Promise!Dispatch(dropped, left)
      BY <1>1, <1>4, <1>6, <1>8, <2>1 DEF Promise!Dispatch
    <2>3. dropped \in SUBSET Unsent /\ left \in SUBSET Unsent
      BY <1>4
    <2> QED BY <2>2, <2>3 DEF Promise!Next
  <1>9. CASE batch[g] # {} /\ EncodeFail(g, dropped)
    <2>1. wire' = wire
      BY <1>9 DEF EncodeFail
    <2>2. Promise!Dispatch(batch[g], {})
      BY <1>1, <1>4, <1>9, <2>1 DEF Promise!Dispatch
    <2>3. batch[g] \in SUBSET Unsent /\ {} \in SUBSET Unsent
      BY <1>4
    <2> QED BY <2>2, <2>3 DEF Promise!Next
  <1> QED BY <1>7, <1>8, <1>9

(* Every behaviour of the forwarder is, seen through the mapping, a behaviour
   of Delivery. *)
THEOREM ForwarderImplementsDelivery == Spec => ImplementsDelivery
  <1>1. Init => Promise!Init
    BY DEF Init, Promise!Init, Unsent, Range, Flushers
  <1>2. /\ TypeOK /\ IdleHoldsNothing /\ ExactlyOnePlace /\ OnlySentIsOut
        /\ [Next]_vars
        => [Promise!Next]_(Promise!vars)
    <2> SUFFICES ASSUME TypeOK, IdleHoldsNothing, ExactlyOnePlace, OnlySentIsOut,
                        [Next]_vars
                 PROVE  Promise!Next \/ UNCHANGED Promise!vars
      OBVIOUS
    <2>1. ASSUME NEW g \in Submitters, NEW n \in 1..MaxSubmit, Submit(g, n)
          PROVE  Promise!Next
      BY <2>1, SubmitIsAccept DEF Promise!Next
    <2>2. ASSUME NEW g \in Flushers, TakeBatch(g) PROVE UNCHANGED Promise!vars
      BY <2>2, TakeBatchIsHidden DEF TakeBatch, Promise!vars
    <2>3. ASSUME NEW g \in Flushers, NEW dropped \in SUBSET batch[g],
                 EncodeAndSend(g, dropped) \/ EncodeFail(g, dropped)
          PROVE  Promise!Next \/ UNCHANGED Promise!vars
      BY <2>3, EncodeIsDispatch
    <2>4. ASSUME NEW g \in Flushers, SendOk(g) \/ SendFail(g)
          PROVE  Promise!Next \/ UNCHANGED Promise!vars
      <3>1. pc[g] = "send" /\ UNCHANGED <<accepted, pending, wire, stored>>
        BY <2>4 DEF SendOk, SendFail
      <3>2. Encoders' = Encoders /\ \A h \in Encoders : batch'[h] = batch[h]
        BY <2>4 DEF SendOk, SendFail, Encoders, AfterFlush, TypeOK
      <3>3. Unsent' = Unsent
        <4>1. Unsent' = Range(pending') \cup UNION {batch'[h] : h \in Encoders'}
          BY DEF Unsent, Encoders
        <4>2. Unsent = Range(pending) \cup UNION {batch[h] : h \in Encoders}
          BY DEF Unsent, Encoders
        <4> QED BY <3>1, <3>2, <4>1, <4>2
      <3>4. CASE SendFail(g)
        BY <3>1, <3>3, <3>4 DEF SendFail, Promise!vars
      <3>5. CASE SendOk(g)
        <4>1. batch[g] \cap acked = {}
          BY DEF ExactlyOnePlace, Held, Settled
        <4>2. Promise!Confirm(batch[g]) /\ batch[g] \in SUBSET stored
          BY <3>1, <3>3, <3>5, <4>1 DEF SendOk, Promise!Confirm
        <4> QED BY <4>2 DEF Promise!Next
      <3> QED BY <2>4, <3>4, <3>5
    <2>5. ASSUME NEW r \in wire, NEW accept \in BOOLEAN, Backend(r, accept)
          PROVE  Promise!Next
      <3>1. Unsent' = Unsent
        BY <2>5, UnsentUnchanged DEF Backend, Encoders
      <3>2. Promise!Handle(r, accept)
        BY <2>5, <3>1 DEF Backend, Promise!Handle
      <3> QED BY <3>2 DEF Promise!Next
    <2>6. CASE Tick \/ LoopOnTick \/ LoopOnDone \/ Close \/ UNCHANGED vars
      <3>1. UNCHANGED <<accepted, pending, batch, wire, stored, acked>>
        BY <2>6 DEF Tick, LoopOnTick, LoopOnDone, Close, vars
      <3>2. Encoders' = Encoders
        BY <2>6 DEF Tick, LoopOnTick, LoopOnDone, Close, vars, Encoders, TypeOK, Flushers
      <3> QED BY <3>1, <3>2, UnsentUnchanged DEF Promise!vars
    <2> QED BY <2>1, <2>2, <2>3, <2>4, <2>5, <2>6 DEF Next, Flush
  <1> QED BY <1>1, <1>2, TypeCorrect, PlacesInvariant, OutInvariant, PTL
          DEF Spec, ImplementsDelivery, Promise!Spec
=============================================================================
