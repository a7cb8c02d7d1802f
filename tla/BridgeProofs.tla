---------------------------- MODULE BridgeProofs ----------------------------
(***************************************************************************)
(* Proofs about Bridge for any configuration, any messages, any batch      *)
(* sizes and any capacity of the channel.                                  *)
(***************************************************************************)
EXTENDS Bridge, OriginLemmas

-----------------------------------------------------------------------------
(* The message in hand *)

(* The samples a message owes the metrics forwarder *)
Owed(k) == ToMetrics(Loaded, sent[k].topic, sent[k].payload)

(* The pipeline's own state, but for the forwarders' *)
PipeTypes ==
  /\ sent \in Seq(Messages) /\ Len(sent) <= MaxMessages /\ taken \in 0..Len(sent)
  /\ pipe \in {"select", "metrics", "log", "returned"}
  /\ received \subseteq 1..taken /\ dropped \subseteq 1..taken
  /\ mAccepted \in Nat /\ mOrigin \in [1..mAccepted -> 1..taken]
  /\ lAccepted \in Nat /\ lOrigin \in [1..lAccepted -> 1..taken]

(* What processMessage has done for the message it is at *)
InHandInv ==
  /\ pipe \in {"metrics", "log"} => taken \in received /\ LogsOf(taken) = {}
  /\ pipe = "metrics" => Owed(taken) > 0 /\ MetricsOf(taken) = {}
  /\ pipe = "log" => /\ ToLog(Loaded, sent[taken].topic)
                     /\ Cardinality(MetricsOf(taken)) = Owed(taken)

(* CountedAndSubmitted, without its exception for what relabelling drops *)
Accounted ==
  /\ received \cup dropped = 1..taken /\ received \cap dropped = {}
  /\ \A k \in (1..taken) \ InHand :
       /\ Cardinality(MetricsOf(k)) =
            (IF k \in received THEN ToMetrics(Loaded, sent[k].topic, sent[k].payload) ELSE 0)
       /\ LogsOf(k) # {} <=> k \in received /\ ToLog(Loaded, sent[k].topic)

(* Inductive *)
PipeInv == PipeTypes /\ InHandInv /\ Accounted

-----------------------------------------------------------------------------
(* The forwarders inside the bridge *)

(* A message of the channel *)
LEMMA MessageProperties ==
  ASSUME PipeTypes, NEW k \in 1..Len(sent)
  PROVE  sent[k] \in Messages /\ Owed(k) \in 0..MaxPerMessage /\ Owed(k) \in Nat
  <1>1. sent[k] \in Messages
    BY DEF PipeTypes
  <1>2. Owed(k) \in 0..MaxPerMessage
    BY <1>1, BridgeAssumption DEF Owed
  <1> QED BY <1>1, <1>2, BridgeAssumption

(* Every step of the bridge is a step of its metrics forwarder or leaves that
   as it is; the number of samples SubmitMetrics submits is the message's. *)
LEMMA MetricsForwarderStep ==
  ASSUME PipeInv, [Next]_vars
  PROVE  [M!Next]_mVars
  <1>1. CASE SubmitMetrics
    <2> DEFINE n == Owed(taken)
    <2>1. pipe = "metrics" /\ M!Submit(Pipeline, n)
      BY <1>1 DEF SubmitMetrics, Owed, Message
    <2>2. taken \in 1..Len(sent) /\ n > 0
      BY <2>1 DEF PipeInv, PipeTypes, InHandInv
    <2>3. n \in 1..MaxPerMessage
      BY <2>2, MessageProperties, BridgeAssumption DEF PipeInv
    <2> HIDE DEF n
    <2> QED BY <2>1, <2>3 DEF M!Next
  <1>2. CASE \E g \in {Pipeline, MetricsLoop} : MetricsFlush(g)
    BY <1>2 DEF MetricsFlush, M!Next, M!Flushers
  <1>3. CASE MetricsTick \/ MetricsWake \/ CloseMetrics
    BY <1>3 DEF MetricsTick, MetricsWake, CloseMetrics, M!Next
  <1>4. CASE Backends
    BY <1>4 DEF Backends, M!Next
  <1>5. CASE \/ (\E msg \in Messages : Arrive(msg)) \/ PipelineEnd \/ Receive \/ SubmitLog
             \/ (\E g \in {Pipeline, LogLoop} : LogFlush(g)) \/ LogTick \/ LogWake
             \/ Signal \/ CloseLog \/ Return \/ UNCHANGED vars
    BY <1>5 DEF Arrive, PipelineEnd, Receive, SubmitLog, LogFlush, LogTick, LogWake, Signal,
                CloseLog, Return, vars
  <1> QED BY <1>1, <1>2, <1>3, <1>4, <1>5 DEF Next

(* The same for the log forwarder, which gets one entry at a time. *)
LEMMA LogForwarderStep ==
  ASSUME [Next]_vars
  PROVE  [L!Next]_lVars
  <1>1. CASE SubmitLog
    <2>1. L!Submit(Pipeline, 1) /\ 1 \in 1..1
      BY <1>1 DEF SubmitLog
    <2> QED BY <2>1 DEF L!Next
  <1>2. CASE \E g \in {Pipeline, LogLoop} : LogFlush(g)
    BY <1>2 DEF LogFlush, L!Next, L!Flushers
  <1>3. CASE LogTick \/ LogWake \/ CloseLog
    BY <1>3 DEF LogTick, LogWake, CloseLog, L!Next
  <1>4. CASE Backends
    BY <1>4 DEF Backends, L!Next
  <1>5. CASE \/ (\E msg \in Messages : Arrive(msg)) \/ PipelineEnd \/ Receive \/ SubmitMetrics
             \/ (\E g \in {Pipeline, MetricsLoop} : MetricsFlush(g)) \/ MetricsTick \/ MetricsWake
             \/ Signal \/ CloseMetrics \/ Return \/ UNCHANGED vars
    BY <1>5 DEF Arrive, PipelineEnd, Receive, SubmitMetrics, MetricsFlush, MetricsTick,
                MetricsWake, Signal, CloseMetrics, Return, vars
  <1> QED BY <1>1, <1>2, <1>3, <1>4, <1>5 DEF Next

-----------------------------------------------------------------------------
(* PipeInv is kept by every step *)

(* What PipeInv is about *)
counted == <<sent, taken, pipe, received, dropped, mOrigin, lOrigin, mAccepted, lAccepted>>

(* The forwarders' goroutines, the backends and main leave it alone. *)
LEMMA AsideStep ==
  ASSUME \/ \E g \in {Pipeline, MetricsLoop} : MetricsFlush(g)
         \/ \E g \in {Pipeline, LogLoop} : LogFlush(g)
         \/ MetricsTick \/ MetricsWake \/ LogTick \/ LogWake \/ Backends
         \/ Signal \/ CloseMetrics \/ CloseLog \/ Return \/ UNCHANGED vars
  PROVE  UNCHANGED counted
  <1>1. UNCHANGED <<sent, taken, pipe, received, dropped, mOrigin, lOrigin>>
    BY DEF MetricsFlush, LogFlush, MetricsTick, MetricsWake, LogTick, LogWake, Backends, Signal,
           CloseMetrics, CloseLog, Return, vars, pipeVars, origins
  <1>2. mAccepted' = mAccepted
    BY DEF MetricsFlush, LogFlush, MetricsTick, MetricsWake, LogTick, LogWake, Backends, Signal,
           CloseMetrics, CloseLog, Return, vars, mVars, M!Flush, M!TakeBatch, M!EncodeAndSend,
           M!EncodeFail, M!SendOk, M!SendFail, M!Backend, M!Tick, M!LoopOnTick, M!LoopOnDone,
           M!Close
  <1>3. lAccepted' = lAccepted
    BY DEF MetricsFlush, LogFlush, MetricsTick, MetricsWake, LogTick, LogWake, Backends, Signal,
           CloseMetrics, CloseLog, Return, vars, lVars, L!Flush, L!TakeBatch, L!EncodeAndSend,
           L!EncodeFail, L!SendOk, L!SendFail, L!Backend, L!Tick, L!LoopOnTick, L!LoopOnDone,
           L!Close
  <1> QED BY <1>1, <1>2, <1>3 DEF counted

(* What the history says about a message before it is received *)
LEMMA NothingAhead ==
  ASSUME PipeTypes, NEW k \in Nat, k > taken
  PROVE  MetricsOf(k) = {} /\ LogsOf(k) = {} /\ k \notin received \cup dropped
  <1>1. \A s \in 1..mAccepted : mOrigin[s] \in 1..taken
    BY DEF PipeTypes
  <1>2. \A s \in 1..lAccepted : lOrigin[s] \in 1..taken
    BY DEF PipeTypes
  <1>3. taken \in Nat /\ k \notin 1..taken
    BY DEF PipeTypes
  <1> QED BY <1>1, <1>2, <1>3 DEF PipeTypes, MetricsOf, LogsOf

(* A message put into the channel changes nothing for those received. *)
LEMMA ArriveStep ==
  ASSUME PipeInv, NEW msg \in Messages, Arrive(msg)
  PROVE  PipeInv'
  <1>1. /\ UNCHANGED <<taken, pipe, received, dropped, mOrigin, lOrigin, mAccepted, lAccepted>>
        /\ Len(sent) < MaxMessages /\ sent' = Append(sent, msg)
    BY DEF Arrive, origins, mVars, lVars
  <1>2. sent \in Seq(Messages) /\ taken \in 0..Len(sent)
    BY DEF PipeInv, PipeTypes
  <1>3. /\ sent' \in Seq(Messages) /\ Len(sent') = Len(sent) + 1
        /\ \A k \in 1..Len(sent) : sent'[k] = sent[k]
    BY <1>1, <1>2, AppendProperties
  <1>4. PipeTypes'
    <2>1. taken' \in 0..Len(sent') /\ Len(sent') <= MaxMessages
      BY <1>1, <1>2, <1>3, BridgeAssumption
    <2> QED BY <1>1, <1>3, <2>1 DEF PipeInv, PipeTypes
  <1>5. \A k \in 1..taken : sent'[k] = sent[k] /\ Owed(k)' = Owed(k)
    BY <1>2, <1>3 DEF Owed
  <1>6. \A k : MetricsOf(k)' = MetricsOf(k) /\ LogsOf(k)' = LogsOf(k)
    BY <1>1 DEF MetricsOf, LogsOf
  <1>7. InHandInv'
    <2>1. taken \in received => taken \in 1..taken
      BY DEF PipeInv, PipeTypes
    <2> QED BY <1>1, <1>5, <1>6, <2>1 DEF PipeInv, InHandInv
  <1>8. Accounted'
    <2>1. InHand' = InHand
      BY <1>1 DEF InHand
    <2> QED BY <1>1, <1>5, <1>6, <2>1 DEF PipeInv, Accounted, Owed
  <1> QED BY <1>4, <1>7, <1>8 DEF PipeInv

(* The receive, and processMessage up to its first Submit *)
LEMMA ReceiveStep ==
  ASSUME PipeInv, Receive
  PROVE  PipeInv'
  <1> DEFINE k == taken + 1
             bad == ParseFails(sent[k].topic, sent[k].payload)
  <1>1. /\ UNCHANGED <<sent, mOrigin, lOrigin, mAccepted, lAccepted>>
        /\ pipe = "select" /\ taken < Len(sent) /\ taken' = k
        /\ dropped' = IF bad THEN dropped \cup {k} ELSE dropped
        /\ received' = IF ~bad THEN received \cup {k} ELSE received
        /\ pipe' = IF bad THEN "select" ELSE Route(sent[k])
    BY DEF Receive, AtSelect, CountsAsReceived, AfterParseError, origins, mVars, lVars
  <1>2. taken \in Nat /\ Len(sent) \in Nat /\ k \in 1..Len(sent) /\ 1..k = (1..taken) \cup {k}
    BY <1>1 DEF PipeInv, PipeTypes
  <1>3. Owed(k) \in Nat
    BY <1>2, MessageProperties DEF PipeInv
  <1>4. MetricsOf(k) = {} /\ LogsOf(k) = {} /\ k \notin received \cup dropped /\ k \notin 1..taken
    <2>1. k \in Nat /\ k > taken /\ k \notin 1..taken
      BY <1>2
    <2> QED BY <2>1, NothingAhead DEF PipeInv
  <1> DEFINE forM == Owed(k) > 0
             forL == ToLog(Loaded, sent[k].topic)
  <1>5. pipe' = IF bad THEN "select" ELSE IF forM THEN "metrics" ELSE IF forL THEN "log" ELSE "select"
    BY <1>1 DEF Route, Owed
  <1>6. \A j : MetricsOf(j)' = MetricsOf(j) /\ LogsOf(j)' = LogsOf(j) /\ Owed(j)' = Owed(j)
    BY <1>1 DEF MetricsOf, LogsOf, Owed
  <1>7. Cardinality(MetricsOf(k)) = 0
    BY <1>4, FS_EmptySet, Zenon
  <1>8. PipeTypes'
    <2>1. mOrigin \in [1..mAccepted -> 1..k] /\ lOrigin \in [1..lAccepted -> 1..k]
      BY <1>2 DEF PipeInv, PipeTypes
    <2>2. received' \subseteq 1..k /\ dropped' \subseteq 1..k
      BY <1>1, <1>2 DEF PipeInv, PipeTypes
    <2>3. taken' \in 0..Len(sent)
      BY <1>1, <1>2
    <2>4. pipe' \in {"select", "metrics", "log", "returned"}
      BY <1>5
    <2> HIDE DEF k
    <2> QED BY <1>1, <2>1, <2>2, <2>3, <2>4 DEF PipeInv, PipeTypes
  <1>9. ~bad => k \in received'
    BY <1>1
  <1>10. InHandInv'
    <2> HIDE DEF k, bad
    <2>1. ~forM => Owed(k) = 0
      BY <1>3
    <2>2. taken' = k /\ sent' = sent
      BY <1>1
    <2>3. pipe' \in {"metrics", "log"} => ~bad
      BY <1>5
    <2>4. pipe' = "metrics" => forM
      BY <1>5
    <2>5. pipe' = "log" => forL /\ ~forM
      BY <1>5
    <2> QED BY <1>4, <1>6, <1>7, <1>9, <2>1, <2>2, <2>3, <2>4, <2>5 DEF InHandInv
  <1>11. Accounted'
    <2> HIDE DEF k, bad
    <2>1. received' \cup dropped' = 1..taken' /\ received' \cap dropped' = {}
      BY <1>1, <1>2, <1>4 DEF PipeInv, Accounted
    <2> SUFFICES ASSUME NEW j \in (1..taken') \ InHand'
                 PROVE  /\ Cardinality(MetricsOf(j)) = (IF j \in received' THEN Owed(j) ELSE 0)
                        /\ LogsOf(j) # {} <=> j \in received' /\ ToLog(Loaded, sent[j].topic)
      BY <1>1, <1>6, <2>1 DEF Accounted, Owed
    <2>2. CASE j \in 1..taken
      <3>1. j # k /\ j \notin InHand
        BY <1>1, <1>4, <2>2 DEF InHand
      <3>2. j \in received' <=> j \in received
        BY <1>1, <3>1
      <3> QED BY <2>2, <3>1, <3>2 DEF PipeInv, Accounted, Owed
    <2>3. CASE j = k
      <3>1. pipe' \notin {"metrics", "log"}
        BY <1>1, <2>3 DEF InHand
      <3>2. bad => k \notin received'
        BY <1>1, <1>4
      <3>3. ~bad => ~forM /\ ~forL
        BY <1>5, <3>1
      <3>4. ~forM => Owed(k) = 0
        BY <1>3
      <3> HIDE DEF forM
      <3> QED BY <1>4, <1>7, <2>3, <3>2, <3>3, <3>4
    <2> QED BY <1>1, <1>2, <2>2, <2>3
  <1> QED BY <1>8, <1>10, <1>11 DEF PipeInv

(* SubmitMetrics gives the message in hand all the samples it owes. *)
LEMMA SubmitMetricsStep ==
  ASSUME PipeInv, SubmitMetrics
  PROVE  PipeInv'
  <1> DEFINE n == Owed(taken)
             forL == ToLog(Loaded, sent[taken].topic)
  <1>1. /\ UNCHANGED <<sent, taken, received, dropped, lOrigin, lAccepted>>
        /\ pipe = "metrics" /\ pipe' = IF forL THEN "log" ELSE "select"
        /\ mAccepted' = mAccepted + n /\ mOrigin' = mOrigin \o Run(n, taken)
    BY DEF SubmitMetrics, M!Submit, Owed, Message, lVars, Run
  <1>2. /\ taken \in received /\ taken \in 1..taken /\ taken \in 1..Len(sent)
        /\ LogsOf(taken) = {} /\ MetricsOf(taken) = {}
    BY <1>1 DEF PipeInv, PipeTypes, InHandInv
  <1>3. n \in Nat /\ mAccepted \in Nat /\ mOrigin \in [1..mAccepted -> 1..taken]
    BY <1>2, MessageProperties DEF PipeInv, PipeTypes
  <1> HIDE DEF n
  <1>4. ExtendedByRun(mOrigin', mOrigin, mAccepted, 1..taken, n, taken)
    BY <1>1, <1>2, <1>3, RunAppended
  <1>5. \A j : /\ MetricsOf(j) = Places(mOrigin, mAccepted, j)
               /\ MetricsOf(j)' = Places(mOrigin', mAccepted + n, j)
    BY <1>1 DEF MetricsOf, Places
  <1>6. \A j : j # taken => MetricsOf(j)' = MetricsOf(j)
    BY <1>4, <1>5 DEF ExtendedByRun
  <1>7. \A j : j = taken => Cardinality(MetricsOf(j)') = n
    <2> DEFINE old == Cardinality(MetricsOf(taken))
    <2>1. old = 0
      BY <1>2, FS_EmptySet, Zenon
    <2>2. old = Cardinality(Places(mOrigin, mAccepted, taken))
      BY <1>5, Zenon
    <2>3. Cardinality(Places(mOrigin', mAccepted + n, taken)) =
            Cardinality(Places(mOrigin, mAccepted, taken)) + n
      BY <1>4 DEF ExtendedByRun
    <2> HIDE DEF old
    <2>4. Cardinality(Places(mOrigin', mAccepted + n, taken)) = n
      BY <1>3, <2>1, <2>2, <2>3
    <2> QED BY <1>5, <2>4, Zenon
  <1>8. \A j : LogsOf(j)' = LogsOf(j) /\ Owed(j)' = Owed(j)
    BY <1>1 DEF LogsOf, Owed
  <1>9. PipeTypes'
    <2>1. mAccepted' \in Nat /\ mOrigin' \in [1..mAccepted' -> 1..taken]
      BY <1>1, <1>3, <1>4 DEF ExtendedByRun
    <2> QED BY <1>1, <2>1 DEF PipeInv, PipeTypes
  <1>10. \A j \in 1..taken : j # taken => j \notin InHand
    BY DEF InHand
  <1>11. InHandInv'
    BY <1>1, <1>2, <1>7, <1>8 DEF InHandInv, n
  <1>12. Accounted'
    <2>1. received' \cup dropped' = 1..taken' /\ received' \cap dropped' = {}
      BY <1>1 DEF PipeInv, Accounted
    <2> SUFFICES ASSUME NEW j \in (1..taken) \ InHand'
                 PROVE  /\ Cardinality(MetricsOf(j)') = (IF j \in received THEN Owed(j) ELSE 0)
                        /\ LogsOf(j) # {} <=> j \in received /\ ToLog(Loaded, sent[j].topic)
      BY <1>1, <1>8, <2>1 DEF Accounted, Owed
    <2>2. CASE j = taken
      <3>1. ~forL
        BY <1>1, <2>2 DEF InHand
      <3> QED BY <1>2, <1>7, <2>2, <3>1 DEF n
    <2>3. CASE j # taken
      BY <1>6, <1>10, <2>3 DEF PipeInv, Accounted, Owed
    <2> QED BY <2>2, <2>3
  <1> QED BY <1>9, <1>11, <1>12 DEF PipeInv

(* SubmitLog gives it its log entry. *)
LEMMA SubmitLogStep ==
  ASSUME PipeInv, SubmitLog
  PROVE  PipeInv'
  <1>1. /\ UNCHANGED <<sent, taken, received, dropped, mOrigin, mAccepted>>
        /\ pipe = "log" /\ pipe' = "select"
        /\ lAccepted' = lAccepted + 1 /\ lOrigin' = Append(lOrigin, taken)
    BY DEF SubmitLog, L!Submit, mVars
  <1>2. /\ taken \in received /\ taken \in 1..taken /\ ToLog(Loaded, sent[taken].topic)
        /\ Cardinality(MetricsOf(taken)) = Owed(taken)
    BY <1>1 DEF PipeInv, PipeTypes, InHandInv
  <1>3. lAccepted \in Nat /\ lOrigin \in [1..lAccepted -> 1..taken]
    BY DEF PipeInv, PipeTypes
  <1>5. /\ lOrigin' \in [1..(lAccepted + 1) -> 1..taken]
        /\ \A s \in 1..lAccepted : lOrigin'[s] = lOrigin[s]
        /\ lOrigin'[lAccepted + 1] = taken
    <2>1. ExtendedByRun(lOrigin', lOrigin, lAccepted, 1..taken, 1, taken)
      BY <1>1, <1>2, <1>3, OneAppended
    <2> QED BY <1>3, <2>1 DEF ExtendedByRun
  <1>6. \A j : j = taken => LogsOf(j)' # {}
    <2>1. lAccepted + 1 \in 1..lAccepted'
      BY <1>1, <1>3
    <2> QED BY <1>1, <1>5, <2>1 DEF LogsOf
  <1>7. \A j : j # taken => LogsOf(j)' = LogsOf(j)
    <2>1. 1..lAccepted' = (1..lAccepted) \cup {lAccepted + 1}
      BY <1>1, <1>3
    <2> QED BY <1>1, <1>5, <2>1 DEF LogsOf
  <1>8. \A j : MetricsOf(j)' = MetricsOf(j) /\ Owed(j)' = Owed(j)
    BY <1>1 DEF MetricsOf, Owed
  <1>9. PipeTypes'
    <2>1. lAccepted' \in Nat /\ lOrigin' \in [1..lAccepted' -> 1..taken]
      BY <1>1, <1>3, <1>5
    <2> QED BY <1>1, <2>1 DEF PipeInv, PipeTypes
  <1>10. InHandInv'
    BY <1>1 DEF InHandInv
  <1>11. Accounted'
    <2>1. received' \cup dropped' = 1..taken' /\ received' \cap dropped' = {}
      BY <1>1 DEF PipeInv, Accounted
    <2> SUFFICES ASSUME NEW j \in 1..taken
                 PROVE  /\ Cardinality(MetricsOf(j)) = (IF j \in received THEN Owed(j) ELSE 0)
                        /\ LogsOf(j)' # {} <=> j \in received /\ ToLog(Loaded, sent[j].topic)
      BY <1>1, <1>8, <2>1 DEF Accounted, Owed
    <2>2. CASE j = taken
      BY <1>2, <1>6, <2>2
    <2>3. CASE j # taken
      <3>1. j \notin InHand
        BY <2>3 DEF InHand
      <3> QED BY <1>7, <2>3, <3>1 DEF PipeInv, Accounted, Owed
    <2> QED BY <2>2, <2>3
  <1> QED BY <1>9, <1>10, <1>11 DEF PipeInv

(* The pipeline's accounts are an invariant. *)
LEMMA PipeInvariant == Spec => []PipeInv
  <1>1. Init => PipeInv
    <2> SUFFICES ASSUME Init PROVE PipeInv
      OBVIOUS
    <2>1. /\ sent = <<>> /\ taken = 0 /\ pipe = "select" /\ received = {} /\ dropped = {}
          /\ mOrigin = <<>> /\ lOrigin = <<>> /\ mAccepted = 0 /\ lAccepted = 0
      BY DEF Init, M!Init, L!Init
    <2>2. PipeTypes
      BY <2>1, BridgeAssumption DEF PipeTypes
    <2> QED BY <2>1, <2>2 DEF PipeInv, InHandInv, Accounted, InHand
  <1>2. PipeInv /\ [Next]_vars => PipeInv'
    <2> SUFFICES ASSUME PipeInv, [Next]_vars PROVE PipeInv'
      OBVIOUS
    <2>1. CASE \E msg \in Messages : Arrive(msg)
      BY <2>1, ArriveStep
    <2>2. CASE PipelineEnd
      <3>1. /\ UNCHANGED <<sent, taken, received, dropped, mOrigin, lOrigin, mAccepted, lAccepted>>
            /\ pipe = "select" /\ pipe' = "returned"
        BY <2>2 DEF PipelineEnd, AtSelect, origins, mVars, lVars
      <3>2. InHand' = InHand
        BY <3>1 DEF InHand
      <3>3. \A j : MetricsOf(j)' = MetricsOf(j) /\ LogsOf(j)' = LogsOf(j)
        BY <3>1 DEF MetricsOf, LogsOf
      <3>4. PipeTypes' /\ InHandInv'
        BY <3>1 DEF PipeInv, PipeTypes, InHandInv
      <3> QED BY <3>1, <3>2, <3>3, <3>4 DEF PipeInv, Accounted
    <2>3. CASE Receive
      BY <2>3, ReceiveStep
    <2>4. CASE SubmitMetrics
      BY <2>4, SubmitMetricsStep
    <2>5. CASE SubmitLog
      BY <2>5, SubmitLogStep
    <2>6. ASSUME UNCHANGED counted PROVE PipeInv'
      <3>1. PipeTypes'
        BY <2>6 DEF counted, PipeInv, PipeTypes
      <3>2. /\ InHand' = InHand
            /\ \A j : MetricsOf(j)' = MetricsOf(j) /\ LogsOf(j)' = LogsOf(j) /\ Owed(j)' = Owed(j)
        BY <2>6 DEF counted, InHand, MetricsOf, LogsOf, Owed
      <3>3. UNCHANGED <<sent, taken, pipe, received, dropped>>
        BY <2>6 DEF counted
      <3>4. InHandInv'
        BY <3>2, <3>3 DEF PipeInv, InHandInv
      <3>5. Accounted'
        BY <3>2, <3>3 DEF PipeInv, Accounted
      <3> QED BY <3>1, <3>4, <3>5 DEF PipeInv
    <2> QED BY <2>1, <2>2, <2>3, <2>4, <2>5, <2>6, AsideStep DEF Next
  <1> QED BY <1>1, <1>2, PTL DEF Spec

(* Every message that left the channel was counted once, those apart that
   relabelling has done away with, and one counted as received has been submitted in full to the forwarders its topic is listed
   for and to no other: for any configuration and any messages, whatever
   flushes the pipeline was drawn into and whenever the bridge is shut down. *)
THEOREM EveryMessageAccounted == Spec => []CountedAndSubmitted
  <1>1. PipeInv => CountedAndSubmitted
    BY DEF PipeInv, Accounted, CountedAndSubmitted
  <1> QED BY <1>1, PipeInvariant, PTL

(* Inside the bridge each forwarder behaves as it does alone: the pipeline, the
   other forwarder and main's shutdown add nothing to its behaviour, so all that
   is proved of Forwarder holds of both. *)
THEOREM BridgeRunsForwarders == Spec => M!Spec /\ L!Spec
  <1>1. Init => M!Init /\ L!Init
    BY DEF Init
  <1>2. PipeInv /\ [Next]_vars => [M!Next]_(M!vars) /\ [L!Next]_(L!vars)
    BY MetricsForwarderStep, LogForwarderStep DEF mVars, lVars, M!vars, L!vars
  <1> QED BY <1>1, <1>2, PipeInvariant, PTL DEF Spec, M!Spec, L!Spec

-----------------------------------------------------------------------------
(* Types *)

(* The bounds are numbers. *)
LEMMA SamplesBound == MaxMessages * MaxPerMessage \in Nat /\ MaxMessages \in Nat
  BY BridgeAssumption

(* The state of the metrics forwarder keeps its types. *)
LEMMA MetricsTypeStep ==
  ASSUME M!TypeOK, [M!Next]_mVars
  PROVE  M!TypeOK'
  <1> USE BridgeAssumption
  <1>1. ASSUME NEW g \in {Pipeline}, NEW n \in 1..MaxPerMessage, M!Submit(g, n) PROVE M!TypeOK'
    <2>1. n \in Nat /\ mAccepted \in Nat /\ mAccepted + n \in 0..(MaxMessages * MaxPerMessage)
      BY <1>1, SamplesBound DEF M!Submit, M!TypeOK
    <2>2. \A i \in 1..n : mAccepted + i \in M!Samples
      BY <2>1, SamplesBound DEF M!Samples
    <2>3. M!Fresh(n) \in Seq(M!Samples)
      BY <2>1, <2>2 DEF M!Fresh
    <2>4. mPending' \in Seq(M!Samples)
      BY <1>1, <2>3, ConcatProperties DEF M!Submit, M!TypeOK
    <2> QED BY <1>1, <2>1, <2>4 DEF M!Submit, M!TypeOK, M!Flushers
  <1>2. ASSUME NEW g \in M!Flushers, M!TakeBatch(g) PROVE M!TypeOK'
    <2>1. M!Range(mPending) \in SUBSET M!Samples
      BY DEF M!Range, M!TypeOK
    <2>2. mPending' \in Seq(M!Samples)
      BY <1>2 DEF M!TakeBatch, M!BufferAfterSwap
    <2> QED BY <1>2, <2>1, <2>2 DEF M!TakeBatch, M!TypeOK, M!AfterFlush, M!Flushers
  <1>3. ASSUME NEW g \in M!Flushers, NEW out \in SUBSET mBatch[g],
               M!EncodeAndSend(g, out) \/ M!EncodeFail(g, out)
        PROVE  M!TypeOK'
    BY <1>3 DEF M!EncodeAndSend, M!EncodeFail, M!TypeOK, M!AfterFlush, M!Flushers
  <1>4. ASSUME NEW g \in M!Flushers, M!SendOk(g) \/ M!SendFail(g) PROVE M!TypeOK'
    BY <1>4 DEF M!SendOk, M!SendFail, M!TypeOK, M!AfterFlush, M!Flushers
  <1>5. ASSUME NEW r \in mWire, NEW accept \in BOOLEAN, M!Backend(r, accept)
        PROVE  M!TypeOK'
    BY <1>5 DEF M!Backend, M!TypeOK
  <1>6. CASE M!Tick \/ M!LoopOnTick \/ M!LoopOnDone \/ M!Close
    BY <1>6 DEF M!Tick, M!LoopOnTick, M!LoopOnDone, M!Close, M!TypeOK, M!Flushers
  <1>7. CASE UNCHANGED mVars
    BY <1>7 DEF mVars, M!TypeOK
  <1> QED BY <1>1, <1>2, <1>3, <1>4, <1>5, <1>6, <1>7 DEF M!Next, M!Flush

(* The state of the log forwarder keeps its types. *)
LEMMA LogTypeStep ==
  ASSUME L!TypeOK, [L!Next]_lVars
  PROVE  L!TypeOK'
  <1> USE BridgeAssumption
  <1>1. ASSUME NEW g \in {Pipeline}, NEW n \in 1..1, L!Submit(g, n) PROVE L!TypeOK'
    <2>1. n \in Nat /\ lAccepted \in Nat /\ lAccepted + n \in 0..MaxMessages
      BY <1>1, SamplesBound DEF L!Submit, L!TypeOK
    <2>2. \A i \in 1..n : lAccepted + i \in L!Samples
      BY <2>1, SamplesBound DEF L!Samples
    <2>3. L!Fresh(n) \in Seq(L!Samples)
      BY <2>1, <2>2 DEF L!Fresh
    <2>4. lPending' \in Seq(L!Samples)
      BY <1>1, <2>3, ConcatProperties DEF L!Submit, L!TypeOK
    <2> QED BY <1>1, <2>1, <2>4 DEF L!Submit, L!TypeOK, L!Flushers
  <1>2. ASSUME NEW g \in L!Flushers, L!TakeBatch(g) PROVE L!TypeOK'
    <2>1. L!Range(lPending) \in SUBSET L!Samples
      BY DEF L!Range, L!TypeOK
    <2>2. lPending' \in Seq(L!Samples)
      BY <1>2 DEF L!TakeBatch, L!BufferAfterSwap
    <2> QED BY <1>2, <2>1, <2>2 DEF L!TakeBatch, L!TypeOK, L!AfterFlush, L!Flushers
  <1>3. ASSUME NEW g \in L!Flushers, NEW out \in SUBSET lBatch[g],
               L!EncodeAndSend(g, out) \/ L!EncodeFail(g, out)
        PROVE  L!TypeOK'
    BY <1>3 DEF L!EncodeAndSend, L!EncodeFail, L!TypeOK, L!AfterFlush, L!Flushers
  <1>4. ASSUME NEW g \in L!Flushers, L!SendOk(g) \/ L!SendFail(g) PROVE L!TypeOK'
    BY <1>4 DEF L!SendOk, L!SendFail, L!TypeOK, L!AfterFlush, L!Flushers
  <1>5. ASSUME NEW r \in lWire, NEW accept \in BOOLEAN, L!Backend(r, accept)
        PROVE  L!TypeOK'
    BY <1>5 DEF L!Backend, L!TypeOK
  <1>6. CASE L!Tick \/ L!LoopOnTick \/ L!LoopOnDone \/ L!Close
    BY <1>6 DEF L!Tick, L!LoopOnTick, L!LoopOnDone, L!Close, L!TypeOK, L!Flushers
  <1>7. CASE UNCHANGED lVars
    BY <1>7 DEF lVars, L!TypeOK
  <1> QED BY <1>1, <1>2, <1>3, <1>4, <1>5, <1>6, <1>7 DEF L!Next, L!Flush

(* The state's types hold throughout, the forwarders' included. *)
THEOREM TypeCorrect == Spec => []TypeOK
  <1> DEFINE Types == M!TypeOK /\ L!TypeOK
  <1>1. Init => Types
    <2> SUFFICES ASSUME Init PROVE Types
      OBVIOUS
    <2>1. M!TypeOK
      <3>1. mAccepted \in 0..(MaxMessages * MaxPerMessage) /\ mPending \in Seq(M!Samples)
        BY SamplesBound DEF Init, M!Init
      <3>2. mBatch \in [M!Flushers -> SUBSET M!Samples]
        BY DEF Init, M!Init
      <3>3. /\ mPc \in [M!Flushers -> {"idle", "flush", "encode", "send", "returned"}]
            /\ \A g \in {Pipeline} : mPc[g] # "returned"
        BY DEF Init, M!Init, M!Flushers
      <3> QED BY <3>1, <3>2, <3>3, Zenon DEF Init, M!Init, M!TypeOK
    <2>2. L!TypeOK
      <3>1. lAccepted \in 0..MaxMessages /\ lPending \in Seq(L!Samples)
        BY SamplesBound DEF Init, L!Init
      <3>2. lBatch \in [L!Flushers -> SUBSET L!Samples]
        BY DEF Init, L!Init
      <3>3. /\ lPc \in [L!Flushers -> {"idle", "flush", "encode", "send", "returned"}]
            /\ \A g \in {Pipeline} : lPc[g] # "returned"
        BY DEF Init, L!Init, L!Flushers
      <3> QED BY <3>1, <3>2, <3>3, Zenon DEF Init, L!Init, L!TypeOK
    <2> QED BY <2>1, <2>2
  <1>2. PipeInv /\ Types /\ [Next]_vars => Types'
    BY MetricsForwarderStep, LogForwarderStep, MetricsTypeStep, LogTypeStep
  <1>3. PipeInv /\ Types => TypeOK
    <2> SUFFICES ASSUME PipeInv, Types PROVE TypeOK
      OBVIOUS
    <2>1. 1..taken \subseteq 1..MaxMessages
      BY BridgeAssumption DEF PipeInv, PipeTypes
    <2>2. mOrigin \in [1..mAccepted -> 1..MaxMessages] /\ lOrigin \in [1..lAccepted -> 1..MaxMessages]
      BY <2>1 DEF PipeInv, PipeTypes
    <2> QED BY <2>2 DEF PipeInv, PipeTypes, TypeOK
  <1> QED BY <1>1, <1>2, <1>3, PipeInvariant, PTL DEF Spec
=============================================================================
