------------------------------- MODULE Bridge -------------------------------
(***************************************************************************)
(* The program around the forwarders, main.go: the pipeline goroutine      *)
(* takes a record off the broker's channel, processMessage counts it,      *)
(* routes it and submits what it holds to the two forwarders, staying in   *)
(* Submit for as long as the flush it may start there; a signal makes main *)
(* cancel the pipeline, close the components in turn and return, which     *)
(* ends the process whatever the other goroutines are doing.               *)
(*                                                                         *)
(* The metrics forwarder's variables carry the prefix m, the log           *)
(* forwarder's the prefix l; both are instances of Forwarder.  The cache   *)
(* is not here: nothing in the program stores into it.                     *)
(***************************************************************************)
EXTENDS Routing, FiniteSets

CONSTANTS
  Conf,         \* the configuration as the file gives it
  Messages,     \* the messages OME may send: topic and payload
  Capacity,     \* the capacity of the broker's channel
  MetricsBatch, \* remote_write.batch_size
  LogBatch,     \* loki.batch_size
  NamelessLabels, \* whether a relabel rule can make a label without a name
  Pipeline, MetricsLoop, LogLoop, \* goroutines
  MaxMessages,  \* bound: messages sent in a behaviour
  MaxPerMessage \* bound: samples in one message

VARIABLES
  sent,     \* history: the messages put into the channel
  taken,    \* history: how many of them the pipeline has received
  pipe,     \* where the pipeline stands: "select", "metrics", "log" or "returned"
  mainPc,   \* where main stands
  received, \* messages counted by ome_bridge_messages_received_total
  dropped,  \* messages counted by ome_bridge_messages_dropped_total
  mOrigin, lOrigin, \* history: the message each sample or entry comes from
  mAccepted, mPending, mPc, mBatch, mTick, mDone, mFinal, mWire, mStored,
  mRelabelled, mAcked, mFailed,
  lAccepted, lPending, lPc, lBatch, lTick, lDone, lFinal, lWire, lStored,
  lRelabelled, lAcked, lFailed

pipeVars == <<sent, taken, pipe, received, dropped>>
mVars == <<mAccepted, mPending, mPc, mBatch, mTick, mDone, mFinal, mWire,
           mStored, mRelabelled, mAcked, mFailed>>
lVars == <<lAccepted, lPending, lPc, lBatch, lTick, lDone, lFinal, lWire,
           lStored, lRelabelled, lAcked, lFailed>>
origins == <<mOrigin, lOrigin>>
vars == <<pipeVars, mainPc, origins, mVars, lVars>>

M == INSTANCE Forwarder WITH
  Submitters <- {Pipeline}, Loop <- MetricsLoop, BatchSize <- MetricsBatch,
  MaxSubmit <- MaxPerMessage, EncodingMayFail <- NamelessLabels,
  MaxSamples <- MaxMessages * MaxPerMessage,
  accepted <- mAccepted, pending <- mPending, pc <- mPc, batch <- mBatch,
  tick <- mTick, done <- mDone, final <- mFinal, wire <- mWire,
  stored <- mStored, relabelled <- mRelabelled, acked <- mAcked, failed <- mFailed

L == INSTANCE Forwarder WITH
  Submitters <- {Pipeline}, Loop <- LogLoop, BatchSize <- LogBatch,
  MaxSubmit <- 1, EncodingMayFail <- FALSE, MaxSamples <- MaxMessages,
  accepted <- lAccepted, pending <- lPending, pc <- lPc, batch <- lBatch,
  tick <- lTick, done <- lDone, final <- lFinal, wire <- lWire,
  stored <- lStored, relabelled <- lRelabelled, acked <- lAcked, failed <- lFailed

Loaded == applyDefaults(Conf)

ASSUME BridgeAssumption ==
  /\ MaxMessages \in Nat /\ MaxPerMessage \in Nat \ {0}
  /\ MetricsBatch \in Nat \ {0} /\ LogBatch \in Nat \ {0}
  /\ NamelessLabels \in BOOLEAN
  /\ Pipeline \notin {MetricsLoop, LogLoop}
  /\ \A msg \in Messages : ToMetrics(Loaded, msg.topic, msg.payload) \in 0..MaxPerMessage

Running == mainPc # "returned"
Cancelled == mainPc # "waiting"

Init ==
  /\ sent = <<>> /\ taken = 0 /\ pipe = "select" /\ mainPc = "waiting"
  /\ received = {} /\ dropped = {}
  /\ mOrigin = <<>> /\ lOrigin = <<>>
  /\ M!Init /\ L!Init

-----------------------------------------------------------------------------
(* The pipeline *)

(* A connection handler of the broker puts a record into the channel.  One
   that is being served goes on after Close. *)
Arrive(msg) ==
  /\ Running
  /\ Len(sent) < MaxMessages
  /\ Len(sent) - taken < Capacity
  /\ sent' = Append(sent, msg)
  /\ UNCHANGED <<taken, pipe, mainPc, received, dropped, origins, mVars, lVars>>

(* The pipeline is in its select: no Submit is under way. *)
AtSelect == Running /\ pipe = "select" /\ mPc[Pipeline] = "idle" /\ lPc[Pipeline] = "idle"

(* select takes ctx.Done() or the channel, whichever it likes when both are
   ready. *)
PipelineEnd ==
  /\ AtSelect /\ Cancelled
  /\ pipe' = "returned"
  /\ UNCHANGED <<sent, taken, mainPc, received, dropped, origins, mVars, lVars>>

AfterParseError_Return == "returned"
AfterParseError == "select"

(* Whether ome_bridge_messages_received_total counts a message *)
CountsAsReceived_All(bad) == TRUE
CountsAsReceived(bad) == ~bad

(* Where processMessage goes with a message that parses *)
Route(msg) ==
  IF ToMetrics(Loaded, msg.topic, msg.payload) > 0 THEN "metrics"
  ELSE IF ToLog(Loaded, msg.topic) THEN "log" ELSE "select"

(* The receive, and processMessage up to its first Submit *)
Receive ==
  LET k == taken + 1
      msg == sent[k]
      bad == ParseFails(msg.topic, msg.payload)
  IN
  /\ AtSelect
  /\ taken < Len(sent)
  /\ taken' = k
  /\ dropped' = IF bad THEN dropped \cup {k} ELSE dropped
  /\ received' = IF CountsAsReceived(bad) THEN received \cup {k} ELSE received
  /\ pipe' = IF bad THEN AfterParseError ELSE Route(msg)
  /\ UNCHANGED <<sent, mainPc, origins, mVars, lVars>>

Message == sent[taken]

SubmitMetrics ==
  LET n == ToMetrics(Loaded, Message.topic, Message.payload) IN
  /\ Running /\ pipe = "metrics"
  /\ M!Submit(Pipeline, n)
  /\ mOrigin' = mOrigin \o [i \in 1..n |-> taken]
  /\ pipe' = IF ToLog(Loaded, Message.topic) THEN "log" ELSE "select"
  /\ UNCHANGED <<sent, taken, mainPc, received, dropped, lOrigin, lVars>>

(* The log forwarder's turn comes when mFwd.Submit has returned. *)
SubmitLog ==
  /\ Running /\ pipe = "log" /\ mPc[Pipeline] = "idle"
  /\ L!Submit(Pipeline, 1)
  /\ lOrigin' = Append(lOrigin, taken)
  /\ pipe' = "select"
  /\ UNCHANGED <<sent, taken, mainPc, received, dropped, mOrigin, mVars>>

-----------------------------------------------------------------------------
(* The forwarders' own goroutines, and flush in the pipeline's *)

MetricsFlush(g) ==
  /\ Running /\ M!Flush(g)
  /\ UNCHANGED <<pipeVars, mainPc, origins, lVars>>
MetricsTick ==
  /\ Running /\ M!Tick
  /\ UNCHANGED <<pipeVars, mainPc, origins, lVars>>
MetricsWake ==
  /\ Running
  /\ M!LoopOnTick \/ M!LoopOnDone
  /\ UNCHANGED <<pipeVars, mainPc, origins, lVars>>

LogFlush(g) ==
  /\ Running /\ L!Flush(g)
  /\ UNCHANGED <<pipeVars, mainPc, origins, mVars>>
LogTick ==
  /\ Running /\ L!Tick
  /\ UNCHANGED <<pipeVars, mainPc, origins, mVars>>
LogWake ==
  /\ Running
  /\ L!LoopOnTick \/ L!LoopOnDone
  /\ UNCHANGED <<pipeVars, mainPc, origins, mVars>>

(* The backends handle requests also when the bridge is gone. *)
Backends ==
  /\ \/ (\E r \in mWire, accept \in BOOLEAN : M!Backend(r, accept)) /\ UNCHANGED lVars
     \/ (\E r \in lWire, accept \in BOOLEAN : L!Backend(r, accept)) /\ UNCHANGED mVars
  /\ UNCHANGED <<pipeVars, mainPc, origins>>

-----------------------------------------------------------------------------
(* main after the signal *)

(* cancel(); kb.Close() *)
Signal ==
  /\ mainPc = "waiting"
  /\ mainPc' = "closing metrics"
  /\ UNCHANGED <<pipeVars, origins, mVars, lVars>>

CloseMetrics ==
  /\ mainPc = "closing metrics"
  /\ M!Close
  /\ mainPc' = "closing log"
  /\ UNCHANGED <<pipeVars, origins, lVars>>

CloseLog ==
  /\ mainPc = "closing log"
  /\ L!Close
  /\ mainPc' = "leaving"
  /\ UNCHANGED <<pipeVars, origins, mVars>>

(* When main may return: diskCache.Close() does not wait, and srv.Shutdown
   waits ten seconds at most. *)
MayReturn_Drained == taken = Len(sent)
MayReturn == TRUE

Return ==
  /\ mainPc = "leaving"
  /\ MayReturn
  /\ mainPc' = "returned"
  /\ UNCHANGED <<pipeVars, origins, mVars, lVars>>

Main == CloseMetrics \/ CloseLog \/ Return
Pipe == PipelineEnd \/ Receive \/ SubmitMetrics \/ SubmitLog

Next ==
  \/ \E msg \in Messages : Arrive(msg)
  \/ PipelineEnd \/ Receive \/ SubmitMetrics \/ SubmitLog
  \/ \E g \in {Pipeline, MetricsLoop} : MetricsFlush(g)
  \/ \E g \in {Pipeline, LogLoop} : LogFlush(g)
  \/ MetricsTick \/ MetricsWake \/ LogTick \/ LogWake
  \/ Backends
  \/ Signal \/ CloseMetrics \/ CloseLog \/ Return

Spec == Init /\ [][Next]_vars

(* Goroutines that can run do, tickers fire, requests end with an answer or
   a timeout.  Nothing obliges OME to send, the backends to answer or anybody
   to send the signal. *)
Fairness ==
  /\ WF_vars(Pipe) /\ WF_vars(Main)
  /\ \A g \in {Pipeline, MetricsLoop} : WF_vars(MetricsFlush(g))
  /\ \A g \in {Pipeline, LogLoop} : WF_vars(LogFlush(g))
  /\ WF_vars(MetricsTick) /\ WF_vars(MetricsWake)
  /\ WF_vars(LogTick) /\ WF_vars(LogWake)

FairSpec == Spec /\ Fairness

(* Backends that are up again: they accept what is on its way to them.  A
   request made while they were not has left the wire unstored. *)
MetricsAccept ==
  /\ \E r \in mWire : M!Backend(r, TRUE)
  /\ UNCHANGED <<pipeVars, mainPc, origins, lVars>>
LogAccept ==
  /\ \E r \in lWire : L!Backend(r, TRUE)
  /\ UNCHANGED <<pipeVars, mainPc, origins, mVars>>
RecoveredSpec == FairSpec /\ WF_vars(MetricsAccept) /\ WF_vars(LogAccept)

-----------------------------------------------------------------------------
(* Properties *)

TypeOK ==
  /\ sent \in Seq(Messages) /\ taken \in 0..Len(sent)
  /\ pipe \in {"select", "metrics", "log", "returned"}
  /\ received \subseteq 1..taken /\ dropped \subseteq 1..taken
  /\ mOrigin \in [1..mAccepted -> 1..MaxMessages]
  /\ lOrigin \in [1..lAccepted -> 1..MaxMessages]
  /\ M!TypeOK /\ L!TypeOK

MetricsOf(k) == {s \in 1..mAccepted : mOrigin[s] = k}
LogsOf(k) == {s \in 1..lAccepted : lOrigin[s] = k}

(* The message processMessage is at, not yet submitted in full *)
InHand == IF pipe \in {"metrics", "log"} THEN {taken} ELSE {}

(* All that was submitted of a message has been dropped by relabel rules.  The
   counter's help text would have it counted as dropped, which nothing does. *)
RelabelledAway(k) ==
  /\ MetricsOf(k) \cup LogsOf(k) # {}
  /\ MetricsOf(k) \subseteq mRelabelled /\ LogsOf(k) \subseteq lRelabelled

(* Every message that left the channel was counted once, as dropped or as
   received; nothing is said of those that relabelling has done away with.  One
   counted as received has been submitted in full to the forwarders its topic
   is listed for and to no other, whatever flush the pipeline was drawn into in
   between. *)
CountedAndSubmitted ==
  /\ received \cup dropped \subseteq 1..taken
  /\ \A k \in 1..taken : RelabelledAway(k) \/ (k \in received <=> k \notin dropped)
  /\ \A k \in (1..taken) \ InHand :
       /\ Cardinality(MetricsOf(k)) =
            (IF k \in received THEN ToMetrics(Loaded, sent[k].topic, sent[k].payload) ELSE 0)
       /\ LogsOf(k) # {} <=> k \in received /\ ToLog(Loaded, sent[k].topic)

(* A message in the channel is received and leaves the pipeline again unless
   the bridge is being shut down: no backend that never answers, and no message
   that does not parse, stops the pipeline for good. *)
ArrivedIsProcessed ==
  \A k \in 1..MaxMessages :
    (Len(sent) >= k) ~> (taken >= k /\ AtSelect) \/ Cancelled

(* After the signal the process ends, whatever the pipeline, the forwarders
   and the backends are doing. *)
SignalEnds == Cancelled ~> ~Running

(* "When VictoriaMetrics or Loki are unreachable, messages are spooled ... On
   reconnect, they are replayed": a message whose send failed reaches the
   backend in the end, as the samples that failed or as others replayed for it,
   unless the bridge is shut down.  The backends are reachable again for good. *)
FailedIsReplayed ==
  \A k \in 1..MaxMessages :
    /\ MetricsOf(k) \cap mFailed # {} ~> (MetricsOf(k) \cap mStored # {} \/ Cancelled)
    /\ LogsOf(k) \cap lFailed # {} ~> (LogsOf(k) \cap lStored # {} \/ Cancelled)

(* "Graceful shutdown": the process does not end while a forwarder holds
   samples it has accepted. *)
NothingLeftBehind ==
  ~Running => /\ M!Settled = 1..mAccepted
              /\ L!Settled = 1..lAccepted
=============================================================================
