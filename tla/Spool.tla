------------------------------- MODULE Spool -------------------------------
(***************************************************************************)
(* The disk cache behind a forwarder, as main wires them: retryLoop hands  *)
(* an entry to OnRetryMetrics or OnRetryLogs, the callback submits its     *)
(* samples to the forwarder in retryLoop's own goroutine, and the file is  *)
(* deleted when the callback returns.  The message pipeline submits to the *)
(* same forwarder.                                                         *)
(*                                                                         *)
(* DiskCache gives the cache's actions and variables; the forwarder's      *)
(* variables carry the prefix f.  A crash takes the forwarder's buffer and *)
(* leaves the directory and what the backend has got.                      *)
(***************************************************************************)
EXTENDS DiskCache, Sequences

CONSTANTS
  Pipeline, Retrier, FlushLoop, \* the goroutines that use the forwarder
  BatchSize,                    \* its batch size
  MaxPipeline                   \* bound: samples the pipeline submits

VARIABLES
  fAccepted, fPending, fPc, fBatch, fTick, fDone, fFinal, fWire, fStored,
  fRelabelled, fAcked, fFailed, \* Forwarder
  submitting,                   \* the entry the callback was given, in a set, or {}
  unsubmitted,                  \* samples of it that the callback has yet to submit
  origin                        \* history: the Store call each sample comes from,
                                \* 0 for the pipeline's

cacheVars == vars
fVars == <<fAccepted, fPending, fPc, fBatch, fTick, fDone, fFinal, fWire,
           fStored, fRelabelled, fAcked, fFailed>>
callbackVars == <<submitting, unsubmitted>>
spoolVars == <<cacheVars, fVars, callbackVars, origin>>

(* Room for every sample that can be submitted *)
MaxSamples == MaxPipeline + MaxStores * Max(BatchSizes) * (MaxCrashes + 1)

F == INSTANCE Forwarder WITH
  Submitters <- {Pipeline, Retrier}, Loop <- FlushLoop,
  MaxSubmit <- Max(BatchSizes), EncodingMayFail <- FALSE,
  accepted <- fAccepted, pending <- fPending, pc <- fPc, batch <- fBatch,
  tick <- fTick, done <- fDone, final <- fFinal, wire <- fWire,
  stored <- fStored, relabelled <- fRelabelled, acked <- fAcked, failed <- fFailed

(* The other part stays as it is. *)
CacheAlone == UNCHANGED <<fVars, callbackVars, origin>>
ForwarderAlone == UNCHANGED <<cacheVars, callbackVars, origin>>

SpoolInit ==
  /\ Init /\ F!Init
  /\ submitting = {} /\ unsubmitted = 0 /\ origin = <<>>

-----------------------------------------------------------------------------
(* Submitting, with the samples' origin noted *)

SubmitFrom(g, n, id) ==
  /\ F!Submit(g, n)
  /\ origin' = origin \o [i \in 1..n |-> id]

PipelineSubmit ==
  /\ Cardinality({s \in DOMAIN origin : origin[s] = 0}) < MaxPipeline
  /\ SubmitFrom(Pipeline, 1, 0)
  /\ UNCHANGED <<cacheVars, callbackVars>>

(* replayAll calls the callback with what it has read from the file. *)
Callback ==
  /\ HandOver
  /\ submitting' = {disk[Path].entry}
  /\ unsubmitted' = disk[Path].entry.samples
  /\ UNCHANGED <<fVars, origin>>

(* OnRetryMetrics submits the whole batch, OnRetryLogs entry by entry. *)
AtOnce(kind, n) == IF kind = "metrics" THEN n ELSE 1

CallbackSubmit ==
  \E e \in submitting :
    LET n == AtOnce(e.kind, unsubmitted) IN
    /\ unsubmitted > 0
    /\ SubmitFrom(Retrier, n, e.id)
    /\ unsubmitted' = unsubmitted - n
    /\ UNCHANGED <<cacheVars, submitting>>

(* The callback has returned: nothing is left to submit, and the flush the
   last Submit may have started is over. *)
CallbackReturned_AtOnce == TRUE
CallbackReturned == unsubmitted = 0 /\ fPc[Retrier] = "idle"

RemoveHanded ==
  /\ CallbackReturned
  /\ RemoveReplayed
  /\ submitting' = {}
  /\ UNCHANGED <<fVars, unsubmitted, origin>>

-----------------------------------------------------------------------------
(* Steps of one part alone *)

CacheStep ==
  /\ \/ \E kind \in Kinds, n \in BatchSizes : Store(kind, n)
     \/ Clock \/ Writer \/ Tick
     \/ LoopOnTick \/ LoopOnDone \/ (\E slow \in BOOLEAN : List(slow))
     \/ ReadFail \/ Corrupt \/ Expire \/ Skip \/ PassEnd
     \/ Wire
  /\ CacheAlone

ForwarderStep ==
  /\ \/ \E g \in {Pipeline, Retrier, FlushLoop} : F!Flush(g)
     \/ \E r \in fWire, accept \in BOOLEAN : F!Backend(r, accept)
     \/ F!Tick \/ F!LoopOnTick \/ F!LoopOnDone
  /\ ForwarderAlone

-----------------------------------------------------------------------------
(* Shutdown and crash *)

(* main closes the forwarders before it closes the cache. *)
CloseForwarder ==
  /\ wired
  /\ F!Close
  /\ ForwarderAlone

CloseCache ==
  /\ fDone
  /\ Close
  /\ CacheAlone

SpoolCrash ==
  /\ Crash
  /\ fPending' = <<>>
  /\ fPc' = [g \in F!Flushers |-> "idle"] /\ fBatch' = [g \in F!Flushers |-> {}]
  /\ fTick' = FALSE /\ fDone' = FALSE /\ fFinal' = FALSE
  /\ submitting' = {} /\ unsubmitted' = 0
  /\ UNCHANGED <<fAccepted, fWire, fStored, fRelabelled, fAcked, fFailed, origin>>

SpoolNext ==
  \/ PipelineSubmit \/ Callback \/ CallbackSubmit \/ RemoveHanded
  \/ CacheStep \/ ForwarderStep
  \/ CloseForwarder \/ CloseCache \/ SpoolCrash

SpoolSpec == SpoolInit /\ [][SpoolNext]_spoolVars

(* What DiskCache and Forwarder assume of the scheduler and of the request
   timeouts; the callback runs in retryLoop's goroutine. *)
SpoolFairness ==
  /\ WF_spoolVars(Writer /\ CacheAlone)
  /\ WF_spoolVars(Tick /\ CacheAlone)
  /\ WF_spoolVars(Wire /\ CacheAlone)
  /\ WF_spoolVars((LoopOnTick \/ LoopOnDone) /\ CacheAlone)
  /\ SF_spoolVars(List(FALSE) /\ CacheAlone)
  /\ WF_spoolVars(/\ ReadFail \/ Corrupt \/ Expire \/ Skip \/ PassEnd
                  /\ CacheAlone)
  /\ WF_spoolVars(Callback) /\ WF_spoolVars(CallbackSubmit) /\ WF_spoolVars(RemoveHanded)
  /\ \A g \in {Pipeline, Retrier, FlushLoop} :
       WF_spoolVars(F!Flush(g) /\ ForwarderAlone)
  /\ WF_spoolVars(F!Tick /\ ForwarderAlone)
  /\ WF_spoolVars((F!LoopOnTick \/ F!LoopOnDone) /\ ForwarderAlone)

SpoolFairSpec == SpoolSpec /\ SpoolFairness

-----------------------------------------------------------------------------
(* Properties *)

(* The samples submitted out of the entry of a Store call *)
SamplesOf(id) == {s \in 1..fAccepted : origin[s] = id}

(* An entry that was handed over is off the disk only when every sample of it
   has been through Submit: not while the callback is at work, however long
   the flush inside it takes. *)
HandedIsSubmitted ==
  \A e \in handed : ~OnDisk(e) /\ crashes = 0 =>
    e \in evicted \/ Cardinality(SamplesOf(e.id)) = e.samples

(* Short of a crash the backend stores the samples of a spooled batch once at
   most, although the file outlives the request that carries them. *)
SpooledStoredOnce ==
  crashes = 0 => \A e \in handed : Cardinality(SamplesOf(e.id) \cap fStored) <= e.samples

(* A spooled batch gets through the forwarder unless it is evicted, expires or
   the bridge is shut down or crashes: neither the late callbacks nor a flush
   inside a callback keeps the retry loop from getting there. *)
SpooledIsSettled ==
  \A i \in 1..MaxStores :
    (\E p \in Listing : disk[p].entry.id = i /\ disk[p].whole /\ disk[p].entry.samples > 0)
      ~> \/ SamplesOf(i) # {} /\ SamplesOf(i) \subseteq F!Settled
         \/ \E e \in evicted \cup expired : e.id = i
         \/ fDone \/ crashes > 0
=============================================================================
