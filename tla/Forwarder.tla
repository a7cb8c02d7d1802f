------------------------------ MODULE Forwarder ------------------------------
(***************************************************************************)
(* The batching forwarder of internal/forwarder/forwarder.go.              *)
(* MetricsForwarder and LogForwarder share one control structure: Submit   *)
(* appends to f.pending under f.mu, and flush swaps the buffer out under   *)
(* f.mu, relabels it and makes one HTTP request outside the lock.  flush   *)
(* runs in whichever goroutine calls it: the submitters (the message       *)
(* pipeline and the cache's retry loop) once the buffer reaches BatchSize, *)
(* and flushLoop on a tick and, a last time, on Close.                     *)
(*                                                                         *)
(* A critical section is one step.  A sample (or log entry) is named by    *)
(* its place in the order in which Submit appended them.                   *)
(***************************************************************************)
EXTENDS Naturals, Sequences, FiniteSets, Functions

CONSTANTS
  Submitters,      \* goroutines that call Submit
  Loop,            \* the flushLoop goroutine
  BatchSize,       \* cfg.BatchSize
  MaxSubmit,       \* most samples in one Submit (1 for the log forwarder)
  EncodingMayFail, \* whether Marshal can fail (FALSE for the log forwarder)
  MaxSamples       \* bound: samples accepted in a behaviour

ASSUME ForwarderAssumption ==
  /\ IsFiniteSet(Submitters)
  /\ Loop \notin Submitters
  /\ BatchSize \in Nat \ {0}
  /\ MaxSubmit \in Nat \ {0}
  /\ EncodingMayFail \in BOOLEAN
  /\ MaxSamples \in Nat

VARIABLES
  accepted,   \* history: samples appended so far
  pending,    \* f.pending
  pc,         \* where each goroutine stands
  batch,      \* the samples a goroutine took out of f.pending and still holds
  tick,       \* flushTicker.C holds a tick
  done,       \* f.done is closed
  final,      \* flushLoop has received from f.done
  wire,       \* requests sent that the backend has not handled
  stored,     \* samples the backend has stored
  relabelled, \* samples a relabel rule dropped
  acked,      \* samples of requests answered 2xx
  failed      \* samples of batches given up on

vars == <<accepted, pending, pc, batch, tick, done, final, wire, stored,
          relabelled, acked, failed>>

Flushers == Submitters \cup {Loop}
Samples  == 1..MaxSamples
Settled  == relabelled \cup acked \cup failed

TypeOK ==
  /\ accepted \in 0..MaxSamples
  /\ pending \in Seq(Samples)
  /\ pc \in [Flushers -> {"idle", "flush", "encode", "send", "returned"}]
  /\ \A g \in Submitters : pc[g] # "returned"
  /\ batch \in [Flushers -> SUBSET Samples]
  /\ tick \in BOOLEAN /\ done \in BOOLEAN /\ final \in BOOLEAN
  /\ wire \subseteq SUBSET Samples
  /\ stored \subseteq Samples
  /\ relabelled \subseteq Samples /\ acked \subseteq Samples
  /\ failed \subseteq Samples

(* NewMetricsForwarder / NewLogForwarder: empty buffer, ticker armed, loop
   started. *)
Init ==
  /\ accepted = 0
  /\ pending = <<>>
  /\ pc = [g \in Flushers |-> "idle"]
  /\ batch = [g \in Flushers |-> {}]
  /\ tick = FALSE /\ done = FALSE /\ final = FALSE
  /\ wire = {} /\ stored = {}
  /\ relabelled = {} /\ acked = {} /\ failed = {}

-----------------------------------------------------------------------------
(* Submit *)

FlushDue_OffByOne(sz) == sz > BatchSize
FlushDue(sz) == sz >= BatchSize

Fresh(n) == [i \in 1..n |-> accepted + i]

(* Submit of n samples up to the unlock, with the length test on the length
   read under the lock; the flush that test asks for takes the lock again. *)
Submit(g, n) ==
  /\ pc[g] = "idle"
  /\ accepted + n <= MaxSamples
  /\ accepted' = accepted + n
  /\ pending' = pending \o Fresh(n)
  /\ pc' = [pc EXCEPT ![g] = IF FlushDue(Len(pending) + n) THEN "flush" ELSE "idle"]
  /\ UNCHANGED <<batch, tick, done, final, wire, stored, relabelled, acked, failed>>

-----------------------------------------------------------------------------
(* flush *)

AfterFlush_AnyCaller(g) == IF final THEN "returned" ELSE "idle"
AfterFlush(g) == IF g = Loop /\ final THEN "returned" ELSE "idle"

(* What the swap leaves in f.pending. *)
BufferAfterSwap_NotReset == pending
BufferAfterSwap == <<>>

(* The critical section of flush: return when there is nothing to send,
   otherwise swap the buffer out. *)
TakeBatch(g) ==
  /\ pc[g] = "flush"
  /\ batch' = [batch EXCEPT ![g] = Range(pending)]
  /\ pending' = BufferAfterSwap
  /\ pc' = [pc EXCEPT ![g] = IF pending = <<>> THEN AfterFlush(g) ELSE "encode"]
  /\ UNCHANGED <<accepted, tick, done, final, wire, stored, relabelled, acked, failed>>

(* Relabelling drops some of the batch, possibly all of it; what is left goes
   out in one request. *)
EncodeAndSend(g, dropped) ==
  LET kept == batch[g] \ dropped IN
  /\ pc[g] = "encode"
  /\ relabelled' = relabelled \cup dropped
  /\ batch' = [batch EXCEPT ![g] = kept]
  /\ wire' = IF kept = {} THEN wire ELSE wire \cup {kept}
  /\ pc' = [pc EXCEPT ![g] = IF kept = {} THEN AfterFlush(g) ELSE "send"]
  /\ UNCHANGED <<accepted, pending, tick, done, final, stored, acked, failed>>

(* A label without a name fails the encoding of the whole request. *)
EncodeFail(g, dropped) ==
  LET kept == batch[g] \ dropped IN
  /\ EncodingMayFail
  /\ pc[g] = "encode"
  /\ kept # {}
  /\ relabelled' = relabelled \cup dropped
  /\ failed' = failed \cup kept
  /\ batch' = [batch EXCEPT ![g] = {}]
  /\ pc' = [pc EXCEPT ![g] = AfterFlush(g)]
  /\ UNCHANGED <<accepted, pending, tick, done, final, wire, stored, acked>>

SendOk_AnyStatus(g) ==
  /\ pc[g] = "send"
  /\ acked' = acked \cup batch[g]
  /\ batch' = [batch EXCEPT ![g] = {}]
  /\ pc' = [pc EXCEPT ![g] = AfterFlush(g)]
  /\ UNCHANGED <<accepted, pending, tick, done, final, wire, stored, relabelled, failed>>

(* A 2xx answer: the backend has handled the request. *)
SendOk(g) ==
  /\ pc[g] = "send"
  /\ batch[g] \subseteq stored
  /\ acked' = acked \cup batch[g]
  /\ batch' = [batch EXCEPT ![g] = {}]
  /\ pc' = [pc EXCEPT ![g] = AfterFlush(g)]
  /\ UNCHANGED <<accepted, pending, tick, done, final, wire, stored, relabelled, failed>>

(* Any other end of send: no connection, another status, or the timeout,
   which can come before or after the backend handles the request. *)
SendFail_Requeue(g) ==
  /\ pc[g] = "send"
  /\ wire' = wire \cup {batch[g]}
  /\ UNCHANGED <<accepted, pending, pc, batch, tick, done, final, stored,
                 relabelled, acked, failed>>

SendFail(g) ==
  /\ pc[g] = "send"
  /\ failed' = failed \cup batch[g]
  /\ batch' = [batch EXCEPT ![g] = {}]
  /\ pc' = [pc EXCEPT ![g] = AfterFlush(g)]
  /\ UNCHANGED <<accepted, pending, tick, done, final, wire, stored, relabelled, acked>>

(* The backend handles a request: stores it, or refuses it; a request that
   cannot reach the backend is one it does not store. *)
Backend(r, accept) ==
  /\ r \in wire
  /\ wire' = wire \ {r}
  /\ stored' = IF accept THEN stored \cup r ELSE stored
  /\ UNCHANGED <<accepted, pending, pc, batch, tick, done, final, relabelled,
                 acked, failed>>

-----------------------------------------------------------------------------
(* flushLoop and Close *)

(* The ticker's channel holds one tick; Stop does not drain it. *)
Tick ==
  /\ ~done
  /\ ~tick
  /\ tick' = TRUE
  /\ UNCHANGED <<accepted, pending, pc, batch, done, final, wire, stored,
                 relabelled, acked, failed>>

LoopOnTick ==
  /\ pc[Loop] = "idle"
  /\ tick
  /\ tick' = FALSE
  /\ pc' = [pc EXCEPT ![Loop] = "flush"]
  /\ UNCHANGED <<accepted, pending, batch, done, final, wire, stored,
                 relabelled, acked, failed>>

LoopOnDone_NoFlush ==
  /\ pc[Loop] = "idle"
  /\ done
  /\ final' = TRUE
  /\ pc' = [pc EXCEPT ![Loop] = "returned"]
  /\ UNCHANGED <<accepted, pending, batch, tick, done, wire, stored,
                 relabelled, acked, failed>>

LoopOnDone ==
  /\ pc[Loop] = "idle"
  /\ done
  /\ final' = TRUE
  /\ pc' = [pc EXCEPT ![Loop] = "flush"]
  /\ UNCHANGED <<accepted, pending, batch, tick, done, wire, stored,
                 relabelled, acked, failed>>

Close ==
  /\ ~done
  /\ done' = TRUE
  /\ UNCHANGED <<accepted, pending, pc, batch, tick, final, wire, stored,
                 relabelled, acked, failed>>

-----------------------------------------------------------------------------
Flush(g) ==
  \/ TakeBatch(g)
  \/ \E dropped \in SUBSET batch[g] :
       EncodeAndSend(g, dropped) \/ EncodeFail(g, dropped)
  \/ SendOk(g)
  \/ SendFail(g)

Next ==
  \/ \E g \in Submitters, n \in 1..MaxSubmit : Submit(g, n)
  \/ \E g \in Flushers : Flush(g)
  \/ \E r \in wire, accept \in BOOLEAN : Backend(r, accept)
  \/ Tick \/ LoopOnTick \/ LoopOnDone
  \/ Close

Spec == Init /\ [][Next]_vars

(* The scheduler runs every goroutine that can run, the ticker fires, and a
   request ends: http.Client and the context both carry a timeout.  Nothing
   obliges a submitter to submit, main to close or the backend to answer. *)
Fairness ==
  /\ \A g \in Flushers : WF_vars(Flush(g))
  /\ WF_vars(Tick)
  /\ WF_vars(LoopOnTick \/ LoopOnDone)

FairSpec == Spec /\ Fairness

-----------------------------------------------------------------------------
(* Properties *)

Held == UNION {batch[g] : g \in Flushers}

(* Every sample Submit has accepted is in exactly one place: the buffer, the
   hands of one goroutine inside flush, or one of the three ways flush ends
   for it.  Two concurrent flushes never share or lose a sample although each
   swaps the buffer out and works on it unlocked. *)
ExactlyOnePlace ==
  /\ Range(pending) \cup Held \cup Settled = 1..accepted
  /\ Range(pending) \cap (Held \cup Settled) = {}
  /\ Held \cap Settled = {}
  /\ \A g, h \in Flushers : g # h => batch[g] \cap batch[h] = {}
  /\ relabelled \cap (acked \cup failed) = {} /\ acked \cap failed = {}

(* The buffer keeps submission order, without duplicates, and whatever has
   left it was submitted before whatever is still in it. *)
BufferedInOrder ==
  /\ \A i, j \in DOMAIN pending : i < j => pending[i] < pending[j]
  /\ \A n \in Held \cup Settled, i \in DOMAIN pending : n < pending[i]

(* The submitters whose length test succeeded and that have not flushed yet. *)
Claimants == {g \in Submitters : pc[g] = "flush"}

(* Submit tests the length it read under the lock and flushes after giving
   the lock up.  Even so the buffer reaches BatchSize only while a submitter
   is on its way to flush it, and exceeds it by at most one submission for
   each such submitter. *)
BufferBounded == Len(pending) < BatchSize + MaxSubmit * Cardinality(Claimants)

(* The backend is never asked to store a sample twice, even when a request
   that timed out is handled late: flush never sends a batch again. *)
AtMostOnce ==
  /\ \A r \in wire : r \cap stored = {}
  /\ \A r, q \in wire : r # q => r \cap q = {}

(* The samples that have left neither by a request nor by being discarded:
   the buffer, and the batches that flush has not encoded yet. *)
Unsent == Range(pending) \cup UNION {batch[g] : g \in {h \in Flushers : pc[h] = "encode"}}

Promise == INSTANCE Delivery WITH
  kept <- Unsent, requests <- wire, confirmed <- acked

(* The forwarder keeps the promise of Delivery: although goroutines swap one
   buffer out and send from it unlocked, a sample goes out in at most one
   request, at most one request of it is handled, and only stored samples are
   reported as sent. *)
ImplementsDelivery == Promise!Spec

(* Whatever is in the buffer before flushLoop sees Close gets through flush:
   a partly filled buffer is flushed by the ticker, and the flush on done
   takes what is left. *)
BufferedIsSettled ==
  \A n \in Samples : (n \in Range(pending) /\ ~final) ~> (n \in Settled)
=============================================================================
