------------------------------- MODULE Broker -------------------------------
(***************************************************************************)
(* The Kafka broker of internal/broker/broker.go: an accept loop, one      *)
(* goroutine per connection that reads a request, handles it and writes    *)
(* the answer, the topic set they share under b.mu, and the bounded        *)
(* channel b.msgCh from which main's pipeline receives the records.        *)
(*                                                                         *)
(* A request is one step from read to switch; the two critical sections of *)
(* handleMetadata and every send on the channel are steps of their own.    *)
(* The requests of a connection are numbered in the order in which the     *)
(* client sent them; the number stands for the correlation id.             *)
(***************************************************************************)
EXTENDS Integers, Sequences, FiniteSets, Functions

CONSTANTS
  Conns,            \* client connections
  Topics,           \* topic names a client may ask for
  Configured,       \* cfg.Topics
  AutoCreateTopics, \* cfg.AutoCreateTopics
  Capacity,         \* the channel's capacity, 4096
  Magics,           \* message formats the clients use: 0, 2
  BaseSequences,    \* base sequences in format 2, -1 when not idempotent
  MaxAlloc,         \* largest capacity of a slice that can be allocated
  MaxRecords,       \* bound: records in one produce request
  MaxRequests       \* bound: requests sent on each connection

ASSUME BrokerAssumption ==
  /\ IsFiniteSet(Conns) /\ IsFiniteSet(Topics) /\ Configured \subseteq Topics
  /\ AutoCreateTopics \in BOOLEAN
  /\ Capacity \in Nat \ {0}
  /\ Magics \subseteq {0, 2} /\ BaseSequences \subseteq Int
  /\ MaxAlloc \in Nat /\ MaxRecords \in Nat /\ MaxRequests \in [Conns -> Nat]

VARIABLES
  running,  \* the process runs: no goroutine has panicked
  done,     \* b.done is closed
  listener, \* the listener is open
  accepter, \* acceptLoop has not returned
  pc,       \* where each connection stands
  inbox,    \* requests sent and not yet read
  current,  \* the request a connection's handler works on
  todo,     \* records of it not yet offered to the channel
  replies,  \* answers written, in order
  topicSet, \* b.topicSet
  msgCh,    \* b.msgCh
  made,     \* history: records decoded on a connection
  received, \* history: records the pipeline has received, in order
  dropped   \* history: records dropped because the channel was full

lifeVars == <<running, done, listener, accepter>>
dataVars == <<topicSet, msgCh, made, received, dropped>>
vars == <<lifeVars, pc, inbox, current, todo, replies, dataVars>>

Batch == [magic: Magics, baseSequence: BaseSequences, records: 1..MaxRecords]

(* Metadata, Produce, any other api key or SASL request, which is answered
   with a fixed response, and a frame whose size or length is refused. *)
Metadata(ts)   == [api |-> "metadata", topics |-> ts]
Produce(b)     == [api |-> "produce", batch |-> b]
FixedResponse  == [api |-> "other"]
InvalidFrame   == [api |-> "invalid"]
Request ==
  {Metadata(ts) : ts \in SUBSET Topics} \cup {Produce(b) : b \in Batch}
    \cup {FixedResponse, InvalidFrame}
NoRequest == [api |-> "none"]
InHand == [n: Nat, req: Request \cup {NoRequest}, topics: SUBSET Topics]

(* The topics of a metadata answer; the others carry none. *)
Reply == [corr: Nat \ {0}, api: {"metadata", "produce", "other"},
          asked: SUBSET Topics, topics: SUBSET Topics]

Record == [conn: Conns, n: Nat \ {0}]

Serving == {"top", "read", "snapshot", "enqueue", "respond"}

TypeOK ==
  /\ running \in BOOLEAN /\ done \in BOOLEAN
  /\ listener \in BOOLEAN /\ accepter \in BOOLEAN
  /\ pc \in [Conns -> {"none", "backlog", "closed"} \cup Serving]
  /\ inbox \in [Conns -> Seq(Request)] /\ replies \in [Conns -> Seq(Reply)]
  /\ current \in [Conns -> InHand]
  /\ todo \in [Conns -> Nat]
  /\ Configured \subseteq topicSet /\ topicSet \subseteq Topics
  /\ msgCh \in Seq(Record) /\ Len(msgCh) <= Capacity
  /\ made \in [Conns -> Nat]
  /\ received \in Seq(Record) /\ dropped \subseteq Record

(* New and Start *)
Init ==
  /\ running = TRUE /\ done = FALSE /\ listener = TRUE /\ accepter = TRUE
  /\ pc = [c \in Conns |-> "none"]
  /\ inbox = [c \in Conns |-> <<>>]
  /\ current = [c \in Conns |-> [n |-> 0, req |-> NoRequest, topics |-> {}]]
  /\ todo = [c \in Conns |-> 0]
  /\ replies = [c \in Conns |-> <<>>]
  /\ topicSet = Configured
  /\ msgCh = <<>> /\ made = [c \in Conns |-> 0] /\ received = <<>> /\ dropped = {}

Goto(c, l) == pc' = [pc EXCEPT ![c] = l]

-----------------------------------------------------------------------------
(* The clients *)

Connect(c) ==
  /\ running
  /\ listener /\ pc[c] = "none"
  /\ Goto(c, "backlog")
  /\ UNCHANGED <<lifeVars, inbox, current, todo, replies, dataVars>>

(* A client does not wait for an answer before it sends the next request. *)
Send(c, req) ==
  /\ running
  /\ pc[c] \in Serving \cup {"backlog"}
  /\ current[c].n + Len(inbox[c]) < MaxRequests[c]
  /\ inbox' = [inbox EXCEPT ![c] = Append(@, req)]
  /\ UNCHANGED <<lifeVars, pc, current, todo, replies, dataVars>>

-----------------------------------------------------------------------------
(* acceptLoop *)

Accept(c) ==
  /\ running
  /\ accepter /\ listener /\ pc[c] = "backlog"
  /\ Goto(c, "top")
  /\ UNCHANGED <<lifeVars, inbox, current, todo, replies, dataVars>>

(* The listener is closed: Accept fails, and the loop finds done closed. *)
AcceptEnd ==
  /\ running
  /\ accepter /\ done /\ ~listener
  /\ accepter' = FALSE
  /\ UNCHANGED <<running, done, listener, pc, inbox, current, todo, replies, dataVars>>

(* Accept fails of itself, with the listener open: a reason to end only once
   done is closed, and before that the loop goes on. *)
AcceptError ==
  /\ running
  /\ accepter /\ done /\ listener
  /\ accepter' = FALSE
  /\ UNCHANGED <<running, done, listener, pc, inbox, current, todo, replies, dataVars>>

-----------------------------------------------------------------------------
(* handleConn and handleRequest *)

(* The select at the head of the loop *)
AtTop(c) ==
  /\ running
  /\ pc[c] = "top"
  /\ Goto(c, IF done THEN "closed" ELSE "read")
  /\ UNCHANGED <<lifeVars, inbox, current, todo, replies, dataVars>>

(* End of file, or the deadline of five minutes *)
ReadFail(c) ==
  /\ running
  /\ pc[c] = "read" /\ inbox[c] = <<>>
  /\ Goto(c, "closed")
  /\ UNCHANGED <<lifeVars, inbox, current, todo, replies, dataVars>>

(* Where the handler of a request with a fixed answer goes on *)
AfterOther_NoAnswer == "top"
AfterOther == "respond"

(* nRecords in format 2: the four bytes of the checksum are read as the fields
   that follow it, and the base sequence for the count.  make([]Message, 0,
   nRecords) cannot make room for a negative or too large number, *)
Panics(b) == b.magic = 2 /\ b.baseSequence \notin 0..MaxAlloc
(* and otherwise the bytes left give at least one record and up to nRecords. *)
Decoded(b) ==
  IF b.magic = 2 THEN {n \in 0..b.baseSequence : n = 0 => b.baseSequence = 0} ELSE {b.records}

(* b.mu.Lock ... Unlock of handleMetadata; an empty name, which creates nothing,
   is in no request here. *)
Created_Overwrite(ts) == ts
Created(ts) == topicSet \cup ts

(* One request is read and dispatched. *)
ReadRequest(c) ==
  LET req == Head(inbox[c]) IN
  /\ running
  /\ pc[c] = "read" /\ inbox[c] # <<>>
  /\ inbox' = [inbox EXCEPT ![c] = Tail(@)]
  /\ current' = [current EXCEPT ![c] = [n |-> @.n + 1, req |-> req, topics |-> {}]]
  /\ CASE req.api = "invalid" ->
            Goto(c, "closed") /\ UNCHANGED <<running, todo, topicSet>>
       [] req.api = "other" ->
            Goto(c, AfterOther) /\ UNCHANGED <<running, todo, topicSet>>
       [] req.api = "metadata" ->
            /\ topicSet' = IF AutoCreateTopics THEN Created(req.topics) ELSE topicSet
            /\ Goto(c, "snapshot") /\ UNCHANGED <<running, todo>>
       [] req.api = "produce" ->
            /\ running' = ~Panics(req.batch)
            /\ IF Panics(req.batch) THEN UNCHANGED todo
               ELSE \E n \in Decoded(req.batch) : todo' = [todo EXCEPT ![c] = n]
            /\ Goto(c, "enqueue") /\ UNCHANGED topicSet
  /\ UNCHANGED <<done, listener, accepter, replies, msgCh, made, received, dropped>>

(* b.mu.RLock ... RUnlock of handleMetadata *)
Snapshot(c) ==
  /\ running
  /\ pc[c] = "snapshot"
  /\ current' = [current EXCEPT ![c].topics = topicSet]
  /\ Goto(c, "respond")
  /\ UNCHANGED <<lifeVars, inbox, todo, replies, dataVars>>

(* The channel after a send *)
Sent_Front(m) == <<m>> \o msgCh
Sent(m) == Append(msgCh, m)

(* handleProduce's select: send, or drop when the channel is full. *)
Enqueue_Blocking(c) ==
  LET m == [conn |-> c, n |-> made[c] + 1] IN
  /\ running
  /\ pc[c] = "enqueue" /\ todo[c] > 0
  /\ Len(msgCh) < Capacity
  /\ made' = [made EXCEPT ![c] = @ + 1]
  /\ todo' = [todo EXCEPT ![c] = @ - 1]
  /\ msgCh' = Sent(m)
  /\ UNCHANGED <<lifeVars, pc, inbox, current, replies, topicSet, received, dropped>>

Enqueue(c) ==
  LET m == [conn |-> c, n |-> made[c] + 1] IN
  /\ running
  /\ pc[c] = "enqueue" /\ todo[c] > 0
  /\ made' = [made EXCEPT ![c] = @ + 1]
  /\ todo' = [todo EXCEPT ![c] = @ - 1]
  /\ IF Len(msgCh) < Capacity
     THEN msgCh' = Sent(m) /\ UNCHANGED dropped
     ELSE dropped' = dropped \cup {m} /\ UNCHANGED msgCh
  /\ UNCHANGED <<lifeVars, pc, inbox, current, replies, topicSet, received>>

EnqueueEnd(c) ==
  /\ running
  /\ pc[c] = "enqueue" /\ todo[c] = 0
  /\ Goto(c, "respond")
  /\ UNCHANGED <<lifeVars, inbox, current, todo, replies, dataVars>>

Asked(req) == IF req.api = "metadata" THEN req.topics ELSE {}

(* conn.Write succeeds *)
Respond(c) ==
  LET cur == current[c] IN
  /\ running
  /\ pc[c] = "respond"
  /\ replies' = [replies EXCEPT ![c] =
       Append(@, [corr |-> cur.n, api |-> cur.req.api,
                  asked |-> Asked(cur.req), topics |-> cur.topics])]
  /\ Goto(c, "top")
  /\ UNCHANGED <<lifeVars, inbox, current, todo, dataVars>>

(* conn.Write fails: the client is gone, or does not read until the deadline *)
WriteFail(c) ==
  /\ running
  /\ pc[c] = "respond"
  /\ Goto(c, "closed")
  /\ UNCHANGED <<lifeVars, inbox, current, todo, replies, dataVars>>

Handle(c) ==
  \/ AtTop(c) \/ ReadRequest(c) \/ Snapshot(c) \/ Enqueue(c) \/ EnqueueEnd(c)
  \/ Respond(c) \/ WriteFail(c)

-----------------------------------------------------------------------------
(* main: the pipeline's receive, and Close on a signal *)

Receive ==
  /\ running
  /\ msgCh # <<>>
  /\ received' = Append(received, Head(msgCh))
  /\ msgCh' = Tail(msgCh)
  /\ UNCHANGED <<lifeVars, pc, inbox, current, todo, replies, topicSet, made, dropped>>

CloseDone ==
  /\ running
  /\ ~done
  /\ done' = TRUE
  /\ UNCHANGED <<running, listener, accepter, pc, inbox, current, todo, replies, dataVars>>

(* Close that forgets the listener *)
CloseListener_LeftOpen ==
  /\ running
  /\ done /\ listener
  /\ UNCHANGED vars

(* Connections not yet accepted are reset with the listener. *)
CloseListener ==
  /\ running
  /\ done /\ listener
  /\ listener' = FALSE
  /\ pc' = [c \in Conns |-> IF pc[c] = "backlog" THEN "closed" ELSE pc[c]]
  /\ UNCHANGED <<running, done, accepter, inbox, current, todo, replies, dataVars>>

Next ==
  \/ \E c \in Conns : Connect(c) \/ Accept(c) \/ ReadFail(c) \/ Handle(c)
  \/ \E c \in Conns, req \in Request : Send(c, req)
  \/ AcceptEnd \/ AcceptError \/ Receive \/ CloseDone \/ CloseListener

Spec == Init /\ [][Next]_vars

(* Every handler runs and a read ends at its deadline; Close, once begun, goes
   on, and Accept on a closed listener fails.  Nothing obliges the clients to
   send, main to begin Close, the pipeline to receive, which may be stuck in a
   forwarder, or Accept to fail while the listener is open. *)
Fairness ==
  /\ \A c \in Conns : WF_vars(Handle(c)) /\ WF_vars(ReadFail(c))
  /\ WF_vars(AcceptEnd) /\ WF_vars(CloseListener)

FairSpec == Spec /\ Fairness

-----------------------------------------------------------------------------
(* Properties *)

(* A client matches answers to requests by their order: the i-th answer on a
   connection is the one to the i-th request, even when requests of several
   connections and of several kinds are in progress. *)
AnsweredInOrder ==
  \A c \in Conns : \A i \in DOMAIN replies[c] : replies[c][i].corr = i

(* With auto-creation every topic a client asked for is in the answer,
   although the topic set is read after b.mu was given up. *)
MetadataHasRequested ==
  AutoCreateTopics =>
    \A c \in Conns : \A i \in DOMAIN replies[c] : replies[c][i].asked \subseteq replies[c][i].topics

Offered(c) == {[conn |-> c, n |-> i] : i \in 1..made[c]}
Records == UNION {Offered(c) : c \in Conns}
Accepted == received \o msgCh

(* Whatever the interleaving of producers and pipeline, each record is
   received, queued or dropped exactly once, and the records of one
   connection reach the pipeline in the order in which they were produced. *)
RecordsInOrder ==
  /\ Range(Accepted) \cup dropped = Records
  /\ Range(Accepted) \cap dropped = {}
  /\ \A i, j \in DOMAIN Accepted :
       i < j /\ Accepted[i].conn = Accepted[j].conn => Accepted[i].n < Accepted[j].n

(* "a minimal Kafka broker sufficient for Dell OpenManage Enterprise to
   connect to as a producer": no well-formed request ends the process. *)
KeepsRunning == running

(* Every request that reached the broker is answered unless its connection
   ends, even when the pipeline never receives again: a full channel does not
   stop the producers. *)
RequestAnswered ==
  \A c \in Conns : \A i \in 1..MaxRequests[c] :
    (pc[c] \in Serving /\ i <= current[c].n + Len(inbox[c]))
      ~> (Len(replies[c]) >= i \/ pc[c] = "closed")

(* Once Close has begun, the accept loop, which only the closed listener wakes,
   and every connection's handler come to an end, idle and busy ones alike. *)
CloseEndsAll ==
  done ~> (~accepter /\ \A c \in Conns : pc[c] \notin Serving)
=============================================================================
