---------------------------- MODULE BrokerProofs ----------------------------
(***************************************************************************)
(* Proofs about Broker for any number of connections and topics, any       *)
(* channel capacity and any number of requests and records.                *)
(***************************************************************************)
EXTENDS Broker, SequenceTheorems, TLAPS

(* The kinds of requests, and what each carries *)
LEMMA RequestKinds ==
  ASSUME NEW req \in Request
  PROVE  /\ req.api \in {"metadata", "produce", "other", "invalid"}
         /\ req.api = "metadata" => req.topics \in SUBSET Topics
         /\ req.api = "produce" => req.batch \in Batch
  BY DEF Request, Metadata, Produce, FixedResponse, InvalidFrame

(* However many records a request is taken for, it is a number of records. *)
LEMMA DecodedCounts ==
  ASSUME NEW b \in Batch
  PROVE  Decoded(b) \subseteq Nat
  <1>1. b.baseSequence \in Int /\ b.records \in 1..MaxRecords
    BY BrokerAssumption DEF Batch
  <1> QED BY <1>1, BrokerAssumption DEF Decoded

(* Where a handler works on a request it has not answered yet. *)
Working == {"snapshot", "enqueue", "respond"}

(* The request being worked on is the first without an answer; a handler that
   is not working on one has answered all it has read, unless its connection
   has ended. *)
AnsweredUpToHand ==
  \A c \in Conns :
    /\ pc[c] \in Working => /\ current[c].req.api \in {"metadata", "produce", "other"}
                            /\ Len(replies[c]) = current[c].n - 1
    /\ pc[c] \notin Working \cup {"closed"} => Len(replies[c]) = current[c].n

(* The conjunction is inductive: TypeOK alone does not exclude a handler about
   to answer a request it does not have. *)
HandInv == TypeOK /\ AnsweredUpToHand /\ AnsweredInOrder

(* An answer carries the number of the request it answers. *)
LEMMA RespondStep ==
  ASSUME HandInv, NEW c \in Conns, Respond(c)
  PROVE  HandInv'
  <1> USE BrokerAssumption
  <1> DEFINE cur == current[c]
             r   == [corr |-> cur.n, api |-> cur.req.api,
                     asked |-> Asked(cur.req), topics |-> cur.topics]
  <1>1. /\ pc[c] = "respond" /\ replies' = [replies EXCEPT ![c] = Append(@, r)]
        /\ pc' = [pc EXCEPT ![c] = "top"]
        /\ UNCHANGED <<lifeVars, inbox, current, todo, dataVars>>
    BY DEF Respond, Goto
  <1>2. /\ cur \in InHand /\ cur.n \in Nat /\ cur.topics \in SUBSET Topics
        /\ cur.req \in Request \cup {NoRequest}
        /\ replies[c] \in Seq(Reply)
    BY DEF HandInv, TypeOK, InHand
  <1>3. /\ cur.req.api \in {"metadata", "produce", "other"}
        /\ Len(replies[c]) = cur.n - 1
    BY <1>1 DEF HandInv, AnsweredUpToHand, Working
  <1>4. Asked(cur.req) \in SUBSET Topics
    <2>1. cur.req \in Request
      BY <1>2, <1>3 DEF NoRequest
    <2> QED BY <2>1, RequestKinds DEF Asked
  <1>5. cur.n \in Nat \ {0}
    BY <1>2, <1>3, LenProperties
  <1>6. r \in Reply
    BY <1>2, <1>3, <1>4, <1>5 DEF Reply
  <1>7. /\ Append(replies[c], r) \in Seq(Reply)
        /\ Len(Append(replies[c], r)) = cur.n
        /\ \A i \in 1..(cur.n - 1) : Append(replies[c], r)[i] = replies[c][i]
        /\ Append(replies[c], r)[cur.n] = r
    BY <1>2, <1>3, <1>5, <1>6, AppendProperties
  <1>8. replies' \in [Conns -> Seq(Reply)]
    BY <1>1, <1>7 DEF HandInv, TypeOK
  <1>9. TypeOK'
    BY <1>1, <1>8 DEF HandInv, TypeOK, lifeVars, dataVars, Serving
  <1>10. AnsweredUpToHand'
    BY <1>1, <1>7 DEF HandInv, TypeOK, AnsweredUpToHand, Working
  <1>11. AnsweredInOrder'
    <2> SUFFICES ASSUME NEW d \in Conns, NEW i \in DOMAIN replies'[d]
                 PROVE  replies'[d][i].corr = i
      BY DEF AnsweredInOrder
    <2>1. CASE d # c
      BY <1>1, <2>1 DEF HandInv, TypeOK, AnsweredInOrder
    <2>2. CASE d = c
      <3>1. replies'[c] = Append(replies[c], r)
        BY <1>1 DEF HandInv, TypeOK
      <3>2. i \in 1..cur.n /\ DOMAIN replies[c] = 1..(cur.n - 1)
        BY <1>2, <1>3, <1>7, <2>2, <3>1, LenProperties
      <3>3. CASE i = cur.n
        BY <1>7, <2>2, <3>1, <3>3
      <3>4. CASE i # cur.n
        BY <1>2, <1>7, <2>2, <3>1, <3>2, <3>4 DEF HandInv, AnsweredInOrder
      <3> QED BY <3>3, <3>4
    <2> QED BY <2>1, <2>2
  <1> QED BY <1>9, <1>10, <1>11 DEF HandInv

(* What reading a request leaves, whichever the request is *)
LEMMA ReadRequestEffect ==
  ASSUME TypeOK, NEW c \in Conns, ReadRequest(c)
  PROVE  /\ pc[c] = "read" /\ inbox[c] # <<>> /\ Head(inbox[c]) \in Request
         /\ inbox' = [inbox EXCEPT ![c] = Tail(@)]
         /\ current' = [current EXCEPT ![c] =
                          [n |-> @.n + 1, req |-> Head(inbox[c]), topics |-> {}]]
         /\ inbox' \in [Conns -> Seq(Request)] /\ current' \in [Conns -> InHand]
         /\ running' \in BOOLEAN
         /\ todo' \in [Conns -> Nat]
         /\ topicSet \subseteq topicSet' /\ topicSet' \subseteq Topics
         /\ UNCHANGED <<done, listener, accepter, replies, msgCh, made, received, dropped>>
         /\ \/ /\ pc' = [pc EXCEPT ![c] = "closed"]
            \/ /\ pc' = [pc EXCEPT ![c] = "respond"] /\ Head(inbox[c]).api = "other"
            \/ /\ pc' = [pc EXCEPT ![c] = "snapshot"] /\ Head(inbox[c]).api = "metadata"
               /\ AutoCreateTopics => Head(inbox[c]).topics \subseteq topicSet'
            \/ /\ pc' = [pc EXCEPT ![c] = "enqueue"] /\ Head(inbox[c]).api = "produce"
  <1> USE BrokerAssumption
  <1> DEFINE req == Head(inbox[c])
  <1>1. /\ pc[c] = "read" /\ inbox[c] # <<>>
        /\ inbox' = [inbox EXCEPT ![c] = Tail(@)]
        /\ current' = [current EXCEPT ![c] = [n |-> @.n + 1, req |-> req, topics |-> {}]]
        /\ UNCHANGED <<done, listener, accepter, replies, msgCh, made, received, dropped>>
    BY DEF ReadRequest
  <1>2. req \in Request /\ Tail(inbox[c]) \in Seq(Request)
    BY <1>1, HeadTailProperties DEF TypeOK
  <1>3. inbox' \in [Conns -> Seq(Request)]
    BY <1>1, <1>2 DEF TypeOK
  <1>4. current' \in [Conns -> InHand]
    <2>1. [n |-> current[c].n + 1, req |-> req, topics |-> {}] \in InHand
      BY <1>2 DEF TypeOK, InHand
    <2> QED BY <1>1, <2>1 DEF TypeOK
  <1>5. req.api \in {"metadata", "produce", "other", "invalid"}
    BY <1>2, RequestKinds
  <1>6. CASE req.api = "invalid"
    <2>1. pc' = [pc EXCEPT ![c] = "closed"] /\ UNCHANGED <<running, todo, topicSet>>
      BY <1>6 DEF ReadRequest, Goto
    <2> QED BY <1>1, <1>2, <1>3, <1>4, <2>1 DEF TypeOK
  <1>7. CASE req.api = "other"
    <2>1. pc' = [pc EXCEPT ![c] = "respond"] /\ UNCHANGED <<running, todo, topicSet>>
      BY <1>7 DEF ReadRequest, Goto, AfterOther
    <2> QED BY <1>1, <1>2, <1>3, <1>4, <1>7, <2>1 DEF TypeOK
  <1>8. CASE req.api = "metadata"
    <2>1. /\ pc' = [pc EXCEPT ![c] = "snapshot"] /\ UNCHANGED <<running, todo>>
          /\ topicSet' = IF AutoCreateTopics THEN topicSet \cup req.topics ELSE topicSet
      BY <1>8 DEF ReadRequest, Goto, Created
    <2>2. req.topics \subseteq Topics
      BY <1>2, <1>8, RequestKinds
    <2> QED BY <1>1, <1>2, <1>3, <1>4, <1>8, <2>1, <2>2 DEF TypeOK
  <1>9. CASE req.api = "produce"
    <2>1. /\ pc' = [pc EXCEPT ![c] = "enqueue"] /\ UNCHANGED topicSet
          /\ running' = ~Panics(req.batch)
          /\ \/ todo' = todo
             \/ \E n \in Decoded(req.batch) : todo' = [todo EXCEPT ![c] = n]
      BY <1>9 DEF ReadRequest, Goto
    <2>2. req.batch \in Batch
      BY <1>2, <1>9, RequestKinds
    <2>3. todo' \in [Conns -> Nat]
      BY <2>1, <2>2, DecodedCounts DEF TypeOK
    <2>4. running' \in BOOLEAN
      BY <2>1 DEF Panics
    <2> QED BY <1>1, <1>2, <1>3, <1>4, <1>9, <2>1, <2>3, <2>4 DEF TypeOK
  <1> QED BY <1>5, <1>6, <1>7, <1>8, <1>9

(* Taking a request in hand keeps the order of the answers. *)
LEMMA ReadRequestStep ==
  ASSUME HandInv, NEW c \in Conns, ReadRequest(c)
  PROVE  HandInv'
  <1> USE BrokerAssumption
  <1>1. TypeOK
    BY DEF HandInv
  <1>2. TypeOK'
    BY <1>1, ReadRequestEffect DEF TypeOK, Serving
  <1>3. AnsweredUpToHand'
    <2>1. /\ Len(replies[c]) = current[c].n /\ current[c].n \in Nat
      BY <1>1, ReadRequestEffect DEF HandInv, AnsweredUpToHand, TypeOK, InHand, Working
    <2>2. /\ current'[c].n = current[c].n + 1 /\ current'[c].req = Head(inbox[c])
          /\ replies' = replies
      BY <1>1, ReadRequestEffect DEF TypeOK
    <2>3. /\ pc'[c] \in Working \cup {"closed"}
          /\ pc'[c] \in Working => Head(inbox[c]).api \in {"metadata", "produce", "other"}
      BY <1>1, ReadRequestEffect DEF TypeOK, Working
    <2>4. \A d \in Conns : d # c => pc'[d] = pc[d] /\ current'[d] = current[d]
      <3>1. \E l : pc' = [pc EXCEPT ![c] = l]
        BY <1>1, ReadRequestEffect
      <3>2. \E h : current' = [current EXCEPT ![c] = h]
        BY <1>1, ReadRequestEffect
      <3> QED BY <3>1, <3>2 DEF HandInv, TypeOK
    <2> QED BY <2>1, <2>2, <2>3, <2>4 DEF HandInv, AnsweredUpToHand
  <1>4. AnsweredInOrder'
    BY <1>1, ReadRequestEffect DEF HandInv, AnsweredInOrder
  <1> QED BY <1>2, <1>3, <1>4 DEF HandInv

(* The steps that read no request and write no answer *)
LEMMA OtherHandStep ==
  ASSUME HandInv,
         \/ \E c \in Conns :
              \/ Connect(c) \/ Accept(c) \/ ReadFail(c) \/ AtTop(c) \/ Snapshot(c)
              \/ Enqueue(c) \/ EnqueueEnd(c) \/ WriteFail(c)
              \/ \E req \in Request : Send(c, req)
         \/ AcceptEnd \/ AcceptError \/ Receive \/ CloseDone \/ CloseListener
         \/ UNCHANGED vars
  PROVE  HandInv'
  <1> USE BrokerAssumption
  <1>1. ASSUME NEW c \in Conns,
               Connect(c) \/ Accept(c) \/ ReadFail(c) \/ AtTop(c)
                 \/ EnqueueEnd(c) \/ WriteFail(c)
        PROVE  HandInv'
    <2>1. UNCHANGED <<lifeVars, inbox, current, todo, replies, dataVars>>
      BY <1>1 DEF Connect, Accept, ReadFail, AtTop, EnqueueEnd, WriteFail
    <2>2. PICK l \in {"backlog", "top", "closed", "read", "respond"} :
            /\ pc' = [pc EXCEPT ![c] = l]
            /\ \/ pc[c] \in Working /\ l = "respond"
               \/ l = "closed"
               \/ pc[c] \notin Working \cup {"closed"} /\ l \notin Working
      BY <1>1 DEF Connect, Accept, ReadFail, AtTop, EnqueueEnd, WriteFail, Goto, Working
    <2>3. TypeOK'
      BY <2>1, <2>2 DEF HandInv, TypeOK, lifeVars, dataVars, Serving
    <2>4. AnsweredUpToHand'
      BY <2>1, <2>2 DEF HandInv, TypeOK, AnsweredUpToHand, Working
    <2>5. AnsweredInOrder'
      BY <2>1 DEF HandInv, AnsweredInOrder
    <2> QED BY <2>3, <2>4, <2>5 DEF HandInv
  <1>2. ASSUME NEW c \in Conns, Snapshot(c) PROVE HandInv'
    <2>1. /\ pc[c] = "snapshot" /\ pc' = [pc EXCEPT ![c] = "respond"]
          /\ current' = [current EXCEPT ![c].topics = topicSet]
          /\ UNCHANGED <<lifeVars, inbox, todo, replies, dataVars>>
      BY <1>2 DEF Snapshot, Goto
    <2>2. current' \in [Conns -> InHand]
      BY <2>1 DEF HandInv, TypeOK, InHand
    <2>3. TypeOK'
      BY <2>1, <2>2 DEF HandInv, TypeOK, lifeVars, dataVars, Serving
    <2>4. \A d \in Conns : current'[d].n = current[d].n /\ current'[d].req = current[d].req
      BY <2>1 DEF HandInv, TypeOK, InHand
    <2>5. AnsweredUpToHand'
      BY <2>1, <2>4 DEF HandInv, TypeOK, AnsweredUpToHand, Working
    <2>6. AnsweredInOrder'
      BY <2>1 DEF HandInv, AnsweredInOrder
    <2> QED BY <2>3, <2>5, <2>6 DEF HandInv
  <1>3. ASSUME NEW c \in Conns, Enqueue(c) PROVE HandInv'
    <2>1. /\ UNCHANGED <<lifeVars, pc, inbox, current, replies, topicSet, received>>
          /\ todo[c] > 0 /\ made' = [made EXCEPT ![c] = @ + 1]
          /\ todo' = [todo EXCEPT ![c] = @ - 1]
      BY <1>3 DEF Enqueue
    <2>2. [conn |-> c, n |-> made[c] + 1] \in Record
      BY DEF HandInv, TypeOK, Record
    <2>3. msgCh' \in Seq(Record) /\ Len(msgCh') <= Capacity /\ dropped' \subseteq Record
      <3>1. CASE Len(msgCh) < Capacity
        <4>1. msgCh' = Append(msgCh, [conn |-> c, n |-> made[c] + 1]) /\ dropped' = dropped
          BY <1>3, <3>1 DEF Enqueue, Sent
        <4> QED BY <2>2, <3>1, <4>1, AppendProperties, LenProperties DEF HandInv, TypeOK
      <3>2. CASE ~(Len(msgCh) < Capacity)
        BY <1>3, <2>2, <3>2 DEF Enqueue, HandInv, TypeOK
      <3> QED BY <3>1, <3>2
    <2>4. made' \in [Conns -> Nat] /\ todo' \in [Conns -> Nat]
      <3>1. made[c] + 1 \in Nat /\ todo[c] - 1 \in Nat
        BY <2>1 DEF HandInv, TypeOK
      <3> QED BY <2>1, <3>1 DEF HandInv, TypeOK
    <2>5. TypeOK'
      BY <2>1, <2>3, <2>4 DEF HandInv, TypeOK, lifeVars
    <2> QED BY <2>1, <2>5 DEF HandInv, AnsweredUpToHand, AnsweredInOrder
  <1>4. ASSUME NEW c \in Conns, NEW req \in Request, Send(c, req) PROVE HandInv'
    <2>1. /\ inbox' = [inbox EXCEPT ![c] = Append(@, req)]
          /\ UNCHANGED <<lifeVars, pc, current, todo, replies, dataVars>>
      BY <1>4 DEF Send
    <2>2. inbox' \in [Conns -> Seq(Request)]
      BY <2>1, AppendProperties DEF HandInv, TypeOK
    <2>3. TypeOK'
      BY <2>1, <2>2 DEF HandInv, TypeOK, lifeVars, dataVars
    <2> QED BY <2>1, <2>3 DEF HandInv, AnsweredUpToHand, AnsweredInOrder
  <1>5. CASE Receive
    <2>1. /\ msgCh # <<>> /\ received' = Append(received, Head(msgCh))
          /\ msgCh' = Tail(msgCh)
          /\ UNCHANGED <<lifeVars, pc, inbox, current, todo, replies, topicSet, made, dropped>>
      BY <1>5 DEF Receive
    <2>2. /\ msgCh' \in Seq(Record) /\ Len(msgCh') = Len(msgCh) - 1
          /\ Head(msgCh) \in Record
      BY <2>1, HeadTailProperties DEF HandInv, TypeOK
    <2>3. received' \in Seq(Record) /\ Len(msgCh') <= Capacity
      BY <2>1, <2>2, AppendProperties, LenProperties DEF HandInv, TypeOK
    <2>4. TypeOK'
      BY <2>1, <2>2, <2>3 DEF HandInv, TypeOK, lifeVars
    <2> QED BY <2>1, <2>4 DEF HandInv, AnsweredUpToHand, AnsweredInOrder
  <1>6. CASE CloseListener
    <2>1. /\ listener' = FALSE
          /\ pc' = [c \in Conns |-> IF pc[c] = "backlog" THEN "closed" ELSE pc[c]]
          /\ UNCHANGED <<running, done, accepter, inbox, current, todo, replies, dataVars>>
      BY <1>6 DEF CloseListener
    <2>2. TypeOK'
      BY <2>1 DEF HandInv, TypeOK, dataVars
    <2> QED BY <2>1, <2>2 DEF HandInv, AnsweredUpToHand, AnsweredInOrder, Working
  <1>7. CASE AcceptEnd \/ AcceptError \/ CloseDone
    <2>1. /\ UNCHANGED <<running, listener, pc, inbox, current, todo, replies, dataVars>>
          /\ accepter' \in BOOLEAN /\ done' \in BOOLEAN
      BY <1>7 DEF AcceptEnd, AcceptError, CloseDone, HandInv, TypeOK
    <2>2. TypeOK'
      BY <2>1 DEF HandInv, TypeOK, dataVars
    <2> QED BY <2>1, <2>2 DEF HandInv, AnsweredUpToHand, AnsweredInOrder
  <1>8. CASE UNCHANGED vars
    BY <1>8 DEF vars, lifeVars, dataVars, HandInv, TypeOK, AnsweredUpToHand, AnsweredInOrder
  <1> QED BY <1>1, <1>2, <1>3, <1>4, <1>5, <1>6, <1>7, <1>8

(* No interleaving of handlers, clients, the pipeline and Close gives a handler
   two requests or lets an answer overtake another. *)
LEMMA HandInvariant == Spec => []HandInv
  <1> USE BrokerAssumption
  <1>1. Init => HandInv
    <2> SUFFICES ASSUME Init PROVE HandInv
      OBVIOUS
    <2>1. current \in [Conns -> InHand]
      BY DEF Init, InHand
    <2>2. inbox \in [Conns -> Seq(Request)] /\ replies \in [Conns -> Seq(Reply)]
      BY DEF Init
    <2>3. TypeOK
      <3>1. todo \in [Conns -> Nat] /\ made \in [Conns -> Nat]
        BY DEF Init
      <3>2. msgCh \in Seq(Record) /\ Len(msgCh) <= Capacity /\ received \in Seq(Record)
        BY DEF Init
      <3> QED BY <2>1, <2>2, <3>1, <3>2, Zenon DEF Init, TypeOK
    <2>4. AnsweredUpToHand /\ AnsweredInOrder
      BY DEF Init, AnsweredUpToHand, AnsweredInOrder, Working
    <2> QED BY <2>3, <2>4 DEF HandInv
  <1>2. HandInv /\ [Next]_vars => HandInv'
    BY RespondStep, ReadRequestStep, OtherHandStep DEF Next, Handle
  <1> QED BY <1>1, <1>2, PTL DEF Spec

(* The broker's state has its types: the channel never holds more than its
   capacity, and the topic set only what was configured or asked for. *)
THEOREM TypeCorrect == Spec => []TypeOK
  BY HandInvariant, PTL DEF HandInv

(* The i-th answer on a connection is the one to its i-th request, for any
   number of connections and requests. *)
THEOREM AnswersKeepOrder == Spec => []AnsweredInOrder
  BY HandInvariant, PTL DEF HandInv

-----------------------------------------------------------------------------
(* What a handler was asked for is in the shared topic set until it takes its
   snapshot, and in the snapshot from then on. *)
AskedIsKept ==
  AutoCreateTopics =>
    \A c \in Conns :
      /\ pc[c] = "snapshot" => Asked(current[c].req) \subseteq topicSet
      /\ pc[c] \in {"enqueue", "respond"} => Asked(current[c].req) \subseteq current[c].topics

(* The topics of a request survive every step of the other handlers: between
   the two critical sections of handleMetadata the set only grows. *)
LEMMA AskedStep ==
  ASSUME TypeOK, AskedIsKept, [Next]_vars
  PROVE  AskedIsKept'
  <1> SUFFICES ASSUME AutoCreateTopics PROVE AskedIsKept'
    BY DEF AskedIsKept
  <1>1. ASSUME NEW c \in Conns, ReadRequest(c) PROVE AskedIsKept'
    <2> DEFINE req == Head(inbox[c])
    <2>1. /\ current' = [current EXCEPT ![c] =
                           [n |-> current[c].n + 1, req |-> req, topics |-> {}]]
          /\ topicSet \subseteq topicSet'
      BY <1>1, ReadRequestEffect
    <2>2. PICK l \in {"closed", "respond", "snapshot", "enqueue"} :
            /\ pc' = [pc EXCEPT ![c] = l]
            /\ l = "snapshot" => Asked(req) \subseteq topicSet'
            /\ l \in {"enqueue", "respond"} => Asked(req) = {}
      BY <1>1, ReadRequestEffect, Zenon DEF Asked
    <2>3. current'[c].req = req /\ pc'[c] = l
      BY <2>1, <2>2 DEF TypeOK
    <2>4. \A d \in Conns : d # c => pc'[d] = pc[d] /\ current'[d] = current[d]
      BY <2>1, <2>2 DEF TypeOK
    <2> QED BY <2>1, <2>2, <2>3, <2>4 DEF AskedIsKept
  <1>2. ASSUME NEW c \in Conns, Snapshot(c) PROVE AskedIsKept'
    <2>1. /\ pc[c] = "snapshot" /\ pc' = [pc EXCEPT ![c] = "respond"]
          /\ current' = [current EXCEPT ![c].topics = topicSet]
          /\ topicSet' = topicSet
      BY <1>2 DEF Snapshot, Goto, dataVars
    <2>2. /\ current'[c].req = current[c].req /\ current'[c].topics = topicSet
          /\ pc'[c] = "respond"
      BY <2>1 DEF TypeOK, InHand
    <2>3. \A d \in Conns : d # c => pc'[d] = pc[d] /\ current'[d] = current[d]
      BY <2>1 DEF TypeOK
    <2> QED BY <2>1, <2>2, <2>3 DEF AskedIsKept
  <1>3. ASSUME NEW c \in Conns,
               Connect(c) \/ Accept(c) \/ ReadFail(c) \/ AtTop(c)
                 \/ EnqueueEnd(c) \/ Respond(c) \/ WriteFail(c)
        PROVE  AskedIsKept'
    <2>1. UNCHANGED <<current, topicSet>>
      BY <1>3 DEF Connect, Accept, ReadFail, AtTop, EnqueueEnd, Respond, WriteFail, dataVars
    <2>2. PICK l \in {"backlog", "top", "closed", "read", "respond"} :
            /\ pc' = [pc EXCEPT ![c] = l]
            /\ l = "respond" => pc[c] = "enqueue"
      BY <1>3 DEF Connect, Accept, ReadFail, AtTop, EnqueueEnd, Respond, WriteFail, Goto
    <2> QED BY <2>1, <2>2 DEF AskedIsKept, TypeOK
  <1>4. CASE CloseListener
    BY <1>4 DEF CloseListener, AskedIsKept, dataVars
  <1>5. CASE \/ \E c \in Conns : Enqueue(c) \/ \E req \in Request : Send(c, req)
             \/ AcceptEnd \/ AcceptError \/ Receive \/ CloseDone \/ UNCHANGED vars
    <2>1. UNCHANGED <<pc, current, topicSet>>
      BY <1>5 DEF Enqueue, Send, AcceptEnd, AcceptError, Receive, CloseDone, vars, dataVars
    <2> QED BY <2>1 DEF AskedIsKept
  <1> QED BY <1>1, <1>2, <1>3, <1>4, <1>5 DEF Next, Handle

(* Only Respond writes an answer. *)
LEMMA RepliesUnchanged ==
  ASSUME TypeOK, [Next]_vars, ~ \E c \in Conns : Respond(c)
  PROVE  replies' = replies
  BY DEF Next, Handle, Connect, Accept, ReadFail, AtTop, ReadRequest, Snapshot, Enqueue,
         EnqueueEnd, WriteFail, Send, AcceptEnd, AcceptError, Receive, CloseDone, CloseListener, vars

(* With auto-creation every topic a client asked for is in the answer, although
   other handlers change the set between the creation and the snapshot. *)
THEOREM MetadataComplete == Spec => []MetadataHasRequested
  <1>1. Init => AskedIsKept /\ MetadataHasRequested
    BY DEF Init, AskedIsKept, MetadataHasRequested
  <1>2. HandInv /\ AskedIsKept /\ MetadataHasRequested /\ [Next]_vars
          => AskedIsKept' /\ MetadataHasRequested'
    <2> SUFFICES ASSUME HandInv, AskedIsKept, MetadataHasRequested, [Next]_vars
                 PROVE  AskedIsKept' /\ MetadataHasRequested'
      OBVIOUS
    <2>1. TypeOK /\ AskedIsKept'
      BY AskedStep DEF HandInv
    <2>2. ASSUME AutoCreateTopics, NEW c \in Conns, Respond(c)
          PROVE  MetadataHasRequested'
      <3> DEFINE cur == current[c]
                 r   == [corr |-> cur.n, api |-> cur.req.api,
                         asked |-> Asked(cur.req), topics |-> cur.topics]
      <3>1. replies' = [replies EXCEPT ![c] = Append(replies[c], r)] /\ pc[c] = "respond"
        BY <2>2 DEF Respond
      <3>2. r.asked \subseteq r.topics
        BY <2>2, <3>1 DEF AskedIsKept
      <3> HIDE DEF r
      <3>3. ASSUME NEW d \in Conns, NEW i \in DOMAIN replies'[d]
            PROVE  replies'[d][i].asked \subseteq replies'[d][i].topics
        <4>1. CASE d # c
          BY <2>1, <2>2, <3>1, <4>1 DEF TypeOK, MetadataHasRequested
        <4>2. CASE d = c
          <5>1. replies'[c] = Append(replies[c], r) /\ replies[c] \in Seq(Reply)
            BY <2>1, <3>1 DEF TypeOK
          <5>2. i \in 1..(Len(replies[c]) + 1) /\ DOMAIN replies[c] = 1..Len(replies[c])
            BY <4>2, <5>1, LenProperties
          <5>3. replies'[c][i] = IF i = Len(replies[c]) + 1 THEN r ELSE replies[c][i]
            BY <5>1, <5>2
          <5>4. i # Len(replies[c]) + 1 => i \in DOMAIN replies[c]
            BY <5>1, <5>2, LenProperties
          <5> QED BY <2>2, <3>2, <4>2, <5>3, <5>4 DEF MetadataHasRequested
        <4> QED BY <4>1, <4>2
      <3> QED BY <3>3 DEF MetadataHasRequested
    <2>3. CASE ~ \E c \in Conns : Respond(c)
      BY <2>1, <2>3, RepliesUnchanged DEF MetadataHasRequested
    <2>4. CASE ~AutoCreateTopics
      BY <2>1, <2>4 DEF MetadataHasRequested
    <2> QED BY <2>1, <2>2, <2>3, <2>4
  <1> QED BY <1>1, <1>2, HandInvariant, PTL DEF Spec

-----------------------------------------------------------------------------
(* Steps other than a send and a receive leave the records alone. *)
LEMMA RecordsUnchanged ==
  ASSUME TypeOK, [Next]_vars, ~Receive, ~ \E c \in Conns : Enqueue(c)
  PROVE  UNCHANGED <<msgCh, made, received, dropped>>
  <1>1. ASSUME NEW c \in Conns, ReadRequest(c)
        PROVE  UNCHANGED <<msgCh, made, received, dropped>>
    BY <1>1 DEF ReadRequest
  <1> QED BY <1>1 DEF Next, Handle, Connect, Accept, ReadFail, AtTop, Snapshot,
         EnqueueEnd, Respond, WriteFail, Send, AcceptEnd, AcceptError, CloseDone, CloseListener, vars,
         dataVars

(* A record in the set of all records has been produced. *)
LEMMA RecordsMade ==
  ASSUME TypeOK, NEW m \in Records
  PROVE  m \in Record /\ m.n \in 1..made[m.conn]
  BY DEF Records, Offered, TypeOK, Record

(* The next record of a connection is new, and the only new one. *)
LEMMA OneMoreRecord ==
  ASSUME TypeOK, NEW c \in Conns, made' = [made EXCEPT ![c] = @ + 1]
  PROVE  /\ [conn |-> c, n |-> made[c] + 1] \notin Records
         /\ Records' = Records \cup {[conn |-> c, n |-> made[c] + 1]}
  <1> DEFINE m == [conn |-> c, n |-> made[c] + 1]
  <1>1. made[c] \in Nat /\ made'[c] = made[c] + 1
    BY DEF TypeOK
  <1>2. m \notin Records
    <2>1. m.conn = c /\ m.n = made[c] + 1
      OBVIOUS
    <2> HIDE DEF m
    <2> QED BY <1>1, <2>1, RecordsMade
  <1>3. Offered(c)' = Offered(c) \cup {m}
    <2>1. 1..(made[c] + 1) = 1..made[c] \cup {made[c] + 1}
      BY <1>1
    <2> QED BY <1>1, <2>1 DEF Offered
  <1>4. \A d \in Conns : d # c => Offered(d)' = Offered(d)
    BY DEF Offered, TypeOK
  <1>5. Records' = Records \cup {m}
    <2>1. Records' = UNION {Offered(d)' : d \in Conns}
      BY DEF Records
    <2> HIDE DEF m
    <2> QED BY <1>3, <1>4, <2>1 DEF Records
  <1> QED BY <1>2, <1>5

(* Receiving moves the head of the channel to the end of what was received. *)
LEMMA ReceiveKeepsAccepted ==
  ASSUME TypeOK, Receive
  PROVE  Accepted' = Accepted
  <1>1. /\ msgCh # <<>> /\ received' = Append(received, Head(msgCh)) /\ msgCh' = Tail(msgCh)
        /\ msgCh \in Seq(Record) /\ received \in Seq(Record)
    BY DEF Receive, TypeOK
  <1>2. /\ Head(msgCh) \in Record /\ Head(msgCh) = msgCh[1]
        /\ Tail(msgCh) \in Seq(Record) /\ Len(Tail(msgCh)) = Len(msgCh) - 1
        /\ \A i \in 1..Len(Tail(msgCh)) : Tail(msgCh)[i] = msgCh[i + 1]
    BY <1>1, HeadTailProperties
  <1>3. msgCh = <<Head(msgCh)>> \o Tail(msgCh)
    BY <1>1, <1>2
  <1>4. received' = received \o <<Head(msgCh)>>
    BY <1>1, <1>2, AppendIsConcat
  <1>5. <<Head(msgCh)>> \in Seq(Record)
    BY <1>2
  <1> QED BY <1>1, <1>2, <1>3, <1>4, <1>5, ConcatAssociative DEF Accepted

(* A send appends the next record of its connection. *)
LEMMA EnqueueStep ==
  ASSUME TypeOK, RecordsInOrder, NEW c \in Conns, Enqueue(c)
  PROVE  RecordsInOrder'
  <1> DEFINE m == [conn |-> c, n |-> made[c] + 1]
  <1>1. made' = [made EXCEPT ![c] = @ + 1] /\ received' = received
    BY DEF Enqueue
  <1>2. m \notin Records /\ Records' = Records \cup {m}
    BY <1>1, OneMoreRecord
  <1>3. m \in Record /\ m.conn = c /\ m.n = made[c] + 1 /\ made[c] \in Nat
    BY DEF TypeOK, Record
  <1>4. CASE Len(msgCh) < Capacity
    <2>1. msgCh' = Append(msgCh, m) /\ dropped' = dropped
      BY <1>4 DEF Enqueue, Sent
    <2> HIDE DEF m
    <2>2. msgCh \in Seq(Record) /\ received \in Seq(Record) /\ Accepted \in Seq(Record)
      BY ConcatProperties DEF TypeOK, Accepted
    <2>3. Accepted' = Append(Accepted, m)
      <3>1. <<m>> \in Seq(Record)
        BY <1>3
      <3>2. msgCh' = msgCh \o <<m>> /\ Append(Accepted, m) = Accepted \o <<m>>
        BY <1>3, <2>1, <2>2, AppendIsConcat
      <3> QED BY <1>1, <2>2, <3>1, <3>2, ConcatAssociative DEF Accepted
    <2> DEFINE s == Accepted
               k == Len(s) + 1
    <2>4. /\ s \in Seq(Record) /\ Len(s) \in Nat /\ DOMAIN s = 1..Len(s)
          /\ Append(s, m) \in Seq(Record) /\ DOMAIN Append(s, m) = 1..k
          /\ Append(s, m)[k] = m
          /\ \A i \in 1..Len(s) : Append(s, m)[i] = s[i]
      BY <1>3, <2>2, AppendProperties, LenProperties
    <2> HIDE DEF s
    <2>5. Range(Append(s, m)) = Range(s) \cup {m}
      <3>1. 1..k = 1..Len(s) \cup {k}
        BY <2>4
      <3> QED BY <2>4, <3>1 DEF Range
    <2>6. Range(s) \cup dropped = Records /\ Range(s) \cap dropped = {}
      BY DEF RecordsInOrder, s
    <2>7. ASSUME NEW i \in 1..k, NEW j \in 1..k, i < j,
                 Append(s, m)[i].conn = Append(s, m)[j].conn
          PROVE  Append(s, m)[i].n < Append(s, m)[j].n
      <3>1. i \in 1..Len(s) /\ Append(s, m)[i] = s[i]
        BY <2>4, <2>7
      <3>2. CASE j = k
        <4>1. s[i] \in Records
          BY <2>4, <2>6, <3>1 DEF Range
        <4>2. s[i].n \in 1..made[s[i].conn] /\ s[i].conn = c
          BY <1>3, <2>4, <2>7, <3>1, <3>2, <4>1, RecordsMade
        <4> QED BY <1>3, <2>4, <3>1, <3>2, <4>2
      <3>3. CASE j # k
        <4>1. j \in 1..Len(s) /\ Append(s, m)[j] = s[j]
          BY <2>4, <3>3
        <4> QED BY <2>4, <2>7, <3>1, <4>1 DEF RecordsInOrder, s
      <3> QED BY <3>2, <3>3
    <2>8. /\ Range(Accepted') \cup dropped' = Records'
          /\ Range(Accepted') \cap dropped' = {}
      BY <1>2, <2>1, <2>3, <2>5, <2>6 DEF s
    <2>9. \A i, j \in DOMAIN Accepted' :
            i < j /\ Accepted'[i].conn = Accepted'[j].conn => Accepted'[i].n < Accepted'[j].n
      BY <2>3, <2>4, <2>7 DEF s
    <2> QED BY <2>8, <2>9 DEF RecordsInOrder
  <1>5. CASE ~(Len(msgCh) < Capacity)
    <2>1. msgCh' = msgCh /\ dropped' = dropped \cup {m}
      BY <1>5 DEF Enqueue
    <2>2. Accepted' = Accepted
      BY <1>1, <2>1 DEF Accepted
    <2> HIDE DEF m
    <2> QED BY <1>2, <2>1, <2>2 DEF RecordsInOrder
  <1> QED BY <1>4, <1>5

(* Every record produced is received, queued or dropped exactly once, and the
   records of a connection keep their order, for any number of producers and
   any capacity. *)
THEOREM RecordsKeepOrder == Spec => []RecordsInOrder
  <1>1. Init => RecordsInOrder
    <2> SUFFICES ASSUME Init PROVE RecordsInOrder
      OBVIOUS
    <2>1. Accepted = <<>>
      BY DEF Init, Accepted
    <2>2. Range(<<>>) = {} /\ DOMAIN <<>> = {}
      BY DEF Range
    <2>3. \A c \in Conns : Offered(c) = {}
      BY DEF Init, Offered
    <2>4. Records = {}
      BY <2>3 DEF Records
    <2> QED BY <2>1, <2>2, <2>4 DEF Init, RecordsInOrder
  <1>2. TypeOK /\ RecordsInOrder /\ [Next]_vars => RecordsInOrder'
    <2> SUFFICES ASSUME TypeOK, RecordsInOrder, [Next]_vars PROVE RecordsInOrder'
      OBVIOUS
    <2>1. CASE Receive
      <3>1. Accepted' = Accepted /\ UNCHANGED <<made, dropped>>
        BY <2>1, ReceiveKeepsAccepted DEF Receive
      <3> QED BY <3>1 DEF RecordsInOrder, Records, Offered
    <2>2. CASE \E c \in Conns : Enqueue(c)
      BY <2>2, EnqueueStep
    <2>3. CASE ~Receive /\ ~ \E c \in Conns : Enqueue(c)
      BY <2>3, RecordsUnchanged DEF RecordsInOrder, Records, Offered, Accepted
    <2> QED BY <2>1, <2>2, <2>3
  <1> QED BY <1>1, <1>2, TypeCorrect, PTL DEF Spec
=============================================================================
