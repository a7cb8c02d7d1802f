------------------------------ MODULE Decoder ------------------------------
(***************************************************************************)
(* handleProduce's decoding of a request, byte by byte: the request and    *)
(* topic headers, the choice between the record formats, and the records,  *)
(* over the reader whose operations return zero and stay where they are    *)
(* when the buffer is too short.                                           *)
(*                                                                         *)
(* buf holds what follows the request header, p is an index into it        *)
(* counted from 0 as in the code.  Integers that the code reads and throws *)
(* away are only skipped.                                                  *)
(*                                                                         *)
(* The width of an int is a parameter: a length that comes as a varint can *)
(* be so large that its sum with the position wraps around, passes the     *)
(* reader's check, and the slice expression panics.                        *)
(***************************************************************************)
EXTENDS Integers, Sequences, SequencesExt

CONSTANTS
  Requests,     \* requests: version, magic, number of topics, bytes, what the client
                \* put into them, whether they are whole
  MaxInt,       \* the largest int, 2^63 - 1
  MaxInt32,     \* the largest int32 to which a varint is cut down, 2^31 - 1
  VarintBytes,  \* binary.MaxVarintLen64, 10
  MaxAlloc      \* largest capacity of a slice that can be allocated

VARIABLES
  req,      \* the request
  pos,      \* reader.pos
  stage,    \* the loop that handleProduce is in
  topics,   \* topics still to be read
  topic,    \* the topic
  parts,    \* its partitions still to be read
  records,  \* format 2: records still to be read
  headers,  \* headers of the record still to be read
  out       \* the records decoded, in the order they go to the channel: topic and value

vars == <<req, pos, stage, topics, topic, parts, records, headers, out>>

buf == req.bytes
flexible == req.version >= 9

-----------------------------------------------------------------------------
(* reader: what is at p, and where the reader is afterwards *)

remaining(p) == Len(buf) - p
Byte(i) == buf[i + 1]
Fits(p, n) == p + n <= Len(buf)
Past(p, n) == IF Fits(p, n) THEN p + n ELSE p

Signed8(b) == IF b >= 128 THEN b - 256 ELSE b
Int8(p) == IF Fits(p, 1) THEN Signed8(Byte(p)) ELSE 0
Int16(p) == IF Fits(p, 2) THEN Signed8(Byte(p)) * 256 + Byte(p + 1) ELSE 0
Int32(p) ==
  IF Fits(p, 4)
  THEN ((Signed8(Byte(p)) * 256 + Byte(p + 1)) * 256 + Byte(p + 2)) * 256 + Byte(p + 3)
  ELSE 0

(* n bytes at p, nothing when there are fewer or n is negative *)
Chunk_Unchecked(p, n) ==
  IF n < 0 THEN [val |-> <<>>, pos |-> p]
  ELSE [val |-> SubSeq(buf, p + 1, IF Fits(p, n) THEN p + n ELSE Len(buf)), pos |-> p + n]
Chunk(p, n) ==
  IF n < 0 \/ ~Fits(p, n) THEN [val |-> <<>>, pos |-> p]
  ELSE [val |-> SubSeq(buf, p + 1, p + n), pos |-> p + n]

readString(p) == Chunk(Past(p, 2), Int16(p))
readBytes(p) == Chunk(Past(p, 4), Int32(p))

(* The same for a length from a varint.  A sum beyond MaxInt is negative to the
   check, and the slice fails: that leaves the position outside of the buffer,
   from where every later read stays in place. *)
VarChunk(p, n) ==
  IF n >= 0 /\ p + n > MaxInt THEN [val |-> <<>>, pos |-> p + n] ELSE Chunk(p, n)

(* An integer cut down to the signed type whose largest value is max *)
Narrow(v, max) ==
  LET m == v % (2 * (max + 1)) IN IF m > max THEN m - 2 * (max + 1) ELSE m

(* binary.Uvarint: 0 and no progress when the last byte is missing or the
   number needs more bits than it has. *)
LastOfVarint(p) == {i \in p..(p + VarintBytes - 1) : /\ Fits(p, i - p + 1) /\ Byte(i) < 128
                                                     /\ \A j \in p..(i - 1) : Byte(j) >= 128}
UvarintValue(p, last) ==
  LET low(k) == IF p + k <= last THEN Byte(p + k) % 128 ELSE 0
  IN low(0) + 128 * (low(1) + 128 * (low(2) + 128 * (low(3) + 128 * (low(4) + 128 * (low(5)
       + 128 * (low(6) + 128 * (low(7) + 128 * (low(8) + 128 * low(9)))))))))
Uvarint(p) ==
  LET last == CHOOSE i \in LastOfVarint(p) : TRUE IN
  IF LastOfVarint(p) = {} \/ UvarintValue(p, last) > 2 * MaxInt + 1 THEN [val |-> 0, pos |-> p]
  ELSE [val |-> UvarintValue(p, last), pos |-> last + 1]

(* binary.Varint: zigzag *)
Varint(p) ==
  LET u == Uvarint(p) IN
  [val |-> IF u.val % 2 = 0 THEN u.val \div 2 ELSE -(u.val \div 2) - 1, pos |-> u.pos]

readCompactString(p) == VarChunk(Uvarint(p).pos, Narrow(Uvarint(p).val - 1, MaxInt))
readVarBytes(p) == VarChunk(Varint(p).pos, Varint(p).val)

-----------------------------------------------------------------------------
(* The two encodings of names, counts and tagged fields *)

Name(p) == IF flexible THEN readCompactString(p) ELSE readString(p)
CountAt(p) ==
  IF flexible THEN [val |-> Narrow(Uvarint(p).val - 1, MaxInt32), pos |-> Uvarint(p).pos]
  ELSE [val |-> Int32(p), pos |-> Past(p, 4)]
PastTags(p) == IF flexible THEN Uvarint(p).pos ELSE p

(* The next stage, unless the slice expression of a read has failed *)
Continue(next) == stage' = IF pos' > Len(buf) THEN "panic" ELSE next

Init ==
  /\ req \in Requests
  /\ pos = 0 /\ stage = "header"
  /\ topics = 0 /\ topic = <<>> /\ parts = 0 /\ records = 0 /\ headers = 0
  /\ out = <<>>

(* transactional id, acks, timeout and the number of topics *)
ReadHeader ==
  LET n == CountAt(Past(Past(Name(pos).pos, 2), 4)) IN
  /\ stage = "header"
  /\ topics' = n.val /\ pos' = n.pos
  /\ Continue("topics")
  /\ UNCHANGED <<req, topic, parts, records, headers, out>>

(* A turn of a loop reads nothing when less than this is left. *)
Exhausted(n) == remaining(pos) < (IF flexible THEN 1 ELSE n)

ReadTopic ==
  LET name == Name(pos)
      n == CountAt(name.pos)
  IN
  /\ stage = "topics" /\ topics > 0 /\ ~Exhausted(2)
  /\ topic' = name.val /\ parts' = n.val /\ pos' = n.pos
  /\ topics' = topics - 1
  /\ Continue("partitions")
  /\ UNCHANGED <<req, records, headers, out>>

(* The last topic is done, or the turns still to come read nothing. *)
TopicsEnd ==
  /\ stage = "topics" /\ (topics <= 0 \/ Exhausted(2))
  /\ pos' = PastTags(pos)
  /\ stage' = "answer"
  /\ UNCHANGED <<req, topics, topic, parts, records, headers, out>>

(* Fields between the magic byte and what is taken for the record count *)
PastV2Header(p) == Past(Past(Past(Past(Past(Past(Past(p, 2), 4), 8), 8), 8), 2), 4)

(* A partition: its number and the size of its records, which is not used,
   then decodeRecordBatch up to the choice of the format.  For format 2 a slice
   for as many messages as the count says is made, if that can be. *)
ReadPartition ==
  LET start == Past(Past(pos, 4), 4)
      magic == Past(Past(Past(start, 8), 4), 4)
      count == PastV2Header(Past(magic, 1))
  IN
  /\ stage = "partitions" /\ parts > 0 /\ ~Exhausted(4)
  /\ parts' = parts - 1
  /\ CASE remaining(start) < 17 ->
            stage' = "partition end" /\ pos' = start /\ UNCHANGED records
       [] remaining(start) >= 17 /\ Int8(magic) = 2 ->
            /\ records' = Int32(count) /\ pos' = Past(count, 4)
            /\ stage' = IF Int32(count) \in 0..MaxAlloc THEN "v2" ELSE "panic"
       [] OTHER ->
            stage' = "legacy" /\ pos' = start /\ UNCHANGED records
  /\ UNCHANGED <<req, topics, topic, headers, out>>

PartitionsEnd ==
  /\ stage = "partitions" /\ (parts <= 0 \/ Exhausted(4))
  /\ pos' = PastTags(pos)
  /\ stage' = "topics"
  /\ UNCHANGED <<req, topics, topic, parts, records, headers, out>>

PartitionEnd ==
  /\ stage = "partition end"
  /\ pos' = PastTags(pos)
  /\ stage' = "partitions"
  /\ UNCHANGED <<req, topics, topic, parts, records, headers, out>>

Emit(value) == out' = Append(out, [topic |-> topic, value |-> value])

-----------------------------------------------------------------------------
(* decodeLegacyMessageSet, one message a step *)

LegacyMore == remaining(pos) >= 12
LegacySize == Int32(Past(pos, 8))
LegacyBody == Past(Past(pos, 8), 4)
LegacyWhole_Unchecked == LegacySize > 0
LegacyWhole == LegacySize > 0 /\ Fits(LegacyBody, LegacySize)

(* checksum, magic and attributes are skipped, whatever the magic says *)
LegacyKey == readBytes(Past(Past(Past(LegacyBody, 4), 1), 1))

LegacyMessage ==
  LET value == readBytes(LegacyKey.pos) IN
  /\ stage = "legacy" /\ LegacyMore /\ LegacyWhole
  /\ Emit(value.val)
  /\ pos' = value.pos
  /\ UNCHANGED <<req, stage, topics, topic, parts, records, headers>>

LegacyEnd ==
  /\ stage = "legacy" /\ ~(LegacyMore /\ LegacyWhole)
  /\ pos' = IF LegacyMore THEN LegacyBody ELSE pos
  /\ stage' = "partition end"
  /\ UNCHANGED <<req, topics, topic, parts, records, headers, out>>

-----------------------------------------------------------------------------
(* decodeRecordBatchV2, one record a step *)

V2More_CountOnly == records > 0
V2More == records > 0 /\ remaining(pos) > 0

(* Length, attributes and the two deltas of a record are skipped. *)
RecordKey == readVarBytes(Varint(Varint(Past(Varint(pos).pos, 1)).pos).pos)

(* A record up to its headers *)
V2Record ==
  LET value == readVarBytes(RecordKey.pos)
      nH == Varint(value.pos)
  IN
  /\ stage = "v2" /\ V2More
  /\ Emit(value.val)
  /\ headers' = nH.val /\ pos' = nH.pos
  /\ records' = records - 1
  /\ Continue("headers")
  /\ UNCHANGED <<req, topics, topic, parts>>

(* A header's name and value.  Once they are read without progress the turns
   still to come, however many, change nothing. *)
PastHeader == readVarBytes(readVarBytes(pos).pos).pos

V2RecordHeader ==
  /\ stage = "headers" /\ headers > 0 /\ PastHeader # pos
  /\ headers' = headers - 1 /\ pos' = PastHeader
  /\ Continue("headers")
  /\ UNCHANGED <<req, topics, topic, parts, records, out>>

V2RecordEnd ==
  /\ stage = "headers" /\ ~(headers > 0 /\ PastHeader # pos)
  /\ stage' = "v2"
  /\ UNCHANGED <<req, pos, topics, topic, parts, records, headers, out>>

V2End ==
  /\ stage = "v2" /\ ~V2More
  /\ stage' = "partition end"
  /\ UNCHANGED <<req, pos, topics, topic, parts, records, headers, out>>

Next ==
  \/ ReadHeader \/ ReadTopic \/ TopicsEnd
  \/ ReadPartition \/ PartitionEnd \/ PartitionsEnd
  \/ LegacyMessage \/ LegacyEnd
  \/ V2Record \/ V2RecordHeader \/ V2RecordEnd \/ V2End

Spec == Init /\ [][Next]_vars

-----------------------------------------------------------------------------
(* Properties *)

(* No varint, wherever in the request one is read, is so large that a sum with
   a position wraps around. *)
NoWrap == \A p \in 0..Len(buf) : Uvarint(p).val <= MaxInt - Len(buf)

(* No request, cut off or misread anywhere, makes the reader leave its buffer:
   every slice expression of the reader is within bounds.  It takes that no
   varint comes near to the largest int. *)
InBounds == NoWrap => pos \in 0..Len(buf)

(* However many records a batch claims to hold, every record handed on was
   paid for with bytes of the request. *)
RecordsCostBytes == Len(out) <= pos

(* The records handed to the channel are those the client put into the
   request, under their topics and in their order. *)
DecodesProduced == req.whole /\ stage = "answer" => out = req.produced

(* Requests with one topic of format 0 messages, of the versions that have a
   transactional id and fixed-size counts: the records of a whole one are those
   the client put in, and of one that is cut off anywhere nothing is made up. *)
Format0 == req.version \in 3..8 /\ req.topics = 1 /\ req.magic = 0
DecodesFormat0 ==
  Format0 =>
    /\ IsPrefix(out, req.produced)
    /\ req.whole /\ stage = "answer" => out = req.produced
=============================================================================
