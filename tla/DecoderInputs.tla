--------------------------- MODULE DecoderInputs ---------------------------
(* Produce requests as a Kafka client encodes them, whole and cut off at every
   byte, for Decoder *)
EXTENDS Integers, Sequences, SequencesExt

(* Big-endian; -1 is all ones, everything else here fits one byte. *)
BE(width, n) == [i \in 1..width |-> IF n < 0 THEN 255 ELSE IF i = width THEN n ELSE 0]
Str(s) == BE(2, Len(s)) \o s
CompactStr(s) == <<Len(s) + 1>> \o s
Bytes(s) == BE(4, Len(s)) \o s
NullBytes == BE(4, -1)
Zigzag(n) == <<IF n < 0 THEN -2 * n - 1 ELSE 2 * n>>
VarBytes(s) == Zigzag(Len(s)) \o s

(* A message of format 0 or 1 *)
LegacyMsg(magic, value) ==
  LET body == BE(4, 7) \o <<magic, 0>> \o (IF magic = 1 THEN BE(8, 9) ELSE <<>>)
              \o NullBytes \o Bytes(value)
  IN BE(8, 0) \o BE(4, Len(body)) \o body
LegacySet(magic, values) == FlattenSeq([i \in DOMAIN values |-> LegacyMsg(magic, values[i])])

(* A batch of format 2 *)
V2Rec(i, value) ==
  LET body == <<0>> \o Zigzag(0) \o Zigzag(i - 1) \o Zigzag(-1) \o VarBytes(value) \o Zigzag(0)
  IN Zigzag(Len(body)) \o body
V2Batch(baseSequence, values) ==
  LET recs == FlattenSeq([i \in DOMAIN values |-> V2Rec(i, values[i])])
      rest == BE(4, 0) \o <<2>> \o BE(4, 7) \o BE(2, 0) \o BE(4, Len(values) - 1)
              \o BE(8, 9) \o BE(8, 9) \o BE(8, 5) \o BE(2, 0)
              \o BE(4, baseSequence) \o BE(4, Len(values)) \o recs
  IN BE(8, 0) \o BE(4, Len(rest)) \o rest

(* A request with one partition for each of the topics; sets is a sequence of
   <<topic, record set>>. *)
Topic(version, t) ==
  IF version >= 9
  THEN CompactStr(t[1]) \o <<2>> \o BE(4, 0) \o <<Len(t[2]) + 1>> \o t[2] \o <<0, 0>>
  ELSE Str(t[1]) \o BE(4, 1) \o BE(4, 0) \o Bytes(t[2])
Encoded(version, sets) ==
  LET acks == BE(2, 1) \o BE(4, 30)
      body == FlattenSeq([i \in DOMAIN sets |-> Topic(version, sets[i])])
  IN CASE version >= 9 -> <<0>> \o acks \o <<Len(sets) + 1>> \o body \o <<0>>
       [] version \in 3..8 -> BE(2, -1) \o acks \o BE(4, Len(sets)) \o body
       [] OTHER -> acks \o BE(4, Len(sets)) \o body

Request(version, magic, sets, produced) ==
  [version |-> version, magic |-> magic, topics |-> Len(sets),
   bytes |-> Encoded(version, sets), produced |-> produced, whole |-> TRUE]
Produced(t, values) == [i \in DOMAIN values |-> [topic |-> t, value |-> values[i]]]

(* The request, and all its beginnings *)
Cuts(r) == {[r EXCEPT !.bytes = SubSeq(@, 1, n), !.whole = (n = Len(r.bytes))] :
              n \in 0..Len(r.bytes)}

T == <<65>>
U == <<66>>
Values == {<<>>, <<1>>, <<200, 2>>}
RecordSets == {<<>>} \cup {<<v>> : v \in Values} \cup {<<v, w>> : v, w \in Values}

LegacyRequest(version, magic, values) ==
  Request(version, magic, <<<<T, LegacySet(magic, values)>>>>, Produced(T, values))
V2Request(version, baseSequence, values) ==
  Request(version, 2, <<<<T, V2Batch(baseSequence, values)>>>>, Produced(T, values))
TwoTopics ==
  Request(7, 0, <<<<T, LegacySet(0, <<<<1>>>>)>>, <<U, LegacySet(0, <<<<2>>>>)>>>>,
          Produced(T, <<<<1>>>>) \o Produced(U, <<<<2>>>>))

CutRequests ==
  UNION {Cuts(LegacyRequest(7, 0, b)) : b \in RecordSets}
  \cup UNION {Cuts(V2Request(7, s, <<<<1>>, <<200, 2>>>>)) : s \in (-1..3) \cup {200, 201}}
  \cup Cuts(V2Request(7, 1, <<<<1>>, <<200, 2>>, <<3>>>>))
  \cup UNION {Cuts(LegacyRequest(v, m, <<<<1>>>>)) : v \in {0, 2, 3, 7, 8, 9}, m \in 0..1}
  \cup Cuts(TwoTopics)

(* Requests of the versions before the transactional id, in the formats that a
   client of the version uses: 0, and from version 2 on 1 *)
FirstVersions ==
  {LegacyRequest(v, 0, b) : v \in 0..2, b \in RecordSets}
  \cup {LegacyRequest(2, 1, b) : b \in RecordSets}
=============================================================================
