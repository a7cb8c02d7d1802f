---------------------------- MODULE RemoteWrite ----------------------------
(***************************************************************************)
(* prompb.WriteRequest.Marshal, one series a step, and a decoder of the    *)
(* message format to hold it against.  Strings are sequences of bytes, a   *)
(* sample's value is the eight bytes of the double.                        *)
(***************************************************************************)
EXTENDS Integers, Sequences, SequencesExt

CONSTANT Requests \* sequences of series: labels (name, value), samples (value, ts)

VARIABLES
  request,  \* the argument
  n,        \* series encoded so far
  buf,      \* the bytes
  result    \* "running", "encoded" or "error"

vars == <<request, n, buf, result>>

(* appendVarint; a negative int64 is a uint64 of ten bytes. *)
PutUvarint[v \in Nat] ==
  IF v < 128 THEN <<v>> ELSE <<128 + (v % 128)>> \o PutUvarint[v \div 128]
PutNegative(v) ==
  LET shifted[i \in 0..8] == IF i = 0 THEN v ELSE shifted[i - 1] \div 128
  IN [i \in 1..9 |-> 128 + (shifted[i - 1] % 128)] \o <<1>>
PutInt64_Zigzag(v) == PutUvarint[IF v < 0 THEN -2 * v - 1 ELSE 2 * v]
PutInt64(v) == IF v < 0 THEN PutNegative(v) ELSE PutUvarint[v]

Tag(fieldNum, wireType) == PutUvarint[fieldNum * 8 + wireType]
appendString(s) == PutUvarint[Len(s)] \o s
Delimited(fieldNum, s) == Tag(fieldNum, 2) \o appendString(s)

marshalLabel(l) == Delimited(1, l.name) \o Delimited(2, l.value)
marshalSample(s) == Tag(1, 1) \o s.value \o Tag(2, 0) \o PutInt64(s.ts)

(* Field i of a series: its labels, then its samples *)
SeriesField(ts, i) ==
  IF i <= Len(ts.labels) THEN Delimited(1, marshalLabel(ts.labels[i]))
  ELSE Delimited(2, marshalSample(ts.samples[i - Len(ts.labels)]))

(* The bytes after each number of fields *)
SeriesBytes(ts) ==
  LET after[i \in 0..(Len(ts.labels) + Len(ts.samples))] ==
        IF i = 0 THEN <<>> ELSE after[i - 1] \o SeriesField(ts, i)
  IN after
marshalTimeSeries(ts) == SeriesBytes(ts)[Len(ts.labels) + Len(ts.samples)]

Init == request \in Requests /\ n = 0 /\ buf = <<>> /\ result = "running"

(* marshalLabel's error, which gives up the whole request *)
Unnamed_Last(labels) == labels # <<>> /\ Last(labels).name = <<>>
Unnamed(labels) == \E i \in DOMAIN labels : labels[i].name = <<>>

MarshalSeries ==
  /\ result = "running" /\ n < Len(request)
  /\ ~Unnamed(request[n + 1].labels)
  /\ buf' = buf \o Delimited(1, marshalTimeSeries(request[n + 1]))
  /\ n' = n + 1
  /\ UNCHANGED <<request, result>>

MarshalFail ==
  /\ result = "running" /\ n < Len(request)
  /\ Unnamed(request[n + 1].labels)
  /\ buf' = <<>> /\ result' = "error"
  /\ UNCHANGED <<request, n>>

Return ==
  /\ result = "running" /\ n = Len(request)
  /\ result' = "encoded"
  /\ UNCHANGED <<request, n, buf>>

Next == MarshalSeries \/ MarshalFail \/ Return

Spec == Init /\ [][Next]_vars

-----------------------------------------------------------------------------
(* The message format: what a receiver makes of the bytes *)

(* The varint that begins at p: its last byte, and its value from each byte on.
   An int64 of ten bytes is negative. *)
LastByte(b, p) == CHOOSE i \in p..Len(b) : b[i] < 128 /\ \A j \in p..(i - 1) : b[j] >= 128
ValueFrom(b, p, last, signed) ==
  LET from[i \in p..last] ==
        IF i = last THEN (IF signed /\ last - p = 9 THEN -b[i] ELSE b[i])
        ELSE from[i + 1] * 128 + (b[i] % 128)
  IN from
VarintAt(b, p, signed) ==
  [val |-> ValueFrom(b, p, LastByte(b, p), signed)[p], next |-> LastByte(b, p) + 1]

(* The field that begins at p: number, contents and what comes after it *)
FieldAt(b, p) ==
  LET tag == VarintAt(b, p, FALSE)
      length == VarintAt(b, tag.next, FALSE)
      int64 == VarintAt(b, tag.next, TRUE)
      Field(contents, next) == [num |-> tag.val \div 8, val |-> contents, next |-> next]
  IN CASE tag.val % 8 = 0 -> Field(int64.val, int64.next)
       [] tag.val % 8 = 1 -> Field(SubSeq(b, tag.next, tag.next + 7), tag.next + 8)
       [] OTHER -> Field(SubSeq(b, length.next, length.next + length.val - 1), length.next + length.val)

(* The contents of the fields with a number, from each position on *)
ContentsFrom(b, num) ==
  LET from[p \in 1..(Len(b) + 1)] ==
        LET field == FieldAt(b, p) IN
        IF p > Len(b) \/ field.next \notin (p + 1)..(Len(b) + 1) THEN <<>>
        ELSE (IF field.num = num THEN <<field.val>> ELSE <<>>) \o from[field.next]
  IN from
Contents(b, num) == ContentsFrom(b, num)[1]
Repeated(b, num, Read(_)) == [i \in 1..Len(Contents(b, num)) |-> Read(Contents(b, num)[i])]

ReadLabel(b) == [name |-> Contents(b, 1)[1], value |-> Contents(b, 2)[1]]
ReadSample(b) == [value |-> Contents(b, 1)[1], ts |-> Contents(b, 2)[1]]
ReadSeries(b) == [labels |-> Repeated(b, 1, ReadLabel), samples |-> Repeated(b, 2, ReadSample)]
ReadRequest(b) == Repeated(b, 1, ReadSeries)

(* Properties *)

(* The receiver reads the series that were sent: lengths of more than a byte,
   empty values and times before 1970 included. *)
RoundTrip == result = "encoded" => ReadRequest(buf) = request

(* A request with a label that has no name is never sent, wherever the label
   is, and every other request is. *)
NamelessFails ==
  result # "running" =>
    (result = "error") = (\E i \in DOMAIN request : \E j \in DOMAIN request[i].labels :
                            request[i].labels[j].name = <<>>)
=============================================================================
