---------------------------- MODULE Conversions ----------------------------
(***************************************************************************)
(* The sequential parts of the bridge, each run on all its inputs.  None   *)
(* of them shares state with another, so a behaviour is one run of one of  *)
(* them, and the variables are the local variables of that run: what it    *)
(* was given, what it has yet to do, what it has made, how far it is, and  *)
(* five more.                                                              *)
(***************************************************************************)
EXTENDS Integers, Sequences

CONSTANTS
  Messages, Lower, NameChars, Unparsable, Now,  \* Parser
  Cases, Unset,
  MatchString(_, _), ReplaceAllString(_, _, _),
  LabelNames,                                   \* Relabel
  Batches, Names,                               \* LokiWriter
  WriteRequests,                                \* RemoteWrite
  ProduceRequests, MaxInt, MaxInt32, VarintBytes, MaxAlloc, \* Decoder
  Configs, Payloads                             \* Startup

VARIABLES part, given, todo, made, status, aux1, aux2, aux3, aux4, aux5

locals == <<given, todo, made, status, aux1, aux2, aux3, aux4, aux5>>
vars == <<part, locals>>

P == INSTANCE Parser WITH
  msg <- given, out <- made, result <- status, heap <- aux1, entry <- aux2
R == INSTANCE Relabel WITH
  call <- given, rules <- todo, labels <- made, verdict <- status,
  ranging <- aux1, ahead <- aux2, fresh <- aux3
L == INSTANCE LokiWriter WITH
  entries <- given, n <- todo, grouped <- made, body <- aux1
W == INSTANCE RemoteWrite WITH
  Requests <- WriteRequests,
  request <- given, n <- todo, buf <- made, result <- status
D == INSTANCE Decoder WITH
  Requests <- ProduceRequests,
  req <- given, topics <- todo, out <- made, stage <- status,
  pos <- aux1, topic <- aux2, parts <- aux3, records <- aux4, headers <- aux5
S == INSTANCE Startup WITH
  conf <- given, routed <- made, state <- status

(* In the code 2^63 - 1, 2^31 - 1 and 10; MaxAlloc depends on the memory *)
ASSUME WidthAssumption ==
  MaxInt \in Nat /\ MaxInt32 \in Nat /\ VarintBytes \in 1..10 /\ MaxAlloc \in Nat

unused == "unused"

Init ==
  \/ part = "Parser" /\ P!Init /\ aux3 = unused /\ aux4 = unused /\ aux5 = unused
  \/ part = "Relabel" /\ R!Init /\ aux4 = unused /\ aux5 = unused
  \/ part = "LokiWriter" /\ L!Init /\ status = unused /\ aux2 = unused /\ aux3 = unused /\ aux4 = unused /\ aux5 = unused
  \/ part = "RemoteWrite" /\ W!Init /\ aux1 = unused /\ aux2 = unused /\ aux3 = unused /\ aux4 = unused /\ aux5 = unused
  \/ part = "Decoder" /\ D!Init
  \/ part = "Startup" /\ S!Init /\ todo = unused /\ aux1 = unused /\ aux2 = unused /\ aux3 = unused /\ aux4 = unused /\ aux5 = unused

ParserStep      == part = "Parser" /\ P!Next /\ UNCHANGED <<part, aux3, aux4, aux5>>
RelabelStep     == part = "Relabel" /\ R!Next /\ UNCHANGED <<part, aux4, aux5>>
LokiWriterStep  == part = "LokiWriter" /\ L!Next /\ UNCHANGED <<part, status, aux2, aux3, aux4, aux5>>
RemoteWriteStep == part = "RemoteWrite" /\ W!Next /\ UNCHANGED <<part, aux1, aux2, aux3, aux4, aux5>>
DecoderStep     == part = "Decoder" /\ D!Next /\ UNCHANGED part
StartupStep     == part = "Startup" /\ S!Next /\ UNCHANGED <<part, todo, aux1, aux2, aux3, aux4, aux5>>

Next ==
  \/ ParserStep \/ RelabelStep \/ LokiWriterStep
  \/ RemoteWriteStep \/ DecoderStep \/ StartupStep

Spec == Init /\ [][Next]_vars

-----------------------------------------------------------------------------
(* The properties of the parts, each of the runs of its part *)

(* Each sample of a telemetry message has the labels of its own reading. *)
ReadingsKeepTheirLabels == part = "Parser" => P!ReadingsKeepTheirLabels
(* Each sample of a health message has the labels of its own component. *)
ComponentsKeepTheirLabels == part = "Parser" => P!ComponentsKeepTheirLabels
(* Apply does what Prometheus does, in every order of labelmap's loop, with
   rules that mean the same to both. *)
LikePrometheus == part = "Relabel" => R!LikePrometheus
(* The streams of a push are the label sets of its entries. *)
StreamsAreLabelSets == part = "LokiWriter" => L!StreamsAreLabelSets
(* A receiver reads the series that Marshal was given. *)
RoundTrip == part = "RemoteWrite" => W!RoundTrip
(* Marshal fails for a label without a name and for nothing else. *)
NamelessFails == part = "RemoteWrite" => W!NamelessFails
(* The reader of a produce request stays in its buffer. *)
InBounds == part = "Decoder" => D!InBounds
(* Each record that is handed on has cost bytes of the request. *)
RecordsCostBytes == part = "Decoder" => D!RecordsCostBytes
(* The records of a format 0 request are those the client put in. *)
DecodesFormat0 == part = "Decoder" => D!DecodesFormat0
(* A configuration that Load accepts starts up. *)
LoadedStarts == part = "Startup" => S!LoadedStarts
(* Messages go where the README's table says. *)
RoutedAsDocumented == part = "Startup" => S!RoutedAsDocumented
=============================================================================
