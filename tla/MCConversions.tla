--------------------------- MODULE MCConversions ---------------------------
(* The conversions on the inputs of the *Inputs modules *)
EXTENDS Conversions

PIn == INSTANCE ParserInputs
RIn == INSTANCE RelabelInputs
LIn == INSTANCE LokiWriterInputs
WIn == INSTANCE RemoteWriteInputs
DIn == INSTANCE DecoderInputs
SIn == INSTANCE StartupInputs

ParserMessages == PIn!AllKinds
ParserLower == PIn!LowerCase
ParserNameChars == PIn!AllowedChars
RelabelCases == RIn!UpTo3Rules
RelabelNames == RIn!PrometheusNames
RelabelMatch(re, s) == RIn!Match(re, s)
RelabelReplace(re, replacement, s) == RIn!ReplaceAll(re, replacement, s)
LokiBatches == LIn!SomeBatches
LokiNames == LIn!SortedNames
SeriesRequests == WIn!Requests
CutRequests == DIn!CutRequests
ConfigFiles == SIn!OmittingSome
MessageBodies == SIn!SomePayloads
=============================================================================
