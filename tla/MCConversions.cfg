SPECIFICATION Spec
CONSTANTS
  MaxInt = 134217727
  MaxInt32 = 67108863
  VarintBytes = 4
  MaxAlloc = 200
  Unparsable = unparsable
  Now = now
  Unset = unset
  Messages <- ParserMessages
  Lower <- ParserLower
  NameChars <- ParserNameChars
  Cases <- RelabelCases
  MatchString <- RelabelMatch
  ReplaceAllString <- RelabelReplace
  LabelNames <- RelabelNames
  Batches <- LokiBatches
  Names <- LokiNames
  WriteRequests <- SeriesRequests
  ProduceRequests <- CutRequests
  Configs <- ConfigFiles
  Payloads <- MessageBodies
INVARIANTS
  ReadingsKeepTheirLabels ComponentsKeepTheirLabels
  LikePrometheus
  StreamsAreLabelSets
  RoundTrip NamelessFails
  InBounds RecordsCostBytes DecodesFormat0
  LoadedStarts RoutedAsDocumented
CHECK_DEADLOCK FALSE
