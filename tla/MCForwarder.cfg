SPECIFICATION FairSpec
CONSTANTS
  Submitters = {pipeline, retry}
  Loop = loop
  BatchSize = 2
  MaxSubmit = 2
  EncodingMayFail = TRUE
  MaxSamples = 4
INVARIANTS TypeOK ExactlyOnePlace BufferedInOrder BufferBounded AtMostOnce
PROPERTIES ImplementsDelivery BufferedIsSettled
CHECK_DEADLOCK FALSE
