SPECIFICATION Spec
CONSTANTS
  Unset = unset
  Cases <- SomeCases
  MatchString <- SomeMatch
  ReplaceAllString <- SomeReplace
  LabelNames <- SomeNames
INVARIANT PrometheusCompatible
CHECK_DEADLOCK FALSE
