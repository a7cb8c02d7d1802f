----------------------------- MODULE MCRelabel -----------------------------
(* The relabelling engine on up to two rules that Prometheus loads too *)
EXTENDS Relabel

RIn == INSTANCE RelabelInputs

SomeCases == RIn!UpTo2FilledRules
SomeMatch(re, s) == RIn!Match(re, s)
SomeReplace(re, replacement, s) == RIn!ReplaceAll(re, replacement, s)
SomeNames == RIn!PrometheusNames
=============================================================================
