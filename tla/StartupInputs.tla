--------------------------- MODULE StartupInputs ---------------------------
(* Configuration files that leave out any of the settings, with identifiers
   and topic lists of a few shapes, for Startup *)
EXTENDS Routing, FiniteSets

NothingSet == [s \in Settings |-> 0]
File(id, settings, m, l, urls, cache) ==
  [identifier |-> id, settings |-> settings, metricsTopics |-> m, logTopics |-> l,
   rwURL |-> urls, lokiURL |-> TRUE, cacheOn |-> cache]

(* config.yaml's lists, one name with a space around it *)
ListedMetrics == {[topic |-> <<"ome", "telemetry">>, spaces |-> TRUE],
                  Plain(<<"ome", "health">>)}

OmittingSome ==
  {File(id, settings, {}, {}, urls, cache) :
     id \in {<<>>, <<"dc1">>}, settings \in [Settings -> {0, 3}],
     urls \in BOOLEAN, cache \in BOOLEAN}
  \cup {File(<<"ome">>, NothingSet, ListedMetrics, {}, TRUE, TRUE),
        File(<<"dc1", "ome">>, NothingSet, {}, {}, TRUE, TRUE)}

SomePayloads ==
  {[valid |-> v, readings |-> r, components |-> c] :
     v \in BOOLEAN, r \in {1}, c \in 0..1}
=============================================================================
