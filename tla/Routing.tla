------------------------------ MODULE Routing ------------------------------
(***************************************************************************)
(* Which topic goes where: the configuration's defaults and validation     *)
(* (internal/config), the kind Parse gives a topic (internal/parser) and   *)
(* the topic filters of main.                                              *)
(*                                                                         *)
(* A topic is the sequence of its dot-separated parts.  A topic list of    *)
(* the configuration is a set of topics, each with or without surrounding  *)
(* white space.  Durations and sizes are numbers of which 0 stands for a   *)
(* setting the file leaves out, as it does in the code.                    *)
(***************************************************************************)
EXTENDS Naturals, Sequences

(* parser.MessageKind, without "unknown" *)
MessageKinds == {"telemetry", "health", "alerts", "auditlogs", "inventory"}

-----------------------------------------------------------------------------
(* Configuration *)

(* The settings of type int or Duration, and what applyDefaults puts in when
   the file leaves them out.  The two timeouts have no default. *)
DefaultOf == [rwBatch |-> 500, rwFlush |-> 10, lokiBatch |-> 100, lokiFlush |-> 5,
              cacheSize |-> 512, cacheRetry |-> 30, cacheAge |-> 86400]
Settings == DOMAIN DefaultOf \cup {"rwTimeout", "lokiTimeout"}

DefaultIdentifier == <<"ome">>

Plain(topic) == [topic |-> topic, spaces |-> FALSE]
DefaultTopics_Ome(identifier, kinds) == {Plain(DefaultIdentifier \o <<k>>) : k \in kinds}
DefaultTopics(identifier, kinds) == {Plain(identifier \o <<k>>) : k \in kinds}

DefaultMetricsKinds == {"telemetry", "health"}
DefaultLogKinds == {"alerts", "auditlogs", "inventory"}

Defaulted_Batches(s) == s \in {"rwBatch", "lokiBatch"}
Defaulted(s) == s \in DOMAIN DefaultOf

(* applyDefaults on the configuration as the file gives it *)
applyDefaults(c) ==
  LET id == IF c.identifier = <<>> THEN DefaultIdentifier ELSE c.identifier
  IN [c EXCEPT
       !.identifier = id,
       !.settings = [s \in Settings |-> IF c.settings[s] = 0 /\ Defaulted(s)
                                        THEN DefaultOf[s] ELSE c.settings[s]],
       !.metricsTopics = IF c.metricsTopics = {}
                         THEN DefaultTopics(id, DefaultMetricsKinds) ELSE c.metricsTopics,
       !.logTopics = IF c.logTopics = {}
                     THEN DefaultTopics(id, DefaultLogKinds) ELSE c.logTopics]

(* validate: both URLs are given. *)
validate(c) == c.rwURL /\ c.lokiURL

-----------------------------------------------------------------------------
(* Routing of a message *)

(* topicKind: what follows the first dot must be one of the kinds. *)
topicKind(topic) ==
  IF Len(topic) = 2 /\ topic[2] \in MessageKinds THEN topic[2] ELSE "unknown"

(* buildTopicSet trims the configured names. *)
buildTopicSet(topics) == {t.topic : t \in topics}

(* What Parse makes of a payload that decodes: the number of samples, and
   whether there is a log entry.  readings is the number of numeric entries of
   MetricList, components the size of ComponentHealthMap. *)
MetricsIn(topic, payload) ==
  CASE topicKind(topic) = "telemetry" -> payload.readings
    [] topicKind(topic) = "health" -> 2 + payload.components
    [] OTHER -> 0
HasLogEntry(topic) == topicKind(topic) \in {"alerts", "auditlogs", "inventory"}
ParseFails(topic, payload) == topicKind(topic) = "unknown" \/ ~payload.valid

(* processMessage: the samples and the log entries a message that parses puts
   into the two forwarders; c has been through applyDefaults. *)
ToMetrics(c, topic, payload) ==
  IF topic \in buildTopicSet(c.metricsTopics) THEN MetricsIn(topic, payload) ELSE 0
ToLog(c, topic) == topic \in buildTopicSet(c.logTopics) /\ HasLogEntry(topic)

Destinations(c, topic, payload) ==
  IF ParseFails(topic, payload) THEN {}
  ELSE (IF ToMetrics(c, topic, payload) > 0 THEN {"remote_write"} ELSE {})
       \cup (IF ToLog(c, topic) THEN {"loki"} ELSE {})
=============================================================================
