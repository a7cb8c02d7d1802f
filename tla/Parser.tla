------------------------------- MODULE Parser -------------------------------
(***************************************************************************)
(* internal/parser: one Parse of a message, from the decoded JSON to the   *)
(* samples or the log entry, one reading or component a step.              *)
(*                                                                         *)
(* Label maps are Go maps, shared by whoever holds a reference: heap holds *)
(* the maps, a sample the index of its own.  A metric name and a severity  *)
(* are sequences of characters, a MetricValue is what toFloat64 can tell.  *)
(***************************************************************************)
EXTENDS Integers, Sequences, FiniteSets

CONSTANTS
  Messages,    \* payloads: topic, kind, decodes, time, and the fields of its kind
  Lower,       \* upper-case letters to lower-case letters
  NameChars,   \* lower-case letters, digits and underscore
  Unparsable,  \* a Timestamp in none of the formats
  Now          \* time.Now()

VARIABLES
  msg,    \* the message
  heap,   \* label maps; the first is baseLabels
  todo,   \* readings (a sequence) or components (a set) still to be visited
  out,    \* out.Metrics: name, value, ts and the index of the labels
  entry,  \* LogEntry: stream labels and timestamp, none before it is made
  result  \* "start", "running", then "parsed" or "error"

vars == <<msg, heap, todo, out, entry, result>>

(* baseLabels of parseTelemetry and parseHealth *)
BaseLabels(m) ==
  [device_id |-> m.id, device_name |-> m.device, service_tag |-> m.tag, model |-> m.model,
   device_type |-> m.type, ip_address |-> m.ip, topic |-> m.topic]

ToLower(s) == [i \in DOMAIN s |-> IF s[i] \in DOMAIN Lower THEN Lower[s[i]] ELSE s[i]]

(* StreamLabels of parseAlert, parseAuditLog and parseInventory *)
StreamLabels(m) ==
  CASE m.kind = "alerts" ->
         [topic |-> m.topic, job |-> "ome_alerts", severity |-> ToLower(m.severity),
          category |-> m.category, sub_category |-> m.sub, device_name |-> m.device,
          service_tag |-> m.tag, device_type |-> "server"]
    [] m.kind = "auditlogs" ->
         [topic |-> m.topic, job |-> "ome_auditlogs", severity |-> ToLower(m.severity),
          category |-> m.category, sub_category |-> m.sub, username |-> m.user,
          ip_address |-> m.ip]
    [] m.kind = "inventory" ->
         [topic |-> m.topic, job |-> "ome_inventory", device_name |-> m.device,
          service_tag |-> m.tag, model |-> m.model, device_type |-> m.type,
          ip_address |-> m.ip]

parseOMETime(t) == IF t = Unparsable THEN Now ELSE t

(* toFloat64: a number, or a string whose first field begins with one *)
Numeric(v) == v.type = "number" \/ (v.type = "string" /\ v.fields # <<>> /\ Head(v.fields).numeric)
toFloat64(v) == IF v.type = "number" THEN v.number ELSE Head(v.fields).number

(* sanitizeMetricName of what follows "ome_telemetry_" *)
sanitizeMetricName(name) ==
  ToLower([i \in DOMAIN name |->
             IF name[i] \in NameChars \cup DOMAIN Lower THEN name[i] ELSE "_"])

(* copyLabels: the heap and the index of the copy *)
copyLabels_Alias(h, a) == [heap |-> h, at |-> a]
copyLabels(h, a) == [heap |-> Append(h, h[a]), at |-> Len(h) + 1]

(* Labels with others set in them *)
Extended(labels, own) ==
  [k \in DOMAIN labels \cup DOMAIN own |-> IF k \in DOMAIN own THEN own[k] ELSE labels[k]]

(* A sample with a copy of baseLabels and extra labels of its own *)
AddSample(name, value, own) ==
  LET c == copyLabels(heap, 1) IN
  /\ heap' = [c.heap EXCEPT ![c.at] = Extended(@, own)]
  /\ out' = Append(out, [name |-> name, value |-> value, at |-> c.at, ts |-> parseOMETime(msg.time)])

Init ==
  /\ msg \in Messages
  /\ heap = <<>> /\ todo = <<>> /\ out = <<>> /\ entry = <<>>
  /\ result = "start"

Unmarshal ==
  /\ result = "start"
  /\ IF msg.kind = "unknown" \/ ~msg.decodes
     THEN result' = "error" /\ UNCHANGED <<heap, todo>>
     ELSE /\ result' = "running"
          /\ CASE msg.kind = "telemetry" -> heap' = <<BaseLabels(msg)>> /\ todo' = msg.readings
               [] msg.kind = "health" -> heap' = <<BaseLabels(msg)>> /\ todo' = DOMAIN msg.components
               [] OTHER -> UNCHANGED <<heap, todo>>
  /\ UNCHANGED <<msg, out, entry>>

UnitLabel(r) == IF r.unit = "" THEN <<>> ELSE [unit |-> r.unit]

(* parseTelemetry: a reading that is not numeric is passed over. *)
Reading ==
  /\ result = "running" /\ msg.kind = "telemetry" /\ todo # <<>>
  /\ IF Numeric(Head(todo).value)
     THEN AddSample(sanitizeMetricName(Head(todo).name), toFloat64(Head(todo).value),
                    UnitLabel(Head(todo)))
     ELSE UNCHANGED <<heap, out>>
  /\ todo' = Tail(todo)
  /\ UNCHANGED <<msg, entry, result>>

(* parseHealth: the two statuses, then the components in any order *)
Rollup ==
  /\ result = "running" /\ msg.kind = "health" /\ Len(out) < 2
  /\ IF out = <<>> THEN AddSample("rollup_status", msg.rollup, <<>>)
     ELSE AddSample("power_state", msg.power, <<>>)
  /\ UNCHANGED <<msg, todo, entry, result>>

Component ==
  /\ result = "running" /\ msg.kind = "health" /\ Len(out) >= 2
  /\ \E c \in todo : /\ AddSample("component_status", msg.components[c], [component |-> c])
                     /\ todo' = todo \ {c}
  /\ UNCHANGED <<msg, entry, result>>

Logs == {"alerts", "auditlogs", "inventory"}

MakeEntry ==
  /\ result = "running" /\ msg.kind \in Logs
  /\ entry' = [labels |-> StreamLabels(msg), ts |-> parseOMETime(msg.time)]
  /\ result' = "parsed"
  /\ UNCHANGED <<msg, heap, todo, out>>

Return ==
  /\ result = "running"
  /\ \/ msg.kind = "telemetry" /\ todo = <<>>
     \/ msg.kind = "health" /\ Len(out) >= 2 /\ todo = {}
  /\ result' = "parsed"
  /\ UNCHANGED <<msg, heap, todo, out, entry>>

Next == Unmarshal \/ Reading \/ Rollup \/ Component \/ MakeEntry \/ Return

Spec == Init /\ [][Next]_vars

-----------------------------------------------------------------------------
(* Properties *)

Labels(s) == heap[s.at]
(* How many of the first k readings are numeric: the sample of the k-th reading,
   if it is numeric, is the sample with this number. *)
Rank(k) == Cardinality({j \in 1..k : Numeric(msg.readings[j].value)})

(* The samples of a telemetry message are its numeric readings, in order and
   each under the device's labels and its own unit: the label of one reading
   never shows up in the sample of another. *)
ReadingsKeepTheirLabels ==
  msg.kind = "telemetry" =>
    /\ Len(out) <= Rank(Len(msg.readings))
    /\ result = "parsed" => Len(out) = Rank(Len(msg.readings))
    /\ \A k \in DOMAIN msg.readings :
         LET r == msg.readings[k]
             s == out[Rank(k)]
         IN Numeric(r.value) /\ Rank(k) <= Len(out) =>
              /\ s.value = toFloat64(r.value)
              /\ Labels(s) = Extended(BaseLabels(msg), UnitLabel(r))

(* A health message has the two statuses of the device and every component's
   once, each under its own component, whatever the map's order. *)
ComponentsKeepTheirLabels ==
  msg.kind = "health" /\ result = "parsed" =>
    /\ Len(out) = 2 + Cardinality(DOMAIN msg.components)
    /\ \A s \in {out[1], out[2]} : Labels(s) = BaseLabels(msg)
    /\ \A c \in DOMAIN msg.components :
         \E i \in DOMAIN out : /\ out[i].value = msg.components[c]
                               /\ Labels(out[i]) = Extended(BaseLabels(msg), [component |-> c])
=============================================================================
