---------------------------- MODULE ParserInputs ----------------------------
(* Messages of every kind, for Parser *)
EXTENDS Sequences, TLC

CONSTANT Unparsable \* a Timestamp in none of the formats

LowerCase == [A |-> "a", B |-> "b"]
AllowedChars == {"a", "b", "1", "_"}

Common(kind, decodes, time) ==
  [kind |-> kind, topic |-> "t", decodes |-> decodes, time |-> time, id |-> "1", device |-> "n",
   tag |-> "T", model |-> "m", type |-> "d", ip |-> "i", severity |-> <<"A", "b">>,
   category |-> "c", sub |-> "s", user |-> "u"]

Num(n) == [type |-> "number", number |-> n]
Text(fields) == [type |-> "string", fields |-> fields]
Values == {Num(1), Text(<<>>), Text(<<[numeric |-> FALSE], [numeric |-> TRUE, number |-> 2]>>),
           Text(<<[numeric |-> TRUE, number |-> 2], [numeric |-> FALSE]>>), [type |-> "other"]}
ReadingOf(name, v, unit) == [name |-> name, value |-> v, unit |-> unit]
Readings == {ReadingOf(name, v, unit) : name \in {<<"a">>, <<"1">>}, v \in Values, unit \in {"", "W", "C"}}

Telemetry(rs) ==
  [readings |-> rs] @@ Common("telemetry", TRUE, Unparsable)
Health(components) ==
  [rollup |-> 1000, power |-> 17, components |-> components] @@ Common("health", TRUE, "t1")

AllKinds ==
  {Telemetry(<<r, s>>) : r, s \in Readings}
  \cup {Telemetry(<<r, ReadingOf(<<"b">>, Num(3), ""), r>>) : r \in Readings}
  \cup {Health(c) : c \in UNION {[S -> {1000, 3000}] : S \in SUBSET {"fan", "psu", "cpu"}}}
  \cup {Common(k, TRUE, t) : k \in {"alerts", "auditlogs", "inventory", "unknown"}, t \in {"t1", Unparsable}}
  \cup {Common("alerts", FALSE, "t1")}
=============================================================================
