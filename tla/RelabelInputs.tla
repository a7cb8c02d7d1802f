--------------------------- MODULE RelabelInputs ---------------------------
(* Rule lists over a small label vocabulary, for Relabel *)
EXTENDS Integers, Sequences

CONSTANT Unset \* a field that a rule leaves out

(* The regular expressions used here, by the strings of the vocabulary that
   they match, and their first group *)
Stripped == [a_x |-> "x", a_y |-> "y", a_a_x |-> "a_x"]
Match(re, s) ==
  CASE re = "(.*)" -> TRUE
    [] re = "critical" -> s = <<"critical">>
    [] re = "ome_internal_.*" -> FALSE
    [] re = "1;(.*)" -> Len(s) = 3 /\ s[1] = "1"
    [] re = "a_(.*)" -> Len(s) = 1 /\ s[1] \in DOMAIN Stripped
Group(re, s) ==
  CASE re = "a_(.*)" -> Stripped[s[1]]
    [] re = "1;(.*)" -> s[3]
    [] OTHER -> IF Len(s) = 1 THEN s[1] ELSE ""
ReplaceAll(re, replacement, s) ==
  IF replacement = "$1" THEN Group(re, s) ELSE replacement

Rule(action, source, regex, target) ==
  [action |-> action, source |-> source, regex |-> regex, target |-> target,
   separator |-> Unset, replacement |-> Unset]

SomeRules ==
  {Rule("drop", <<"a_x">>, "critical", ""), Rule("keep", <<"x">>, "critical", ""),
   Rule("keep", <<>>, Unset, ""),
   Rule("replace", <<"a_x">>, Unset, "y"), Rule(Unset, <<"a_x", "a_y">>, "1;(.*)", "x"),
   [Rule("replace", <<"y">>, Unset, "z") EXCEPT !.replacement = "critical"],
   [Rule("replace", <<"a_y">>, Unset, "a_y") EXCEPT !.replacement = ""],
   Rule("labelmap", <<>>, "a_(.*)", ""), Rule("labeldrop", <<>>, "a_(.*)", ""),
   Rule("labelkeep", <<>>, "a_(.*)", ""), Rule("hashmod", <<"a_x">>, Unset, "y")}

Case(own, extra, name, rs) == [own |-> own, extra |-> extra, name |-> name, rules |-> rs]

UpTo3Rules ==
  {Case(own, extra, name, rs) :
     own \in {[a_x |-> v, a_y |-> w] : v, w \in {"1", "critical"}}
             \cup {[a_x |-> "1", y |-> "2"], [a_a_x |-> "1", a_y |-> "2"], [a_x |-> "", x |-> "critical"]},
     extra \in {[a_x |-> "3", site |-> "4"]}, name \in {"m", ""},
     rs \in UNION {[1..n -> SomeRules] : n \in 0..3}}

(* Rules with no field that is written down as empty, and which Prometheus
   loads *)
FilledRules == {rule \in SomeRules : rule.action # "hashmod" /\ rule.replacement # ""}
UpTo2FilledRules ==
  {Case(own, [site |-> "4"], name, rs) :
     own \in {[a_x |-> "1", a_y |-> "critical"], [a_a_x |-> "1", a_y |-> "2"]}, name \in {"m", ""},
     rs \in UNION {[1..n -> FilledRules] : n \in 0..2}}

PrometheusNames == {"a_x", "a_y", "a_a_x", "x", "y", "z", "site", "critical", "__name__"}
=============================================================================
