------------------------------ MODULE Relabel ------------------------------
(***************************************************************************)
(* internal/relabel: one Apply of a compiled rule list to the labels of a  *)
(* sample or of a log entry, as the two flush functions call it, one rule  *)
(* a step and the labelmap loop one key a step.                            *)
(*                                                                         *)
(* A label set is a function from names to values.  A string put together  *)
(* from several is the sequence of its parts; what a regular expression    *)
(* matches and replaces is the regexp package's, a parameter.  A rule is   *)
(* what the configuration file says, Unset for a field it leaves out; a    *)
(* target_label left out is the empty one for both programs.               *)
(***************************************************************************)
EXTENDS Integers, Sequences, Functions

CONSTANTS
  Cases,                     \* what Apply is called with: own, extra, name, rules
  Unset,
  MatchString(_, _),         \* regular expression, parts of the string
  ReplaceAllString(_, _, _), \* regular expression, replacement, parts of the string
  LabelNames                 \* the names that Prometheus takes for a label's

VARIABLES
  call,     \* the case
  rules,    \* compiled rules still to be applied
  labels,   \* the map that Apply works on
  verdict,  \* "running", then whether the sample is kept or dropped
  ranging,  \* inside labelmap's loop
  ahead,    \* keys the loop still has to visit
  fresh     \* keys inserted by the loop, which it may visit or not

vars == <<call, rules, labels, verdict, ranging, ahead, fresh>>

(* The labels of l, except where over has one of that name *)
Override(l, over) ==
  [k \in DOMAIN l \cup DOMAIN over |-> IF k \in DOMAIN over THEN over[k] ELSE l[k]]
Set(l, k, v) == Override(l, [n \in {k} |-> v])
Delete(l, keys) == Restrict(l, DOMAIN l \ keys)
Get(l, k) == IF k \in DOMAIN l THEN l[k] ELSE ""

(* The forwarder's map: a label of its own goes before an extra label. *)
Merge(c) ==
  LET l == Override(c.extra, c.own) IN IF c.name = "" THEN l ELSE Set(l, "__name__", c.name)

(* A field that the file leaves out is the empty string, *)
Field(f) == IF f = Unset THEN "" ELSE f
(* and New replaces the empty string, left out or written down. *)
OrDefault(f, default) == IF Field(f) = "" THEN default ELSE f
AnyString == "(.*)"
FirstGroup == "$1"
Semicolon == ";"
Compiled(r) ==
  [action |-> Field(r.action), source |-> r.source, target |-> r.target,
   regex |-> OrDefault(r.regex, AnyString),
   replacement |-> OrDefault(r.replacement, FirstGroup),
   separator |-> OrDefault(r.separator, Semicolon)]

Init ==
  /\ call \in Cases
  /\ rules = [i \in DOMAIN call.rules |-> Compiled(call.rules[i])]
  /\ labels = Merge(call)
  /\ verdict = "running" /\ ranging = FALSE /\ ahead = {} /\ fresh = {}

rule == Head(rules)
At(actions) == verdict = "running" /\ rules # <<>> /\ ~ranging /\ rule.action \in actions
NextRule == rules' = Tail(rules)

joinValues(l, keys, sep) ==
  [i \in 1..(IF keys = <<>> THEN 0 ELSE 2 * Len(keys) - 1) |->
     IF i % 2 = 0 THEN sep ELSE Get(l, keys[(i + 1) \div 2])]
val == joinValues(labels, rule.source, rule.separator)
Matches(k) == MatchString(rule.regex, <<k>>)

Discards_Match(action, match) == match
Discards(action, match) == IF action = "drop" THEN match ELSE ~match

DropOrKeep ==
  /\ At({"drop", "keep"})
  /\ IF Discards(rule.action, MatchString(rule.regex, val))
     THEN verdict' = "dropped" /\ UNCHANGED rules
     ELSE NextRule /\ UNCHANGED verdict
  /\ UNCHANGED <<call, labels, ranging, ahead, fresh>>

Assign(l, k, v) == IF v = "" THEN Delete(l, {k}) ELSE Set(l, k, v)

Replace ==
  /\ At({"replace", ""})
  /\ labels' = IF MatchString(rule.regex, val) /\ rule.target # ""
               THEN Assign(labels, rule.target, ReplaceAllString(rule.regex, rule.replacement, val))
               ELSE labels
  /\ NextRule
  /\ UNCHANGED <<call, verdict, ranging, ahead, fresh>>

LabelmapStart ==
  /\ At({"labelmap"})
  /\ ranging' = TRUE /\ ahead' = DOMAIN labels /\ fresh' = {}
  /\ UNCHANGED <<call, rules, labels, verdict>>

(* A key that was there is visited once, in any order, with its value of that
   moment; one inserted meanwhile may be visited too. *)
LabelmapVisit ==
  \E k \in ahead \cup fresh :
    LET newKey == ReplaceAllString(rule.regex, rule.replacement, <<k>>) IN
    /\ ranging
    /\ ahead' = ahead \ {k}
    /\ IF Matches(k)
       THEN /\ labels' = Set(labels, newKey, labels[k])
            /\ fresh' = (fresh \cup ({newKey} \ DOMAIN labels)) \ {k}
       ELSE labels' = labels /\ fresh' = fresh \ {k}
    /\ UNCHANGED <<call, rules, verdict, ranging>>

LabelmapEnd ==
  /\ ranging /\ ahead = {}
  /\ ranging' = FALSE /\ fresh' = {}
  /\ NextRule
  /\ UNCHANGED <<call, labels, verdict, ahead>>

(* Deleting while ranging is harmless: the loops are one step. *)
LabelDropOrKeep ==
  /\ At({"labeldrop", "labelkeep"})
  /\ labels' = Restrict(labels, {k \in DOMAIN labels : Matches(k) <=> rule.action = "labelkeep"})
  /\ NextRule
  /\ UNCHANGED <<call, verdict, ranging, ahead, fresh>>

(* An action that the switch does not know changes nothing. *)
Ignored ==
  /\ verdict = "running" /\ rules # <<>> /\ ~ranging
  /\ rule.action \notin {"drop", "keep", "replace", "", "labelmap", "labeldrop", "labelkeep"}
  /\ NextRule
  /\ UNCHANGED <<call, labels, verdict, ranging, ahead, fresh>>

Return ==
  /\ verdict = "running" /\ rules = <<>>
  /\ verdict' = "kept"
  /\ UNCHANGED <<call, rules, labels, ranging, ahead, fresh>>

Next ==
  \/ DropOrKeep \/ Replace \/ LabelDropOrKeep \/ Ignored \/ Return
  \/ LabelmapStart \/ LabelmapVisit \/ LabelmapEnd

Spec == Init /\ [][Next]_vars

-----------------------------------------------------------------------------
(* Prometheus itself, which is no part of the repository: what it does with
   the actions that config.yaml names.  Its defaults stand in for fields that
   are left out only, it has no labels with an empty value, it expands groups
   in target_label too, and labelmap reads the labels the rule started with. *)

Present(l) == Restrict(l, {k \in DOMAIN l : l[k] # ""})
PromField(f, default) == IF f = Unset THEN default ELSE f
Action(r) == PromField(r.action, "replace")
Regex(r) == PromField(r.regex, AnyString)
Replacement(r) == PromField(r.replacement, FirstGroup)
Separator(r) == PromField(r.separator, Semicolon)
Subject(l, r) == joinValues(l, r.source, Separator(r))
Match(l, r) == MatchString(Regex(r), Subject(l, r))
Expand(l, r, template) == ReplaceAllString(Regex(r), template, Subject(l, r))
Hits(l, r) == {k \in DOMAIN l : MatchString(Regex(r), <<k>>)}
Image(r, k) == ReplaceAllString(Regex(r), Replacement(r), <<k>>)
OneToOne(l, r) == \A j, k \in Hits(l, r) : Image(r, j) = Image(r, k) => j = k

(* The rules of these actions that it loads *)
Loads(r) ==
  /\ Action(r) \in {"drop", "keep", "replace", "labelmap", "labeldrop", "labelkeep"}
  /\ Action(r) = "replace" => r.target # ""
  /\ Action(r) = "labelmap" => Replacement(r) # ""
  /\ Action(r) \in {"labeldrop", "labelkeep"} =>
       r.source = <<>> /\ r.target = "" /\ Replacement(r) = FirstGroup /\ Separator(r) = Semicolon

PromReplace(l, r) ==
  LET target == Expand(l, r, r.target)
      value == Expand(l, r, Replacement(r))
  IN IF ~Match(l, r) \/ target \notin LabelNames THEN l
     ELSE IF value = "" THEN Delete(l, {target}) ELSE Set(l, target, value)
Mapped(l, r) == [n \in {Image(r, k) : k \in Hits(l, r)} |-> l[CHOOSE k \in Hits(l, r) : Image(r, k) = n]]
PromStep(l, r) ==
  CASE Action(r) = "labelmap" -> Override(l, Mapped(l, r))
    [] Action(r) = "labeldrop" -> Delete(l, Hits(l, r))
    [] Action(r) = "labelkeep" -> Restrict(l, Hits(l, r))
    [] Action(r) = "replace" -> PromReplace(l, r)
    [] Action(r) \in {"drop", "keep"} -> l
PromKeeps(l, r) == (Action(r) = "drop" => ~Match(l, r)) /\ (Action(r) = "keep" => Match(l, r))

Outcome(verd, l) == [verdict |-> verd, labels |-> l]
PromOutcome(before, r) ==
  IF before.verdict = "dropped" THEN before
  ELSE Outcome(IF PromKeeps(before.labels, r) THEN "kept" ELSE "dropped", PromStep(before.labels, r))
(* after each number of rules *)
Prometheus ==
  LET after[i \in 0..Len(call.rules)] ==
        IF i = 0 THEN Outcome("kept", Present(Merge(call)))
        ELSE PromOutcome(after[i - 1], call.rules[i])
  IN after

(* Apply has kept what Prometheus keeps, with the same labels. *)
SameAs(prometheus) ==
  /\ verdict = prometheus.verdict
  /\ verdict = "kept" => Present(labels) = prometheus.labels

(* A rule that means the same to both: no field is written down as empty,
   target_label has no group in it and is a label's name, and the names that
   labelmap makes are not mapped again and come from one label each. *)
MeansTheSame(l, r) ==
  /\ Loads(r)
  /\ "" \notin {r.action, r.regex, r.replacement, r.separator}
  /\ Action(r) = "replace" => Expand(l, r, r.target) = r.target /\ r.target \in LabelNames
  /\ Action(r) = "labelmap" => /\ OneToOne(l, r)
                              /\ \A k \in Hits(l, r) : ~MatchString(Regex(r), <<Image(r, k)>>)

(* labelmap maps a label with an empty value that Prometheus does not have. *)
Labelmaps == \E i \in DOMAIN call.rules : Action(call.rules[i]) = "labelmap"
EmptyHarmless == Labelmaps => Present(Merge(call)) = Merge(call)

(* The first n rules mean the same, to labels with no empty value if need be. *)
Comparable(n) ==
  /\ EmptyHarmless
  /\ \A i \in 1..n : Prometheus[i - 1].verdict = "kept" =>
                        MeansTheSame(Prometheus[i - 1].labels, call.rules[i])

(* Properties *)

(* Apply keeps and drops what Prometheus keeps and drops, and what is kept has
   the labels that Prometheus gives it, in whatever order the map is ranged
   over, for rule lists of the documented actions that mean the same to both. *)
LikePrometheus ==
  verdict # "running" /\ Comparable(Len(call.rules)) => SameAs(Prometheus[Len(call.rules)])

(* The package comment's "Prometheus-compatible relabeling": Apply does what
   Prometheus does with any rules of the documented actions that Prometheus
   loads, as long as labelmap makes each name from one label. *)
PrometheusCompatible ==
  /\ verdict # "running"
  /\ \A i \in DOMAIN call.rules :
       LET r == call.rules[i] IN
       Loads(r) /\ (Action(r) = "labelmap" => OneToOne(Prometheus[i - 1].labels, r))
  => SameAs(Prometheus[Len(call.rules)])
=============================================================================
