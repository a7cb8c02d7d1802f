----------------------------- MODULE LokiWriter -----------------------------
(***************************************************************************)
(* lokiwriter.Push up to the request body: entries are grouped into        *)
(* streams under the fingerprint of their labels, one entry a step.        *)
(*                                                                         *)
(* Label names and values are sequences of characters, since the           *)
(* fingerprint joins them; an entry's line and time are one model value.   *)
(***************************************************************************)
EXTENDS Integers, Sequences, SequencesExt

CONSTANTS
  Batches,  \* what Push is called with: sequences of entries
  Names     \* label names in the order of sort.Strings

VARIABLES
  entries,  \* the argument of Push
  n,        \* entries grouped so far
  grouped,  \* fingerprint to stream
  body      \* the streams of the request, in an order of the map's choice

vars == <<entries, n, grouped, body>>

(* What ends a name and a value in the fingerprint *)
Equals == "="
Comma == ","

Pair_NoEquals(k, v) == k \o v \o <<Comma>>
Pair(k, v) == k \o <<Equals>> \o v \o <<Comma>>

Piece(labels, k) == IF k \in DOMAIN labels THEN Pair(k, labels[k]) ELSE <<>>

(* The labels from each name on, joined in the order of the names *)
JoinedFrom(labels) ==
  LET from[i \in 1..(Len(Names) + 1)] ==
        IF i > Len(Names) THEN <<>>
        ELSE Piece(labels, Names[i]) \o from[i + 1]
  IN from
fingerprint(labels) == JoinedFrom(labels)[1]

Init == entries \in Batches /\ n = 0 /\ grouped = <<>> /\ body = <<>>

GroupEntry ==
  LET e == entries[n + 1]
      fp == fingerprint(e.labels)
      s == IF fp \in DOMAIN grouped THEN grouped[fp] ELSE [labels |-> e.labels, values |-> <<>>]
      added == [labels |-> s.labels, values |-> Append(s.values, e.line)]
  IN
  /\ n < Len(entries)
  /\ grouped' = [k \in DOMAIN grouped \cup {fp} |-> IF k = fp THEN added ELSE grouped[k]]
  /\ n' = n + 1
  /\ UNCHANGED <<entries, body>>

Encode ==
  /\ n = Len(entries) /\ body = <<>> /\ entries # <<>>
  /\ body' \in SetToSeqs({grouped[fp] : fp \in DOMAIN grouped})
  /\ UNCHANGED <<entries, n, grouped>>

Next == GroupEntry \/ Encode

Spec == Init /\ [][Next]_vars

-----------------------------------------------------------------------------
(* Properties *)

(* How many of the first k entries have these labels: the line of the k-th
   entry has this number in the stream of its labels. *)
Count(labels, k) == Cardinality({j \in 1..k : entries[j].labels = labels})

(* The request has one stream for each label set of the batch, and it holds
   the lines of the entries with these labels, all of them and in their order:
   no line is sent under another entry's labels.  It takes that no value has a
   comma in it: what comes after one reads like the next label. *)
NoComma == \A i \in DOMAIN entries : \A k \in DOMAIN entries[i].labels :
             Comma \notin Range(entries[i].labels[k])
StreamsAreLabelSets ==
  body # <<>> /\ NoComma =>
    /\ {body[i].labels : i \in DOMAIN body} = {entries[j].labels : j \in DOMAIN entries}
    /\ \A i, j \in DOMAIN body : body[i].labels = body[j].labels => i = j
    /\ \A i \in DOMAIN body :
         /\ Len(body[i].values) = Count(body[i].labels, Len(entries))
         /\ \A j \in DOMAIN entries :
              entries[j].labels = body[i].labels =>
                body[i].values[Count(body[i].labels, j)] = entries[j].line
=============================================================================
