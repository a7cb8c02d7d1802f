-------------------------- MODULE LokiWriterInputs --------------------------
(* Batches over label sets with up to two labels, for LokiWriter *)
EXTENDS Sequences, TLC

A == <<"a">>
B == <<"a", "b">>
SortedNames == <<A, B>>
LabelSets(values) == UNION {[S -> values] : S \in SUBSET {A, B}}
Entry(labels, line) == [labels |-> labels, line |-> line]

(* Values with a label's name and with the separators in them *)
Values == {<<>>, <<"1">>, <<"b">>, <<"b", "=", "1">>, <<"1", ",", "a", "b", "=", "1">>}
SomeBatches ==
  {<<Entry(l, 1), Entry(m, 2), Entry(k, 3)>> : l, m \in LabelSets(Values), k \in [{A} -> Values]}
=============================================================================
