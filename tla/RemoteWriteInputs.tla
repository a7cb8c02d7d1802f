------------------------- MODULE RemoteWriteInputs -------------------------
(* Requests of up to two series, for RemoteWrite; a string of 130 bytes has a
   length that takes two bytes. *)
EXTENDS Integers, Sequences

Long == [i \in 1..130 |-> 65 + (i % 26)]
Strings == {<<>>, <<97>>, Long}
Labels == [name : Strings, value : {<<>>, <<200, 0>>, Long}]
Samples == {[value |-> [i \in 1..8 |-> i * 30], ts |-> t] : t \in {0, 127, 128, 70000, -1, -200, -70000}}

Series(labels, samples) == [labels |-> labels, samples |-> samples]
OneSeries ==
  {Series(ls, <<s>>) : ls \in UNION {[1..k -> Labels] : k \in 0..2}, s \in Samples}
SmallSeries ==
  {Series(<<[name |-> nm, value |-> <<200, 0>>]>>, ss) :
     nm \in Strings, ss \in {<<>>} \cup {<<s, t>> : s, t \in Samples}}

Requests == {<<>>} \cup {<<s>> : s \in OneSeries \cup SmallSeries} \cup {<<s, t>> : s, t \in SmallSeries}
=============================================================================
