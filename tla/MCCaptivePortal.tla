-------------------------- MODULE MCCaptivePortal --------------------------
(* A small instance of CaptivePortal: labels of one letter, two names of    *)
(* one and two labels, and a clock that wraps after six ticks.            *)
EXTENDS CaptivePortal

Sb    == <<<<98>>>>
Board == <<<<97>>, <<98>>>>
TwoNames == {Sb, Board}

RECURSIVE EncodeName(_)
EncodeName(labels) ==
    IF labels = <<>> THEN <<0>>
    ELSE <<Len(Head(labels))>> \o Head(labels) \o EncodeName(Tail(labels))

Question(h, labels, t) == <<h>> \o EncodeName(labels) \o <<t, 1>>

\* Questions for the two names and a third one, of three types; a response; one
\* with a record behind the question; one cut short; one with an empty name, and
\* one whose name is a pointer.
SomePackets ==
    {Question(QUERY, n, t) : n \in TwoNames \cup {<<<<97>>>>}, t \in {TypeA, 28, TypeANY}}
    \cup {Question(RESPONSE, Sb, TypeA), Question(QUERY, Sb, TypeA) \o <<0, 41>>,
          <<QUERY, 1, 97, 1>>, <<QUERY, 1, 98, 0>>, <<QUERY, 0, 1, 1>>,
          <<QUERY, Pointer, 2, 1, 1>>, <<QUERY, Pointer, 5, 1, 1>>}
=============================================================================
