------------------------------ MODULE MCReport ------------------------------
(* Report for runs of single requests and of two scenarios with three       *)
(* steps, over two stages: a step with a response template beside one       *)
(* without, templates whose labels coincide, a skipped step, every way for  *)
(* a body to be lost, and bodies that hold strings and numbers.             *)
EXTENDS Report

CONSTANTS buy, browse, one, two

Flat == << <<"a", ".", "b">> >>
Deep == << <<"a">>, <<"b">> >>
Price == << <<"p">> >>

Field(path, text) == [path |-> path, text |-> text]
Holds(kind, value) == [kind |-> kind, value |-> value]

Strings == <<Field(Deep, "STRING"), Field(Flat, "STRING"), Field(Price, "FLOAT")>>
Mixed == <<Field(Deep, "STRING"), Field(Price, "plain"), Field(Flat, "FLOAT")>>
Priced == <<Field(Price, "FLOAT")>>
Refused == <<Field(Price, "FLOAT"), Field(Deep, "UNKNOWN")>>
Untracked == <<Field(Price, "plain")>>

Single(t) == <<None, None>> :> t

Steps(first, second, third) ==
    (<<buy, one>> :> first) @@ (<<buy, two>> :> second) @@ (<<browse, one>> :> third)

MCTemplates ==
    {Single(t) : t \in {<<>>, Strings, Mixed, Refused, Untracked}} \cup
    {Steps(<<>>, <<>>, <<>>), Steps(Strings, <<>>, Priced), Steps(<<>>, Mixed, <<>>),
     Steps(Strings, Mixed, <<>>), Steps(Strings, Refused, <<>>)}

Answer(status, content, body, took, scenario, step, stage) ==
    [skipped |-> FALSE, sent |-> TRUE, status |-> status, content |-> content, body |-> body,
     took |-> took, scenario |-> scenario, step |-> step, stage |-> stage]

Text(deep, flat, price) ==
    (Deep :> Holds("string", deep)) @@ (Flat :> flat) @@ (Price :> Holds("number", price))

Full == Text("u", Holds("string", "v"), 5)
Other == Text("w", Holds("number", 3), 9)

MCInputs == {
    Answer(200, "json", Full, 0, None, None, 1),
    Answer(204, "json", Other, 2, None, None, 1),
    Answer(500, "json", Deep :> Holds("string", "v"), 7, None, None, 2),
    Answer(200, "oversized", <<>>, 12, None, None, 2),
    [Answer(200, "broken", <<>>, 3, None, None, 2) EXCEPT !.sent = FALSE],

    Answer(200, "json", Full, 0, buy, one, 1),
    Answer(204, "json", Other, 2, buy, two, 1),
    Answer(500, "json", Price :> Holds("number", 4), 7, browse, one, 2),
    Answer(200, "oversized", <<>>, 12, browse, one, 2),
    [Answer(200, "broken", <<>>, 3, buy, one, 2) EXCEPT !.sent = FALSE],
    [Answer(200, "text", <<>>, 1, buy, two, 2) EXCEPT !.sent = FALSE, !.skipped = TRUE]}

\* The documentation of quantile holds for as many samples as the code keeps:
\* "equivalent to the integer formula n * p / 100" (stats/distribution.rs:33).
ASSUME QuantileIsIntegerFormula ==
    \A n \in 1..10000 : \A p \in {50, 95, 99} : FloorOfProduct(n, p) = Portion(n, p)
=============================================================================
