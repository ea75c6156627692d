----------------------------- MODULE MCTemplate -----------------------------
(* Template over three families of files: references among three names in *)
(* every shape, placeholders of every kind in the body and in             *)
(* compositions, and definitions of strings and floats with any numbers.  *)
EXTENDS Template, TLC

CONSTANTS a, b, c, envSet, envUnset

MCNames == {a, b, c}
MCEnvNames == {envSet, envUnset}
MCEnvSet == {envSet}

Ref(n, global) == [name |-> n, global |-> global]

Text(exact, min, max, upper, lower, choice) ==
    [type |-> "string", exact |-> exact, min |-> min, max |-> max,
     upper |-> upper, lower |-> lower, choice |-> choice]

Word == Text(None, None, None, 0, 0, "some")

Object(composition) == [type |-> "object", composition |-> composition]

FileOf(body, defs) == [wellFormed |-> TRUE, body |-> body, defs |-> defs]

\* Any references among the names, some of them not defined.
GraphFiles ==
    {FileOf({Ref(n, g) : n \in body}, defs) :
        body \in {{a}, {a, b}}, g \in BOOLEAN,
        defs \in UNION {[defined -> {Word} \cup
                            {Object({Ref(n, FALSE) : n \in ns}) : ns \in SUBSET MCNames}] :
                        defined \in {{a}, {a, b}, {a, b, c}}}}

\* Bodies with one name in both forms, with variables, and without a
\* definition; compositions that say :global, name a variable or no name.
BodyFiles ==
    {FileOf(body, (a :> Word) @@ (b :> Object(refs))) :
        body \in SUBSET {Ref(a, FALSE), Ref(a, TRUE), Ref(b, FALSE),
                         Ref(envSet, FALSE), Ref(envUnset, TRUE), Ref(c, FALSE)},
        refs \in {{}, {Ref(a, TRUE)}, {Ref(envSet, FALSE)}, {Malformed}}}

OneDef(raw) == FileOf({Ref(a, FALSE)}, a :> raw)

TextFiles ==
    {OneDef(Text(exact, min, max, upper, lower, "none")) :
        exact \in {None, -1, 0, 5, 8}, min \in {None, -2, 0, 3, 4}, max \in {None, 1, 4, 7, 12},
        upper \in {0, 1, 2, 4}, lower \in {0, 1, 3, 4}}

\* Bounds in hundredths, rounded to 2, 1 or no decimals.
FloatFiles ==
    {OneDef([type |-> "float", exact |-> exact, min |-> min, max |-> max, unit |-> unit]) :
        exact \in {None, 155}, min \in {None, -150, -55, 0, 100}, max \in {None, -100, 60, 200},
        unit \in {1, 10, 100}}

MCFiles ==
    GraphFiles \cup BodyFiles \cup TextFiles \cup FloatFiles
        \cup {[OneDef(Word) EXCEPT !.wellFormed = FALSE], OneDef(Text(None, None, None, 0, 0, "empty"))}
=============================================================================
