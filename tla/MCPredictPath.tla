---------------------------- MODULE MCPredictPath ----------------------------
(* Small instances of PredictPath.                                           *)
EXTENDS PredictPath, TLC

CONSTANTS m1, i1, i2   \* model values

Centimetres(n) == [kind |-> "num", cm |-> n]

\* A flower at both inclusive bounds; the same with one feature wrong, each in another way; and a
\* body that does not parse, as a NaN or too large a number does not.
Flower == [sepal_length |-> Centimetres(50), sepal_width |-> Centimetres(0),
           petal_length |-> Centimetres(0), petal_width |-> Centimetres(50)]
MCValidIris == {[json |-> TRUE, features |-> Flower]}
MCIrisBodies ==
    {[json |-> j, features |-> Flower] : j \in BOOLEAN}
    \cup {[json |-> TRUE, features |-> f] :
             f \in {[Flower EXCEPT !.sepal_length.kind = "absent"], [Flower EXCEPT !.sepal_width = Centimetres(-1)],
                    [Flower EXCEPT !.petal_length = Centimetres(51)], [Flower EXCEPT !.petal_width = Centimetres(51)]}}

\* Prompts around the limit (MaxPromptLen = 2), with and without anything but white space, and
\* a body that does not parse.
MCAllPromptBodies ==
    {b \in [json : {TRUE}, runes : 0..3, blank : BOOLEAN] : b.runes = 0 => b.blank}
    \cup {[json |-> FALSE, runes |-> 0, blank |-> TRUE]}

\* The bodies that travel furthest, for the timing questions.
MCValidPrompts == {[json |-> TRUE, runes |-> 2, blank |-> FALSE]}

\* Iris requests are interchangeable: used with state invariants only.
IrisSymmetry == Permutations(IrisRequests)
=============================================================================
