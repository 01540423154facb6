---------------------------- MODULE MCStreamPath ----------------------------
(* Small instances of StreamPath.                                           *)
EXTENDS StreamPath

CONSTANTS s1   \* a model value

Prompt(n, b) == [json |-> TRUE, runes |-> n, blank |-> b]

\* With MaxPromptLen = 2: a prompt both sides accept, a blank one that only
\* python-ai refuses, and one that is too long for the gateway.
MCPrompts == {Prompt(2, FALSE), Prompt(1, TRUE), Prompt(3, FALSE)}
=============================================================================
