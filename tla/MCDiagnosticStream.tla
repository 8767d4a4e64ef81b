------------------------- MODULE MCDiagnosticStream -------------------------
(* Instances of DiagnosticStream for TLC. *)
EXTENDS DiagnosticStream

TwoChars == {"a", "b"}
Newline == "nl"
\* Half a line, and the end of one with another whole one.
SomeReads == {<<"a">>, <<Newline, "b", Newline>>}
\* A line; half of one, as the output of an earlier child may end.
SomePrints == {<<"b", Newline>>, <<"a">>}
TwoStatuses == {0, 3}
============================================================================
