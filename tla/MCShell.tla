------------------------------ MODULE MCShell ------------------------------
(* A screen of three lines of three characters.                               *)
EXTENDS Shell

SmallPrompt == <<">">>
SmallOutputs ==
  { <<>>, <<"a", "newline">>, <<"a", "newline", "a", "a", "newline">>,
    <<"a", "newline", "a", "newline", "demo">> }

=============================================================================
