------------------------------- MODULE MCDriver -------------------------------
(***************************************************************************)
(* Two runs over a source file with four contents: two that compile, one   *)
(* the analyzer or the generator refuses, and one the parser refuses.      *)
(***************************************************************************)
EXTENDS Driver, TLC

CONSTANTS old, new, bad, broken

AllSources == {old, new, bad, broken}
AllVerdicts == (old :> "code") @@ (new :> "code") @@ (bad :> "no code") @@ (broken :> "syntax error")
=============================================================================
