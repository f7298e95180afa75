---------------------------- MODULE MCYafConfig ----------------------------
(***************************************************************************)
(* Small instances of YafConfig: a section, one that inherits it, one that *)
(* inherits both, one that is declared again, and a caller that asks for   *)
(* a section in another case.                                              *)
(***************************************************************************)
EXTENDS YafConfig

Head1(s, p) == [name |-> s, parents |-> p]

MCHeaders == {Head1("a", <<>>), Head1("b", <<>>), Head1("b", <<"a">>), Head1("c", <<"b", "a">>)}

MCIndex == <<"0", "1">>

MCLower == ("a" :> "a") @@ ("b" :> "b") @@ ("c" :> "c") @@ ("B" :> "b")
============================================================================
