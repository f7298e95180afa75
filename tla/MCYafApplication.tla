-------------------------- MODULE MCYafApplication --------------------------
(***************************************************************************)
(* Small instances of YafApplication: configurations with and without      *)
(* exceptions, with a bootstrap file of their own, and an invalid one.     *)
(***************************************************************************)
EXTENDS YafApplication, TLC

Config(v, t, b, d) == [valid |-> v, throwException |-> t, bootstrap |-> b, directory |-> d]

MCOptions ==
  {Config(TRUE, "unset", Null, "site"), Config(TRUE, "off", Null, "shop"),
   Config(TRUE, "on", "custom", "site"), Config(FALSE, "unset", Null, "site")}

MCScript == ("site" :> "bootstrap") @@ ("shop" :> "missing") @@ ("custom" :> "impostor")
=============================================================================
