----------------------------- MODULE MCYafPage -----------------------------
(* A small instance of YafPage: see Page.cfg. *)
EXTENDS YafPage
=============================================================================
