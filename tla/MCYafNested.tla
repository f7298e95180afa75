---------------------------- MODULE MCYafNested ----------------------------
(* A small instance of YafNested: see Nested.cfg and NestedView.cfg. *)
EXTENDS YafNested, TLC

\* The request objects are alike.
RequestSymmetry == Permutations(Requests)
=============================================================================
