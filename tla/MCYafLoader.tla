---------------------------- MODULE MCYafLoader ----------------------------
(***************************************************************************)
(* Small instances of YafLoader.  F, B and M stand for pieces of words: F_B *)
(* is Foo_Bar, FB_F is FooBar_Foo; FB begins with the name F and BF ends   *)
(* with it.                                                                *)
(***************************************************************************)
EXTENDS YafLoader, TLC

F_B  == <<"F", "_", "B">>
F    == <<"F">>
BF_F == <<"B", "F", "_", "F">>
F_N  == <<"F", "\\", "B">>
UserModel == <<"F", "Model">>

MCClasses == {F_B, F_N, BF_F, UserModel}

MCWords == {<<"F">>, <<"F", "B">>, <<"B", "F">>}

File(d, n) == [dir |-> d, name |-> n]
Holds(c, parent) == [class |-> c, parent |-> parent]

\* Foo/Bar.php of the local library extends a model, and so does not declare
\* its class at once.
MCDisk ==
  (File("local", <<"F", "/", "B">>) :> Holds(F_B, UserModel)) @@
  (File("global", <<"B", "F", "/", "F">>) :> Holds(BF_F, Null)) @@
  (File("models", <<"F">>) :> Holds(UserModel, Null))

MCDirs == {"local", "global"}
SameReal == [d \in MCDirs |-> d]

\* For the race.
RaceClasses == {F_B}
RaceWords == {<<"F">>}

\* A library behind a symbolic link.
LinkDirs == {"local", "global", "link"}
LinkReal == [d \in LinkDirs |-> IF d = "link" THEN "local" ELSE d]

\* A name that repeats a registered one, and names that begin with "_".
RepeatWords == {<<"F", "F">>}
UnderscoreClasses == {<<"_", "F">>}
=============================================================================
