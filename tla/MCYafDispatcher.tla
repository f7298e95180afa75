-------------------------- MODULE MCYafDispatcher --------------------------
(***************************************************************************)
(* Small instances of YafDispatcher.  Two registered modules (Index, the   *)
(* default, and Admin), a module name nobody registered (Ghost), and each  *)
(* name in two spellings.                                                  *)
(***************************************************************************)
EXTENDS YafDispatcher, TLC

MCNames == {"Index", "index", "Admin", "admin", "Error", "error", "Ghost", "ghost"}

MCCanon ==
  [n \in MCNames |-> CASE n \in {"Index", "index"} -> "Index"
                       [] n \in {"Admin", "admin"} -> "Admin"
                       [] n \in {"Error", "error"} -> "Error"
                       [] n \in {"Ghost", "ghost"} -> "Ghost"]

MCLower ==
  [n \in MCNames |-> CASE n \in {"Index", "index"} -> "index"
                       [] n \in {"Admin", "admin"} -> "admin"
                       [] n \in {"Error", "error"} -> "error"
                       [] n \in {"Ghost", "ghost"} -> "ghost"]

MCModules == {"Index", "Admin"}

To(m, c, a) == [module |-> m, controller |-> c, action |-> a]

\* What is on disk, as a function from <<module, controller>>.
Disk(f) ==
  [mc \in MCNames \X MCNames |-> IF mc \in DOMAIN f THEN f[mc] ELSE "missing"]

\* Both modules have an IndexController; only Index has an ErrorController.
DiskFailover ==
  Disk(<<"Index", "Index">> :> "controller" @@ <<"Index", "Error">> :> "controller"
       @@ <<"Admin", "Admin">> :> "controller")

\* Only Admin, which is not the default, has an ErrorController.
DiskAdminError ==
  Disk(<<"Index", "Index">> :> "controller" @@ <<"Admin", "Admin">> :> "controller"
       @@ <<"Admin", "Error">> :> "controller" @@ <<"Index", "Admin">> :> "noclass")

\* Both modules have an IndexController of the same class name.
DiskTwins ==
  Disk(<<"Index", "Index">> :> "controller" @@ <<"Admin", "Index">> :> "controller"
       @@ <<"Index", "Error">> :> "controller")

\* A script declares its class without extending Yaf_Controller_Abstract.
DiskImpostor ==
  Disk(<<"Index", "Index">> :> "notcontroller" @@ <<"Index", "Error">> :> "controller")

\* Routes: the default names, and a module without the requested controller.
RoutesDefault == {To("NoName", "NoName", "NoName")}

RoutesFailing == {To("NoName", "NoName", "NoName"), To("Admin", "Ghost", "index"),
                  To("ghost", "Keep", "Keep")}

\* forward("index") and forward("admin", "admin", "admin")
TargetsForward == {To("Keep", "Keep", "index"), To("admin", "admin", "admin")}

TargetsOne == {To("Keep", "Admin", "Index")}

TargetsModule == {To("Admin", "Index", "index"), To("Keep", "Keep", "index")}

=============================================================================
