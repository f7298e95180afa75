---------------------------- MODULE MCYafRouter ----------------------------
(***************************************************************************)
(* Small instances of YafRouter.  "admin" is a module, "use" is the        *)
(* beginning of "user", and "m", "c", "a" are also the variables that      *)
(* assemble() knows.                                                       *)
(***************************************************************************)
EXTENDS YafRouter, TLC

MCSegs == {"admin", "use", "user", "m", "c", "a", "x"}

MCBegins == {<<"use", "user">>}

Paths(S, n) == UNION {[1 .. k -> S] : k \in 0 .. n}

Lit(s) == [t |-> "lit", v |-> s]
Var(s) == [t |-> "var", v |-> s]
Star == [t |-> "rest", v |-> "x"]
NoDef == [t |-> "none", v |-> <<>>]
DefLit(s) == [t |-> "lit", v |-> <<s>>]
Def(m, c, a) == [module |-> m, controller |-> c, action |-> a]

Static == [kind |-> "static"]
Simple == [kind |-> "simple", m |-> "m", c |-> "c", a |-> "a"]
Supervar == [kind |-> "supervar", var |-> "r"]
Custom == [kind |-> "custom"]
MapRoute(prefer, delim) == [kind |-> "map", ctlPrefer |-> prefer, delim |-> delim]
Rewrite(pat, def) == [kind |-> "rewrite", pat |-> pat, def |-> def]
Regex(pat, map, def, reverse) ==
  [kind |-> "regex", pat |-> pat, map |-> map, def |-> def, reverse |-> reverse]

\* /use/:c/:a/* and /use, which also matches /user
UseRewrite == Rewrite(<<Lit("use"), Var("c"), Var("a"), Star>>,
                      Def(NoDef, Var("c"), Var("a")))
PrefixRewrite == Rewrite(<<Lit("use")>>, Def(NoDef, DefLit("user"), NoDef))
TwinRewrite == Rewrite(<<Var("c"), Var("c")>>, Def(NoDef, Var("c"), NoDef))
OpenRewrite == Rewrite(<<Star>>, Def(NoDef, Var("c"), NoDef))
UserRegex == Regex(<<Lit("user"), Var("1"), Var("2")>>, 1 :> "c" @@ 2 :> "a",
                   Def(DefLit("admin"), Var("c"), Var("a")),
                   <<Lit("user"), Var("c"), Var("a")>>)

Entry(n, c) == [name |-> n, config |-> c]
Complete(r) == [route |-> r, complete |-> TRUE]
Incomplete(r) == [route |-> r, complete |-> FALSE]

\* No default route, one that is made and one that lacks a part.
WalkDefaults == {Null, Complete(MapRoute(FALSE, "x")), Incomplete(Supervar)}

WalkRoutes == {Simple, Supervar, Custom, UseRewrite, PrefixRewrite, UserRegex}

WalkConfigs ==
  {<<Entry("one", Complete(UserRegex)), Entry("two", Incomplete(Simple)),
     Entry("_default", Complete(OpenRewrite))>>,
   <<Entry("two", Complete(TwinRewrite)), Entry("two", Complete(MapRoute(TRUE, "x")))>>}

\* Claimed by none, one or several of the routes above.
WalkUris ==
  {[path |-> p, slash |-> b] : p \in {<<>>, <<"use">>}, b \in BOOLEAN} \cup
  {[path |-> p, slash |-> FALSE] :
     p \in {<<"user">>, <<"use", "c", "x", "c", "m">>, <<"use", "c", "x", "m">>,
            <<"user", "x", "admin">>}}

NoGet == [k \in {} |-> <<>>]

WalkGets == {"m" :> <<"x">> @@ "c" :> <<>>, "m" :> <<"admin">>,
             "r" :> <<"admin", "c", "a">>, "r" :> <<"x">> @@ "a" :> <<"x">>}

WalkAsks ==
  (WalkUris \X {NoGet}) \cup ({[path |-> <<"user">>, slash |-> FALSE]} \X WalkGets)

\* Paths with repeated parameters, and every short path, in the URI or in r.
PathAsks ==
  {<<[path |-> p, slash |-> Len(p) = 2], NoGet>> : p \in Paths({"admin", "x"}, 5)}
  \cup {<<EmptyUri, "r" :> p>> : p \in Paths({"admin", "x"}, 3)}

AllAsks == WalkAsks \cup PathAsks

NamesInfo == {"c" :> c @@ "a" :> a : c, a \in {"admin", "x"}}
ModuleInfo == {"m" :> m @@ i : m \in {"admin", "x"}, i \in NamesInfo}
AllInfos == NamesInfo \cup ModuleInfo \cup {"c" :> "x"}

MCQueries == {NoGet, "x" :> "user"}
ExtraInfo == {"x" :> "user" @@ i : i \in NamesInfo}

NoConfigs == {<<>>}
AssembleInfos == AllInfos \cup ExtraInfo
StarRoutes == {UseRewrite}
CustomX == {<<"x">>}

\* The routes above are of the kind AssembledRoutesBack and VariablesComeBack
\* are proved for.
ASSUME HypothesesHold == Unambiguous /\ ReverseFits
=============================================================================
