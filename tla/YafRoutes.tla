----------------------------- MODULE YafRoutes -----------------------------
(***************************************************************************)
(* The built-in routes of Yaf as functions: which URI or query each one    *)
(* claims, the names and parameters it puts into the request, and the URI  *)
(* its assemble() builds.                                                  *)
(*                                                                         *)
(* A URI is what is left of it after the base URI, as its segments and     *)
(* whether it ends in a slash ("" is no segment and no slash).  Segments   *)
(* are taken up to letter case, which module names, rewrite and base URIs  *)
(* ignore; none contains "_", ":" or "*", and slashes are not doubled.     *)
(* A name in the request is the sequence of the parts that "_" joins, so   *)
(* <<>> is null or the empty string.                                       *)
(***************************************************************************)
EXTENDS Naturals, Sequences

CONSTANTS
  Segs,          \* URI segments
  Modules,       \* those that name a module of the application
  Begins,        \* <<l, s>>: the text of segment l is a proper prefix of s
  ActionPrefer,  \* yaf.action_prefer
  Null           \* PHP's null, as the value of a parameter

ASSUME SegsAssumption ==
  /\ Modules \subseteq Segs
  /\ Begins \subseteq Segs \X Segs
  /\ ActionPrefer \in BOOLEAN
  /\ Null \notin Segs

Name == Seq(Segs)

NoName == <<>>

Uri == [path: Seq(Segs), slash: BOOLEAN]

EmptyUri == [path |-> <<>>, slash |-> FALSE]

NoParams == [k \in {} |-> Null]

\* The names of a request that nobody has routed.
NewRequest == [module |-> NoName, controller |-> NoName, action |-> NoName,
               params |-> NoParams]

\* zend_hash_copy of g into f: entries of g replace those of f.
Merge(f, g) ==
  [k \in DOMAIN f \cup DOMAIN g |-> IF k \in DOMAIN g THEN g[k] ELSE f[k]]

-----------------------------------------------------------------------------
(* yaf_router_parse_parameters *)

PairCount(s) == (Len(s) + 1) \div 2

PairValue(s, n) == IF 2 * n <= Len(s) THEN s[2 * n] ELSE Null

\* The loop over key and value; a last key without a value is null.
ParseParameters(s) ==
  LET f[n \in 0 .. PairCount(s)] ==
        IF n = 0 THEN NoParams
        ELSE Merge(f[n - 1], [k \in {s[2 * n - 1]} |-> PairValue(s, n)])
  IN f[PairCount(s)]

\* What it computes: every segment at an odd place is a key, and the last of
\* its occurrences gives the value.
ParametersMeaning(s) ==
  LET pairs == 1 .. PairCount(s)
      lastOf(k) == CHOOSE n \in pairs :
                     /\ s[2 * n - 1] = k
                     /\ \A m \in pairs : s[2 * m - 1] = k => m <= n
  IN [k \in {s[2 * n - 1] : n \in pairs} |-> PairValue(s, lastOf(k))]

-----------------------------------------------------------------------------
(* yaf_route_pathinfo_route: module, controller and action in stages, with   *)
(* the number of segments used so far                                        *)

PathState(m, c, a, used) == [module |-> m, controller |-> c, action |-> a, used |-> used]

\* A segment that a slash follows is the controller, or a module and after it,
\* if a slash follows that too, the controller.
ScanHead(p) ==
  IF Len(p) < 2 THEN PathState(NoName, NoName, NoName, 0)
  ELSE IF p[1] \notin Modules THEN PathState(NoName, <<p[1]>>, NoName, 1)
  ELSE IF Len(p) = 2 THEN PathState(<<p[1]>>, NoName, NoName, 1)
  ELSE PathState(<<p[1]>>, <<p[2]>>, NoName, 2)

\* The next segment that a slash follows is the action.
ScanAction(p, st) ==
  IF st.used + 1 < Len(p)
  THEN [st EXCEPT !.action = <<p[st.used + 1]>>, !.used = @ + 1]
  ELSE st

\* What is left fills the first name that is missing, or is the parameters.
ScanLast(p, st) ==
  LET last == <<p[st.used + 1]>>
  IN IF st.used = Len(p) THEN st
     ELSE IF /\ st.module = NoName /\ st.controller = NoName /\ st.action = NoName
             /\ p[st.used + 1] \in Modules
     THEN [st EXCEPT !.module = last, !.used = @ + 1]
     ELSE IF st.controller = NoName
     THEN [st EXCEPT !.controller = last, !.used = @ + 1]
     ELSE IF st.action = NoName
     THEN [st EXCEPT !.action = last, !.used = @ + 1]
     ELSE st

\* Mutant: a module without an action stays the module.
ShiftControllerOnly(st) ==
  IF st.module # NoName /\ st.controller = NoName
  THEN [st EXCEPT !.controller = st.module, !.module = NoName]
  ELSE st

\* A module without a controller, or without an action, is no module after all.
Shift(st) ==
  IF st.module # NoName /\ st.controller = NoName
  THEN [st EXCEPT !.controller = st.module, !.module = NoName]
  ELSE IF st.module # NoName /\ st.action = NoName
  THEN [st EXCEPT !.action = st.controller, !.controller = st.module, !.module = NoName]
  ELSE IF st.controller # NoName /\ st.action = NoName /\ ActionPrefer
  THEN [st EXCEPT !.action = st.controller, !.controller = NoName]
  ELSE st

PathInfo(p) == Shift(ScanLast(p, ScanAction(p, ScanHead(p))))

Rest(p, used) == SubSeq(p, used + 1, Len(p))

\* A name that the path does not give is left as it is.
SetName(old, new) == IF new = NoName THEN old ELSE new

RoutePath(req, p) ==
  LET st == PathInfo(p)
  IN [module |-> SetName(req.module, st.module),
      controller |-> SetName(req.controller, st.controller),
      action |-> SetName(req.action, st.action),
      params |-> IF st.used = Len(p) THEN req.params
                 ELSE Merge(req.params, ParseParameters(Rest(p, st.used)))]

\* What the stages amount to: one segment is a controller (an action with
\* action_prefer, unless it names a module), two are controller and action, and
\* of three or more the first is a module if it names one.
PathMeaning(p) ==
  LET n == Len(p)
  IN IF n = 0 THEN PathState(NoName, NoName, NoName, 0)
     ELSE IF n = 1 /\ ActionPrefer /\ p[1] \notin Modules
     THEN PathState(NoName, NoName, <<p[1]>>, 1)
     ELSE IF n = 1 THEN PathState(NoName, <<p[1]>>, NoName, 1)
     ELSE IF n > 2 /\ p[1] \in Modules
     THEN PathState(<<p[1]>>, <<p[2]>>, <<p[3]>>, 3)
     ELSE PathState(NoName, <<p[1]>>, <<p[2]>>, 2)

-----------------------------------------------------------------------------
(* Patterns of the rewrite and regex routes: sequences of [t, v] where t is  *)
(* "lit" (a literal segment), "var" (a group for one segment, named v in a   *)
(* rewrite, numbered in a regex) or "rest" (a group for all that follows)    *)

\* The first "rest" ends a pattern.
RestAt(pat) ==
  LET at == {i \in 1 .. Len(pat) : pat[i].t = "rest"}
  IN IF at = {} THEN Len(pat) + 1 ELSE CHOOSE i \in at : \A j \in at : i <= j

VarPlaces(pat) == {i \in 1 .. RestAt(pat) - 1 : pat[i].t = "var"}

\* PCRE refuses two groups of one name: the route then claims nothing.
Compiles(pat) ==
  \A i, j \in VarPlaces(pat) : pat[i].v = pat[j].v => i = j

\* A literal that ends the pattern may match the beginning of a segment.
MatchesAt(pat, u, i) ==
  /\ i <= Len(u.path)
  /\ pat[i].t = "lit" => \/ u.path[i] = pat[i].v
                         \/ i = Len(pat) /\ <<pat[i].v, u.path[i]>> \in Begins

\* The regular expression ^/.../... without an end anchor, on a URI that is not
\* empty; a group for the rest needs the slash before it.
PcreMatches(pat, u) ==
  LET n == RestAt(pat)
  IN /\ u # EmptyUri
     /\ \A i \in 1 .. n - 1 : MatchesAt(pat, u, i)
     /\ n <= Len(pat) => Len(u.path) >= n \/ (Len(u.path) = n - 1 /\ u.slash)

\* Mutant: the group of "*" is overlooked.
RewriteArgsNamedOnly(pat, u) ==
  [v \in {pat[i].v : i \in VarPlaces(pat)} |->
     u.path[CHOOSE i \in VarPlaces(pat) : pat[i].v = v]]

\* yaf_route_rewrite_match: the named groups, over them the parameters of "*".
RewriteArgs(pat, u) ==
  LET named == [v \in {pat[i].v : i \in VarPlaces(pat)} |->
                  u.path[CHOOSE i \in VarPlaces(pat) : pat[i].v = v]]
  IN IF RestAt(pat) > Len(pat) THEN named
     ELSE Merge(named, ParseParameters(SubSeq(u.path, RestAt(pat), Len(u.path))))

\* yaf_route_regex_match: the groups that the route's map has a name for.  Two
\* groups of one name: the later one stays.
GroupNumber(pat, i) ==
  LET before[j \in 0 .. Len(pat)] ==
        IF j = 0 THEN 0 ELSE before[j - 1] + (IF pat[j].t = "var" THEN 1 ELSE 0)
  IN before[i]

Mapped(pat, map) == {i \in VarPlaces(pat) : GroupNumber(pat, i) \in DOMAIN map}

MapName(pat, map, i) == map[GroupNumber(pat, i)]

RegexArgs(pat, map, u) ==
  LET last(v) == CHOOSE i \in Mapped(pat, map) :
                   /\ MapName(pat, map, i) = v
                   /\ \A j \in Mapped(pat, map) : MapName(pat, map, j) = v => j <= i
  IN [v \in {MapName(pat, map, i) : i \in Mapped(pat, map)} |-> u.path[last(v)]]

\* A route's definition of a name: absent, a literal or ":variable".
DefName(old, def, args) ==
  CASE def.t = "none" -> old
    [] def.t = "lit" -> def.v
    [] def.t = "var" -> IF def.v \in DOMAIN args /\ args[def.v] # Null
                        THEN <<args[def.v]>> ELSE old

RouteDef(req, def, args) ==
  [module |-> DefName(req.module, def.module, args),
   controller |-> DefName(req.controller, def.controller, args),
   action |-> DefName(req.action, def.action, args),
   params |-> Merge(req.params, args)]

-----------------------------------------------------------------------------
(* The routes.  g is $_GET: a function from the variables given to their     *)
(* values, each a sequence of segments ("" is <<>>).                         *)

\* yaf_route_map_route: strstr finds the first segment that begins with the
\* delimiter; only if it is the delimiter itself does it split the path.
DelimAt(r, p) ==
  LET at == {i \in 1 .. Len(p) : p[i] = r.delim \/ <<r.delim, p[i]>> \in Begins}
      first == CHOOSE i \in at : \A j \in at : i <= j
  IN IF r.delim # Null /\ at # {} /\ p[first] = r.delim THEN first ELSE Len(p) + 1

RouteMap(req, r, p) ==
  LET d == DelimAt(r, p)
      named == SubSeq(p, 1, d - 1)
      field == IF r.ctlPrefer THEN "controller" ELSE "action"
      named1 == [req EXCEPT ![field] = SetName(@, named)]
  IN IF d >= Len(p) THEN named1
     ELSE [named1 EXCEPT !.params =
             Merge(@, ParseParameters(SubSeq(p, d + 1, Len(p))))]

\* yaf_route_simple_route: the module is taken only if it is one.
Given(g, var, old) == IF var \in DOMAIN g THEN g[var] ELSE old

RouteSimple(req, r, g) ==
  [req EXCEPT
     !.module = IF r.m \in DOMAIN g /\ \E m \in Modules : g[r.m] = <<m>>
                THEN g[r.m] ELSE @,
     !.controller = Given(g, r.c, @),
     !.action = Given(g, r.a, @)]

\* Does the route return TRUE?
Matches(r, u, g) ==
  CASE r.kind \in {"static", "map"} -> TRUE
    [] r.kind = "simple" -> {r.m, r.c, r.a} \cap DOMAIN g # {}
    [] r.kind = "supervar" -> r.var \in DOMAIN g
    [] r.kind = "rewrite" -> Compiles(r.pat) /\ PcreMatches(r.pat, u)
    [] r.kind = "regex" -> PcreMatches(r.pat, u)

\* The request after a route that returns TRUE.
Apply(r, req, u, g) ==
  CASE r.kind = "static" -> RoutePath(req, u.path)
    [] r.kind = "map" -> RouteMap(req, r, u.path)
    [] r.kind = "simple" -> RouteSimple(req, r, g)
    [] r.kind = "supervar" -> RoutePath(req, g[r.var])
    [] r.kind = "rewrite" -> RouteDef(req, r.def, RewriteArgs(r.pat, u))
    [] r.kind = "regex" -> RouteDef(req, r.def, RegexArgs(r.pat, r.map, u))

=============================================================================
