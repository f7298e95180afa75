----------------------------- MODULE YafRouter -----------------------------
(***************************************************************************)
(* Yaf_Router: the ordered table of routes, addRoute and addConfig, the    *)
(* walk of yaf_router_route from the last route to the first, and          *)
(* assemble(), whose URI a client sends back.                              *)
(*                                                                         *)
(* The walk takes one step per route, addConfig one per entry.  A custom   *)
(* route is PHP code: it may rename the request, claim or decline it, or   *)
(* throw.                                                                  *)
(***************************************************************************)
EXTENDS YafRoutes, SequencesExt

CONSTANTS
  RouteNames,    \* keys of the route table
  Default,       \* the key "_default"
  DefaultConfigs, \* application.dispatcher.defaultRoute, Null if it is not set
  NewRoutes,     \* routes that PHP code adds
  Configs,       \* arguments of addConfig: sequences of [name, config]
  CustomNames,   \* names a custom route may set
  Asks,          \* what clients ask for: pairs of a URI and $_GET
  Infos,         \* arguments of assemble: functions from variables to segments
  Queries        \* its second argument, empty if it is not given

VARIABLES
  routes,    \* the route table, in the order of zend_hash insertion
  request,   \* the names and the parameters of the request
  uri, get,  \* its URI and $_GET
  pc,        \* "idle", "config", "routing" or "crashed"
  entries,   \* what addConfig has still to add
  at,        \* the next route of the walk, 0 after the last
  current,   \* the property _current of the router
  threw,     \* a route has thrown
  claim,     \* history: how the walk ended, the place of the route that claimed
             \* the request and the request as that route found it
  asked      \* history: what the last URI was assembled from, and by which route

vars == <<routes, request, uri, get, pc, entries, at, current, threw, claim, asked>>

Kinds == {"static", "map", "simple", "supervar", "rewrite", "regex", "custom"}

\* A custom route decides by itself; all others are functions of their input.
Builtin(r) == r.kind # "custom"

StaticRoute == [kind |-> "static"]

NoClaim == [result |-> "none", place |-> 0, base |-> NewRequest]

NotAsked == [by |-> Null, info |-> NoParams, complete |-> FALSE, result |-> "none"]

IsRequest(r) ==
  /\ {r.module, r.controller, r.action} \subseteq Name
  /\ \A k \in DOMAIN r.params : r.params[k] \in Segs \cup {Null}

-----------------------------------------------------------------------------
(* The route table *)

\* Mutant: a name that is already there is added once more.
PutAppends(table, n, r) == Append(table, [name |-> n, route |-> r])

\* zend_hash_update: a name that is already there keeps its place.
Put(table, n, r) ==
  IF \E i \in 1 .. Len(table) : table[i].name = n
  THEN [i \in 1 .. Len(table) |->
          IF table[i].name = n THEN [name |-> n, route |-> r] ELSE table[i]]
  ELSE Append(table, [name |-> n, route |-> r])

\* yaf_route_instance: a configuration that lacks a part makes no route.  The
\* reverse of a regex is looked up under "route", which is an array: it is
\* never a string, so the route has none.
Instantiable(c) == c.complete /\ c.route.kind \in Kinds \ {"static", "custom"}

Instance(c) ==
  IF c.route.kind = "regex" THEN [c.route EXCEPT !.reverse = Null] ELSE c.route

\* yaf_router_instance: what is under "_default" is the configured route, or the
\* static one if none is configured or it cannot be made.
DefaultRoute(d) ==
  IF d # Null /\ Instantiable(d) THEN Instance(d) ELSE StaticRoute

\* The table changes between two requests: the last one is over.
RequestOver ==
  /\ request' = NewRequest /\ uri' = EmptyUri /\ get' = NoParams
  /\ threw' = FALSE /\ claim' = NoClaim /\ asked' = NotAsked

\* One walk per request.
Fresh == pc = "idle" /\ claim.result = "none" /\ asked.result = "none"

RequestEnds ==
  /\ pc = "idle" /\ ~Fresh
  /\ RequestOver
  /\ UNCHANGED <<routes, pc, entries, at, current>>

AddRoute ==
  /\ pc = "idle"
  /\ \E n \in RouteNames, r \in NewRoutes : routes' = Put(routes, n, r)
  /\ RequestOver
  /\ UNCHANGED <<pc, entries, at, current>>

AddConfig ==
  /\ pc = "idle"
  /\ entries' \in Configs
  /\ pc' = "config"
  /\ RequestOver
  /\ UNCHANGED <<routes, at, current>>

\* yaf_router_add_config: an entry that makes no route is skipped with a warning.
AddEntry ==
  /\ pc = "config" /\ entries # <<>>
  /\ LET e == Head(entries)
     IN routes' = IF Instantiable(e.config)
                  THEN Put(routes, e.name, Instance(e.config)) ELSE routes
  /\ entries' = Tail(entries)
  /\ UNCHANGED <<request, uri, get, pc, at, current, threw, claim, asked>>

AddConfigDone ==
  /\ pc = "config" /\ entries = <<>>
  /\ pc' = "idle"
  /\ UNCHANGED <<routes, request, uri, get, entries, at, current, threw, claim, asked>>

\* Every route that can be in the table.
Entries == UNION {Range(c) : c \in Configs}

Routes == {DefaultRoute(d) : d \in DefaultConfigs} \cup NewRoutes
            \cup {Instance(e.config) : e \in {x \in Entries : Instantiable(x.config)}}

Row == [name: RouteNames, route: Routes]

ASSUME TableAssumption ==
  /\ Default \in RouteNames /\ Null \notin RouteNames
  /\ \A c \in Configs : c \in Seq(Entries)
  /\ \A e \in Entries : e.name \in RouteNames

\* Routes as their constructors leave them.
IsPattern(pat) ==
  /\ pat \in Seq(Range(pat))
  /\ \A i \in DOMAIN pat : pat[i].t \in {"lit", "var", "rest"}
  /\ \A i \in DOMAIN pat : pat[i].t = "lit" => pat[i].v \in Segs

IsDef(d) == d.t \in {"none", "lit", "var"} /\ (d.t = "lit" => d.v \in Name)

WellFormed(r) ==
  /\ r.kind \in Kinds
  /\ r.kind = "map" => r.ctlPrefer \in BOOLEAN /\ r.delim \in Segs \cup {Null}
  /\ r.kind \in {"rewrite", "regex"} =>
       IsPattern(r.pat) /\ IsDef(r.def.module) /\ IsDef(r.def.controller) /\ IsDef(r.def.action)
  /\ r.kind = "regex" /\ r.reverse # Null =>
       IsPattern(r.reverse) /\ \A i \in VarPlaces(r.reverse) : r.reverse[i].v \in {"c", "a"}

\* PHP arrays: of strings given to assemble(), and of query variables.
IsInfo(f) == IsFiniteSet(DOMAIN f) /\ \A k \in DOMAIN f : k \in Segs /\ f[k] \in Segs
IsGet(g) == \A k \in DOMAIN g : g[k] \in Name

ASSUME InputAssumption ==
  /\ \A r \in Routes : WellFormed(r)
  /\ CustomNames \subseteq Name
  /\ \A q \in Asks : q[1] \in Uri /\ IsGet(q[2])
  /\ \A f \in Infos \cup Queries : IsInfo(f)

TypeOK ==
  /\ routes \in Seq(Row)
  /\ \A i, j \in 1 .. Len(routes) : routes[i].name = routes[j].name => i = j
  /\ IsRequest(request)
  /\ uri \in Uri
  /\ pc \in {"idle", "config", "routing", "crashed"}
  /\ entries \in Seq(Entries)
  /\ at \in 0 .. Len(routes)
  /\ current \in RouteNames \cup {Null}
  /\ threw \in BOOLEAN
  /\ claim.result \in {"none", "claimed", "failed"}
  /\ claim.place \in 0 .. Len(routes)

-----------------------------------------------------------------------------
(* yaf_router_route *)

\* A client asks for a URI; the request is new and the walk begins.
Ask(u, g) ==
  /\ uri' = u /\ get' = g
  /\ request' = NewRequest
  /\ pc' = "routing" /\ at' = Len(routes) /\ threw' = FALSE
  /\ claim' = NoClaim

AskAnything ==
  /\ Fresh
  /\ \E q \in Asks : Ask(q[1], q[2])
  /\ asked' = NotAsked
  /\ UNCHANGED <<routes, entries, current>>

\* Mutant: the walk skips a route.
PreviousSkips(n) == IF n >= 2 THEN n - 2 ELSE 0

\* ZEND_HASH_REVERSE_FOREACH
Previous(n) == n - 1

\* A route has returned TRUE, leaving request r: it is remembered as current.
Claimed(r) ==
  /\ request' = r
  /\ current' = routes[at].name
  /\ claim' = [result |-> "claimed", place |-> at, base |-> request]
  /\ pc' = "idle" /\ at' = 0
  /\ UNCHANGED <<routes, uri, get, entries, threw, asked>>

RouteClaims ==
  /\ pc = "routing" /\ at > 0 /\ ~threw
  /\ Builtin(routes[at].route) /\ Matches(routes[at].route, uri, get)
  /\ Claimed(Apply(routes[at].route, request, uri, get))

RouteDeclines ==
  /\ pc = "routing" /\ at > 0 /\ ~threw
  /\ Builtin(routes[at].route) /\ ~Matches(routes[at].route, uri, get)
  /\ at' = Previous(at)
  /\ UNCHANGED <<routes, request, uri, get, pc, entries, current, threw, claim, asked>>

\* The names a custom route sets; it may also set none.
Renamed == {request} \cup {[request EXCEPT !.controller = n] : n \in CustomNames}

CustomClaims ==
  /\ pc = "routing" /\ at > 0 /\ ~threw /\ ~Builtin(routes[at].route)
  /\ \E r \in Renamed : Claimed(r)

\* It returns anything but TRUE, or throws.
CustomDeclines ==
  /\ pc = "routing" /\ at > 0 /\ ~threw /\ ~Builtin(routes[at].route)
  /\ request' \in Renamed
  /\ threw' \in BOOLEAN
  /\ at' = Previous(at)
  /\ UNCHANGED <<routes, uri, get, pc, entries, current, claim, asked>>

\* While an exception is pending the engine calls no further route.
SkippedAfterThrow ==
  /\ pc = "routing" /\ at > 0 /\ threw
  /\ at' = Previous(at)
  /\ UNCHANGED <<routes, request, uri, get, pc, entries, current, threw, claim, asked>>

\* Mutant: the first route of the table is never tried.
ExhaustedEarly == at <= 1

Exhausted == at = 0

\* yaf_router_route returns 0.
RouteFails ==
  /\ pc = "routing" /\ Exhausted
  /\ pc' = "idle" /\ at' = 0
  /\ claim' = [claim EXCEPT !.result = "failed"]
  /\ UNCHANGED <<routes, request, uri, get, entries, current, threw, asked>>

-----------------------------------------------------------------------------
(* assemble: the URI for given names, which a client then asks for *)

\* The entries of f as key, value, key, value ...
Pairs(f) == FlattenSeq([i \in 1 .. Cardinality(DOMAIN f) |->
              LET k == SetToSeq(DOMAIN f)[i] IN <<k, f[k]>>])

AsValues(f) == [k \in DOMAIN f |-> <<f[k]>>]

\* Mutant: the module is left out.
NamePathNoModule(info) == <<info["c"], info["a"]>>

\* /module/controller/action, of the static and supervar routes
NamePath(info) ==
  (IF "m" \in DOMAIN info THEN <<info["m"]>> ELSE <<>>) \o <<info["c"], info["a"]>>

\* The variables of a pattern replaced; the others of info fill the "*".
Filled(pat, info) ==
  [i \in 1 .. RestAt(pat) - 1 |->
     IF pat[i].t = "var" THEN info[pat[i].v] ELSE pat[i].v]

Leftover(pat, info) ==
  LET keys == DOMAIN info \ {pat[i].v : i \in VarPlaces(pat)}
  IN [k \in keys |-> info[k]]

\* The variables that assemble of the route needs.
Needed(r) ==
  CASE r.kind \in {"static", "simple", "supervar"} -> {"c", "a"}
    [] r.kind = "map" -> IF r.ctlPrefer THEN {"a"} ELSE {"c"}
    [] r.kind = "rewrite" -> {r.pat[i].v : i \in VarPlaces(r.pat)}
    [] r.kind = "regex" -> {"c", "a"}
    [] r.kind = "custom" -> {}

\* How assemble ends.  A rewrite with "*" dereferences the empty smart_str when
\* no entry is left for it; a regex without a reverse raises TypeError.
AssembleResult(r, info) ==
  CASE r.kind = "rewrite" /\ RestAt(r.pat) <= Len(r.pat)
         /\ DOMAIN Leftover(r.pat, info) = {} -> "crash"
    [] r.kind = "regex" /\ r.reverse = Null -> "error"
    [] r.kind \in {"static", "simple", "supervar", "map"}
         /\ ~(Needed(r) \subseteq DOMAIN info) -> "error"
    [] OTHER -> "uri"

AssembledPath(r, info, query) ==
  CASE r.kind = "static" -> NamePath(info)
    [] r.kind \in {"simple", "supervar"} -> <<>>
    [] r.kind = "map" ->
         <<info[IF r.ctlPrefer THEN "a" ELSE "c"]>> \o
         (IF r.delim = Null \/ DOMAIN query = {} THEN <<>> ELSE <<r.delim>> \o Pairs(query))
    [] r.kind = "rewrite" ->
         Filled(r.pat, info) \o
         (IF RestAt(r.pat) > Len(r.pat) THEN <<>> ELSE Pairs(Leftover(r.pat, info)))
    [] r.kind = "regex" -> Filled(r.reverse, info)

\* "*" leaves a slash at the end.
AssembledUri(r, info, query) ==
  [path |-> AssembledPath(r, info, query),
   slash |-> \/ r.kind \in {"simple", "supervar"}
             \/ r.kind = "rewrite" /\ RestAt(r.pat) <= Len(r.pat)]

AssembledGet(r, info, query) ==
  CASE r.kind = "simple" ->
         Merge(AsValues([k \in {r.m : x \in {"m"} \cap DOMAIN info} |-> info["m"]]),
               Merge(AsValues([k \in {r.c, r.a} |->
                                 IF k = r.c THEN info["c"] ELSE info["a"]]),
                     AsValues(query)))
    [] r.kind = "supervar" ->
         Merge([k \in {r.var} |-> NamePath(info)], AsValues(query))
    [] r.kind = "map" /\ r.delim # Null -> AsValues(NoParams)
    [] r.kind = "map" /\ r.delim = Null -> AsValues(query)
    [] OTHER -> AsValues(query)

\* PHP code assembles a URI by the route at place i and a client asks for it.
Assemble ==
  /\ Fresh
  /\ \E i \in 1 .. Len(routes), info \in Infos, query \in Queries :
       LET r == routes[i].route
           res == AssembleResult(r, info)
       IN /\ Builtin(r)
          /\ r.kind \in {"rewrite", "regex"} => Needed(r) \subseteq DOMAIN info
          /\ asked' = [by |-> routes[i].name, info |-> info,
                      complete |-> Needed(r) \subseteq DOMAIN info, result |-> res]
          /\ IF res = "uri"
             THEN Ask(AssembledUri(r, info, query), AssembledGet(r, info, query))
             ELSE /\ pc' = IF res = "crash" THEN "crashed" ELSE "idle"
                  /\ UNCHANGED <<uri, get, request, at, threw, claim>>
  /\ UNCHANGED <<routes, entries, current>>

-----------------------------------------------------------------------------

NewRouter(d) == <<[name |-> Default, route |-> DefaultRoute(d)]>>

Init ==
  /\ \E d \in DefaultConfigs : routes = NewRouter(d)
  /\ request = NewRequest /\ uri = EmptyUri /\ get = NoParams
  /\ pc = "idle" /\ entries = <<>> /\ at = 0 /\ current = Null /\ threw = FALSE
  /\ claim = NoClaim /\ asked = NotAsked

\* A worker that crashed is replaced, and an HTTP request that is over leaves
\* nothing behind: the next one has a router of its own.
NextHttpRequest ==
  /\ pc \in {"idle", "crashed"}
  /\ \E d \in DefaultConfigs : routes' = NewRouter(d)
  /\ RequestOver
  /\ pc' = "idle" /\ entries' = <<>> /\ at' = 0 /\ current' = Null

Next ==
  \/ AddRoute \/ AddConfig \/ AddEntry \/ AddConfigDone
  \/ AskAnything \/ Assemble \/ RequestEnds
  \/ RouteClaims \/ RouteDeclines \/ CustomClaims \/ CustomDeclines
  \/ SkippedAfterThrow \/ RouteFails
  \/ NextHttpRequest

Spec == Init /\ [][Next]_vars

-----------------------------------------------------------------------------
(* Properties *)

\* The route that claims a request is the one nearest to the end of the table
\* among the built-in routes that match it: yaf_router_route passes over none.
FirstMatchWins ==
  claim.place > 0 =>
    \A i \in claim.place + 1 .. Len(routes) :
      Builtin(routes[i].route) => ~Matches(routes[i].route, uri, get)

\* yaf_router_route returns 0 only if a route threw or no static and no map route
\* is in the table: a static or map "_default" catches what the others decline.
DefaultCatchesAll ==
  claim.result = "failed" /\ ~threw
    => \A i \in 1 .. Len(routes) : routes[i].route.kind \notin {"static", "map"}

\* A path claimed by the static or the supervar route means what PathMeaning
\* says, on top of the names that custom routes before it have left, and its
\* parameters are the last values given to each key.
PathRoutedAsMeant ==
  LET r == routes[claim.place].route
      p == IF r.kind = "static" THEN uri.path ELSE get[r.var]
      m == PathMeaning(p)
  IN claim.place > 0 /\ r.kind \in {"static", "supervar"} =>
       /\ request.module = SetName(claim.base.module, m.module)
       /\ request.controller = SetName(claim.base.controller, m.controller)
       /\ request.action = SetName(claim.base.action, m.action)
       /\ \A k \in DOMAIN ParametersMeaning(Rest(p, m.used)) :
            request.params[k] = ParametersMeaning(Rest(p, m.used))[k]

\* The name that assemble() was given, and whether it led back to its own route.
AskedName(k) == IF k \in DOMAIN asked.info THEN <<asked.info[k]>> ELSE NoName

CameBackTo(kinds) ==
  /\ claim.place > 0 /\ asked.by = routes[claim.place].name
  /\ routes[claim.place].route.kind \in kinds

\* The variables of a simple route are three, and the variables of a simple and
\* of a supervar route are none of those in the second argument of assemble().
Unambiguous ==
  \A r \in Routes, query \in Queries :
    /\ r.kind = "simple" =>
         /\ r.m # r.c /\ r.m # r.a /\ r.c # r.a
         /\ {r.m, r.c, r.a} \cap DOMAIN query = {}
    /\ r.kind = "supervar" => r.var \notin DOMAIN query

\* A URI that a static, simple or supervar route assembled leads back, when that
\* same route claims it, to the names it was assembled from.
AssembledRoutesBack ==
  /\ CameBackTo({"static", "simple", "supervar"})
  /\ "m" \in DOMAIN asked.info => asked.info["m"] \in Modules
  => /\ request.module = AskedName("m")
     /\ request.controller = AskedName("c")
     /\ request.action = AskedName("a")

\* The reverse of a regex route has the variables where the groups are that the
\* route's map names after them.
ReverseFits ==
  \A r \in Routes : r.kind = "regex" /\ r.reverse # Null =>
    \A v \in {"c", "a"} :
      /\ \E i \in Mapped(r.pat, r.map) : MapName(r.pat, r.map, i) = v
      /\ \A i \in Mapped(r.pat, r.map) : MapName(r.pat, r.map, i) = v =>
           i \in VarPlaces(r.reverse) /\ r.reverse[i].v = v

\* A rewrite or regex route gets the variables it filled in back as parameters,
\* a rewrite route also what it put in the place of "*".
VariablesComeBack ==
  LET r == routes[claim.place].route
      sent == IF r.kind = "regex" THEN {"c", "a"}
              ELSE IF RestAt(r.pat) <= Len(r.pat) THEN DOMAIN asked.info
              ELSE {r.pat[i].v : i \in VarPlaces(r.pat)}
  IN CameBackTo({"rewrite", "regex"}) => \A k \in sent :
            k \in DOMAIN request.params /\ request.params[k] = asked.info[k]

\* assemble() returns a URI whenever it is given every variable that it needs.
AssembleSucceeds == asked.complete => asked.result = "uri"

=============================================================================
