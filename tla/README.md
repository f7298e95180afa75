# A TLA+ model of Yaf

Yaf (Yet Another Framework) is an MVC framework for PHP, written in C as a PHP
extension. This directory holds TLA+ specifications of its request cycle, its
routing, its application object, its configuration, its pages and its loader, the TLC
configurations that check them on small instances, and proofs that TLAPS checks for
every value of the constants.

| file | content |
|---|---|
| `YafDispatcher.tla` | the request cycle: dispatch, hooks, loop, controllers, rendering, exception handler |
| `YafDispatcherProofs.tla` | theorems about it and about the pages that it sends |
| `YafCycle.tla` | what `dispatch()` promises its caller: the abstract specification |
| `YafCycleProofs.tla` | `YafDispatcher` implements `YafCycle` |
| `YafNested.tla` | dispatches inside dispatches |
| `YafNestedProofs.tla` | theorems about them, for stacks of any depth |
| `YafRoutes.tla` | the built-in routes as functions |
| `YafRouter.tla` | the route table, the walk over it, `assemble()` |
| `YafRouterProofs.tla` | theorems about both |
| `YafApplication.tla` | construction, `run`, `bootstrap`, destruction, the end of a request |
| `YafApplicationProofs.tla` | theorems about it |
| `YafConfig.tla` | ini files with inheritance, configuration objects over shared arrays |
| `YafConfigProofs.tla` | theorems about both |
| `YafPage.tla` | templates, output buffers, the named parts of the response |
| `YafPageProofs.tla` | theorems about them |
| `YafLoader.tla` | which file a class is loaded from; files that load files |
| `YafLoaderProofs.tla` | theorems about it |
| `MC*.tla` | small instances |
| `*.cfg` | one configuration per question |
| `PROJECT.json` | runs, mutants, source lines, findings, hazards, theorems |

Run `tlc -workers 2 -config Dispatch.cfg MCYafDispatcher` (and so on for the other
configurations) and `tlapm YafDispatcherProofs.tla` (and so on for the other
`...Proofs` modules).

## 1. Inventory

A PHP process serves HTTP requests one after the other. Within one of them
everything runs on one thread; what makes the code hard is that the C code calls
back into PHP code at about a dozen places, and that PHP code may do anything
there: throw, forward, rename the request, switch an option, exit. C locals and
module globals (`YAF_G`) that were read before such a callback are used after it,
and some of the globals live longer than one dispatch.

| component | state | operations | interacts with |
|---|---|---|---|
| dispatcher (`yaf_dispatcher.c`) | the request, `in_exception`, `view_directory`, switches, the loop counter | `dispatch`, hooks, the loop, `handle`, exception handler, switches | every other part |
| exceptions (`yaf_exception.c`) | `EG(exception)`, the error number of the application | `yaf_trigger_error`, thrown or as E_RECOVERABLE_ERROR | called from everywhere |
| controller, action (`yaf_controller.c`, `yaf_action.c`) | names, view, request, response | `init`, `forward`, `render`, `display`, `redirect` | called by the dispatcher, changes the request |
| plugin (`yaf_plugin.c`) | none | six hooks | called by the dispatcher |
| request (`yaf_request.c`, `requests/`) | names, parameters, `routed`, `dispatched`, exception, URI | setters, parameters, super-globals | router writes, dispatcher reads |
| response (`yaf_response.c`, `responses/`) | named body parts, headers | append, prepend, clear, `response` | dispatcher appends and sends |
| router (`yaf_router.c`) | the ordered table of routes, the current route | `addRoute`, `addConfig`, `route` | calls the routes in reverse order |
| routes (`routes/`) | match pattern, defaults, map, reverse | `route`, `assemble` | write the request |
| application (`yaf_application.c`), bootstrap | the one application, running, configuration | construct, `run`, `bootstrap`, destruct | owns dispatcher and loader |
| module globals (`yaf.c`) | `YAF_G` | GINIT, RINIT, RSHUTDOWN | all |
| loader (`yaf_loader.c`) | library paths, namespaces | autoload, import | scripts of controllers |
| configuration (`yaf_config.c`, `configs/`) | sections, read-only flag | ini inheritance, get, set | application, router |
| view (`views/`) | variables, template directory, output buffers | assign, render, display, eval | controller |
| session, registry (`yaf_session.c`, `yaf_registry.c`) | maps | set, get, has, del | PHP code |

What makes each of them correct:

- *dispatcher*: every dispatch ends; a forward is followed or reported; the error
  controller runs exactly once per failing HTTP request; no failure is silent;
  every page that was rendered arrives once, in order, from the template of the
  action that ran.
- *router and routes*: the last matching route wins; the default catches the rest;
  a path means the same names whatever its length; `assemble` and `route` are
  inverse to each other.
- *application*: one application, initialised before it is used, run once.
- *response*: a named part keeps its content and order; headers go out before the body.
- *loader*: a class is loaded from the directory its name says, once.
- *configuration*: a child section overrides its parent and nothing else; a
  read-only configuration never changes.
- *view*: buffers are balanced whatever a template throws.

The hard behaviours, each with its line, are under `hazards` in `PROJECT.json`.

## 2. The dispatcher

### State and actions

`YafDispatcher` has one variable per piece of state that survives a callback: the
request; the switches (`options`, among them whether an application has set
`YAF_G(directory)`); `EG(exception)` (`exc`); the error number; `in_exception`; the
class table; the view directory; the locals of `yaf_dispatcher_handle` (`frame`)
and of the loop (`nesting`); the body of the response and what has been sent.
`hist` is history that only the properties read.

`pc` says where the C code is. Everything between two callbacks is one step; a callback
(six hooks, route, init, action, render, display) is a value of `pc`, in which PHP code
may take any of `Forward`, `SetRequest` and `SetOption` any number of times before it
returns or throws. So `PluginReturns`, `PluginThrows`, `HookThrew` and the `...Done`
actions are `YAF_PLUGIN_HANDLE` and `YAF_EXCEPTION_HANDLE`; `HandleFails`, `HandleLoads`,
`Init...`, `Action...`, `Render...` are the stages of `yaf_dispatcher_handle`, where
`ActionAutoRenders` reads `flushInstantly` and calls `render()` or `display()` before the
template runs; `RoundDone` to `DispatchDone` the loop and its end; `ErrorFailover`,
`ErrorSent` the exception handler. `Leave` is the macro `YAF_EXCEPTION_HANDLE` followed by
`return NULL`. `Bailout` is `exit`, a fatal error, a timeout or E_RECOVERABLE_ERROR
without an error handler; `NextHttpRequest` is RSHUTDOWN and the next RINIT in the same
worker.

Names keep their spelling: `fix_default` and `is_module_name` change or ignore
case, the class table ignores it and the file system does not, so `Canon` and
`Lower` are functions between spellings. The loop counter is a `uint`: decrementing
0 gives `UintMax`.

E_RECOVERABLE_ERROR with a PHP error handler drops the pending exception and then
calls the handler, which may throw one of its own (`TriggerError`).

Left out: a dispatch started from inside a callback of another one, which is
`YafNested`; `registerPlugin` inside a hook; code at the top level of a script that
throws; the view path of a controller; PHP code that writes to the body of the
response by itself. Branches that cannot be reached (`init_view` returning NULL, a
request that is no object, a dispatcher without a router) have no action.

### Runs

| run | states | shows |
|---|---|---|
| `dispatch` | 899,000 | one dispatch with a plugin, forwards from `init`, actions and plugins, and exceptions: the loop stays within `forward_limit`, an unfollowed forward is reported, pages come in order and from the right template, and all of it implements `YafCycle` |
| `failures` | 175,000 | two dispatches per HTTP request with everything failing that can, with and without an application, thrown or not: the handler runs when it should, no failure is silent, a request is routed once |
| `output` | 862,000 | `flushInstantly`, `returnResponse`, `autoRender` switched at any time: each page arrives exactly once, and every dispatch ends, also when the default module has no ErrorController |
| `shared_class` | violation | the controller of one module runs for another |

Bounds: two modules and one unknown one, each name in two spellings; `ForwardLimit`
2 and `UintMax` 7, so that the loop ends on its limit, and wraps in its own run;
one plugin (a second one repeats the first: a throw skips the rest, which the proofs
cover for any number); one or two dispatches per HTTP request, because
`in_exception`, the class table and `routed` carry over to the second and no
further; one forward from `init` (`MaxInitForwards`), because nothing in the code
bounds them.

Fairness: `WF_vars(Step)`. Callbacks return or throw (PHP's `max_execution_time`
ends one that does not, which is `Bailout`) and the C code between them runs. No
fairness is assumed of `Forward`, `SetRequest` and `SetOption`: PHP code need not call
them, and may call them for ever only by never returning.

Deadlock is checked in every run.

### What a caller may rely on

`YafCycle` has four variables and says what a caller of `dispatch()` sees: routing,
then at most so many rounds, a response only after a round, null at any moment, the
error controller at most once in an HTTP request and never back to serving after
it. `RefinesCycle` in `YafDispatcher` is its specification under a mapping that
reads the phase from `pc`. The number of rounds allowed is the forward limit, or
`UintMax + 1` when the limit is 0 and the counter wraps. TLC checks it in the run
`dispatch`; `DispatchRefinesCycle` proves it. The liveness of `YafCycle` is not carried
over, since its fairness is about `ENABLED` under the mapping; `DispatchTerminates`
says it of the detailed specification itself.

### Proofs

`YafDispatcherProofs` proves, for all names, scripts, numbers of plugins, limits
and user code satisfying the named assumptions of `YafDispatcher`:

| theorem | property | strengthened by |
|---|---|---|
| `TypeCorrect` | `TypeOK` | is inductive itself |
| `RoundsBounded` | `RoundsWithinForwardLimit`, if `ForwardLimit > 0` | `LoopInv` |
| `CompletedDispatched` | `CompletedMeansDispatched` | `ExitInv` |
| `HandlerRunsOnce`, `EscapesJustified` | `HandlerOncePerRequest`, `EscapesOnlyAfterHandler` | `HandlerInv` |
| `FailureHasReason` | `NoSilentFailure` | `ReasonInv` |
| `RequestRoutedOnce` | `RoutedOnce` | `RoutedInv` |

`LoopInv` ties the counter to the rounds made so far (`rounds + nesting` is the limit plus
one while a round runs), which the property itself does not mention. `ExitInv` says that
the loop is left only with the request dispatched or the counter at 0, and that of these
two only a dispatched request lets `dispatch` return a response. `HandlerInv` says that
`in_exception` and the count of handler runs agree; `ReasonInv` that a failed `handle` has
left a reason behind at every `pc` on the way out; `RoutedInv` that a request claimed once
has `routed` set and therefore never meets the router again. Each is proved by one step
per action.

`YafCycleProofs` adds `DispatchRefinesCycle` for every forward limit, 0 included.
Its `CycleInv` says that rounds made and rounds left add up at every `pc` in the loop,
and that hooks and routes are never called from the exception handler; the proof then
maps each action to one action of `YafCycle` or to a stutter.

The second half of `YafDispatcherProofs` is about what the dispatch has written (`out`) and
what the response still holds (`body`):

| theorem | property | hypothesis | strengthened by |
|---|---|---|---|
| `RenderedOnce` | `RenderedOutputOnce` | no header is refused (`HeaderRefused` is `FALSE`) | `IdsInv`, `CountInv`, `CaughtInv` |
| `NeverTwice` | `IdsInv` | none | is inductive itself |
| `OrderedOutput` | `OutputInDispatchOrder` | `flushInstantly` is left alone while a dispatch runs | `FlushInv`, `OrderInv` |
| `OwnTemplates` | `TemplateOfInvokedAction` | none | `TemplateInv` |
| `FailoverFinds` | `FailoverFindsErrorController` | none | `FailoverInv` |

`IdsInv` says that each rendering has a number of its own and is in one place, `CountInv`
that their number is that of all renderings until the dispatch has answered: distinct and
as many means each exactly once. `CaughtInv` adds that the loop runs only while nothing
has been caught, without which the exception handler could clear what the loop has
rendered. The first hypothesis is needed, as `ResponseLost.cfg` shows; without it
`NeverTwice` remains. So is the second: a page that is flushed overtakes one that waits in
the body. `FlushInv` says that otherwise one of the two is empty, and that the choice
between `render()` and `display()`, made before the template ran, is still the one the
switch says. `TemplateInv` says that the locals of `yaf_dispatcher_handle` and the view
directory are those of the action that was entered, whatever became of the names in the
request. `FailoverInv` says that from the moment the exception handler has named the error
controller no PHP code runs that could rename the request before that controller is
loaded.

### Dispatches inside dispatches

PHP code that a dispatch calls back may call `dispatch()` itself. In
`yaf_dispatcher_dispatch` the local `request` is a pointer into the dispatcher's
property, not a copy: after the inner dispatch has put its own request there, the
outer one goes on with the inner request, in its loop condition, its hooks and its
handler. `YafNested` has that shared slot (`slot`), the other globals two dispatches
share (`view`, `inException`, `exc`), the request objects, and a stack of frames
with the locals of `dispatch` and `handle`. `Enter` is the call, the `...Returns`
actions are the ends of the callbacks, `HandlerRuns`, `ExceptionLeaves` and
`ErrorControllerThrew` the exception handler. `forward()` writes to the request that
the controller was made with (`owner`), which need not be the one in the slot, and so
does `setModuleName()` (`SetModule`), which renames the module and leaves the flag
`dispatched` alone: called from `init()` it changes the view directory under the
controller that runs. A plugin is given the request in the slot (`RequestAtHand`).
`catchException` and `throwException` are on and every controller exists; the other
cases are those of `YafDispatcher`.

A dispatch may also start inside a template, and then it matters how that template was
called. `render()` runs it in an output buffer of its own (`text` of the frame), so that
what the inner dispatch sends lands inside the page of the outer one, between what its
template wrote before and after, and is lost with it if the template throws;
`display()`, which `flushInstantly` asks for, opens no buffer, and the output goes to
the buffer of the next template around or to the client. `Writes` is `php_write`: to the
innermost buffer of the stack, or to `out`. Each page has two pieces, one that its
template writes at the beginning and one at its end, with the callback in which other
code may run between them; `kept` says whether they go by the response.
`ActionRenders` takes either way, because any callback may have switched
`flushInstantly`.

Left out here: templates that an action renders or displays by itself and output
buffers that PHP code opens (both in `YafPage`), `returnResponse`, `autoRender` and
refused headers (in `YafDispatcher`).

The run `nested` (5.6 million states) shows what survives the sharing: each dispatch
keeps its own forward limit (`RoundsPerDispatch`), the error controller runs once for
the whole stack (`HandlerOnceForAll`), the pages that a dispatch collects stay
together, wherever they are sent to (`PagesTogether`), and a controller or a dispatch
in which no other one began behaves as if it were alone (`QuietPageFromItsModule`,
`LoneForwardFollowed`). `PagesTogether` speaks of the output and of every buffer and
response on the stack: the pages of one dispatch are in order, nothing lies between
them, and what an inner dispatch has sent lies inside a page, before all of these pages
or behind them. Pages by `display()` are in no response, and other output may come
between them and inside them; nothing is claimed of them. `QuietPageFromItsModule`
excepts a controller whose `init()` has called `setModuleName()`. Without the exceptions,
a page may come from the views of another module: `PageFromItsModule` is false of the code
in two ways, by an inner dispatch and by that call (`NestedView.cfg`, section 9).
Bounds: two request objects, interchangeable; two modules; two dispatches, one inside
the other or one after the other; a forward limit of 2 and two calls of `forward()` or
`setModuleName()`, so that either dispatch can meet its limit or one be renamed after
it was forwarded; one page by `display()` (`MaxShown`), so that it can be the outer or
the inner one, before or after one that is collected. Deadlock is not checked: when the
dispatches allowed are used up the request is over.

`YafNestedProofs` proves these five, and the types, for any number of requests and
modules, any forward limit and stacks of any depth. `LoopInv` says of every frame that
its rounds and its counter add up; the counter is a local of each dispatch, and so the
shared slot does no harm. `HandlerInv` says that a frame in the exception handler
has claimed the one flag `in_exception`. For `PagesInv` a frame owns its dispatch and the
dispatches whose collected pages lie in its response or its buffer (`Own`), those that have
ended inside its templates. What two frames own is disjoint, and nothing that a
frame owns is in the output yet (`Apart`); each frame's response followed by its buffer
is in order as it stands, and the response ends where a page ends (`FrameTidy`). So
whatever a frame sends, to the client or into the buffer of a template around, brings all
the pages of the dispatches it owns at once, and cannot fall between two pages of another:
that is the lemma `TidyWritten`. `InnerInv` says that only
the innermost dispatch can be quiet or alone; `QuietInv` and `LoneInv` say for that one
what a dispatch without others relies on: that the slot has the request of its
controller, that the view directory is that of its module, and that a forward still
shows in the request when the loop has ended.

## 3. The router and the routes

### Modelling

A URI is what is left after the base URI: a sequence of segments and a trailing
slash. Segments are taken up to case and contain no `_`, `:` or `*`; slashes are not
doubled, and a URI begins with one. `Begins` records which segment is the beginning
of another, because a pattern without an end anchor and the delimiter of a map route
(`strstr`) tell these apart. A name in the request is the sequence of its parts
joined by `_`, which is how the map route builds it.

`YafRoutes` has each route as a function: whether it claims (`Matches`) and what the
request is afterwards (`Apply`). `yaf_route_pathinfo_route` is kept in its stages
(`ScanHead`, `ScanAction`, `ScanLast`, `Shift`), next to `PathMeaning`, the closed form it
should compute; `ParseParameters` likewise next to `ParametersMeaning`. PCRE is external:
`PcreMatches` is what the patterns that yaf_route_rewrite_match builds, and regex
patterns of the same shape, accept.

`YafRouter` has the table as a sequence in the order of the hash table: `Put` is
`zend_hash_update`, which keeps the place of a name that is there. The walk
(`RouteClaims`, `RouteDeclines`, `CustomClaims`, `CustomDeclines`, `SkippedAfterThrow`,
`RouteFails`) takes one step per route, `addConfig` one per entry. A custom route is PHP
code that renames the request, claims, declines or throws. `Assemble` builds a URI by any
route of the table and lets a client ask for it; a read through a null pointer is `pc =
"crashed"`.

Left out: `addRoute` from inside a custom route during the walk; query values of the
simple route with more than one segment; `assemble` of rewrite and regex routes
with variables missing (the pattern text then stays in the URI).

### Runs

| run | states | shows |
|---|---|---|
| `router` | 3,200,000 | any history of additions, replacements and configurations of three names; the last match wins; the default catches; a path means its closed form; an assembled URI leads back to its names and variables |

Bounds: three keys (the default and two more) suffice for replacement at every
position and for a walk that passes over two routes; paths have up to five segments over
a module name and another word, enough for module, controller, action, and for a
key that occurs twice or lacks its value; every built-in kind of route occurs, two
rewrites among them of which one matches a prefix of a segment and one cannot be
compiled. `action_prefer` is on, because it adds a case to the scan; the theorem
covers both.

### Proofs

`YafRouterProofs` proves, for every set of segments, modules, routes, requests and
configurations that satisfies the named assumptions (`TableAssumption`,
`InputAssumption`: routes are well-formed records, what clients ask for are URIs and
queries, arguments of `assemble` are arrays of strings):

| theorem | property | hypothesis |
|---|---|---|
| `PathInfoMeaning`, `LastValuesStay`, `PairsParsed` | (lemmas on functions, below) | |
| `TableHasNoDoubles` | `TableInv` | none |
| `LastMatchClaims` | `FirstMatchWins` | none |
| `DefaultCatches` | `DefaultCatchesAll` | none |
| `RouterTypes` | `TypeOK` | none |
| `PathsRouted` | `PathRoutedAsMeant` | none |
| `AssembledNamesBack` | `AssembledRoutesBack` | `Unambiguous`: the three variables of a simple route differ, and the second argument of `assemble` has none of the variables of a simple or supervar route |
| `FilledVariablesBack` | `VariablesComeBack` | `ReverseFits`: the reverse of a regex route names the groups as its map does |

Three theorems are about the routes as functions, for paths of any length.
`PathInfoMeaning`: the stages of `yaf_route_pathinfo_route` compute `PathMeaning`, by
cases on the length of the path and on whether its first segment names a module.
`LastValuesStay`: the loop of `yaf_router_parse_parameters` gives each key its last
value. `PairsParsed`: what `assemble` appends, key after value, is read back as the
same array. The recursive functions in these are reasoned about by the least or
greatest counterexample among the numbers up to the length of the path: such a set,
if it is not empty, has a least and a greatest member, and the step at that one is a
contradiction.

`LastMatchClaims` and `DefaultCatches` speak of the moment a walk has ended. `WalkInv`
adds what holds while it goes on: no built-in route above `at` matches, unless a route
has thrown. It needs `TableInv`, because the table must not change while `at` points
into it.

The other four speak of the request that a walk leaves and of the URI it was for.
`RouterInv` is `TableInv` together with `TypeInv` (requests have names and parameters of
the right kinds, which for each route follows from what it does to a well-formed request)
and `HistoryInv`: while a walk goes on the request is blank but for names that custom
routes gave it; a walk that has ended left the request that the claiming route makes of
it; and a URI that was asked for after `assemble` is still the one that its route
assembled. The rest is one lemma for each kind of route: what it assembles and claims, it
routes back. Both hypotheses are on the constants; `HypothesesHold` in `MCYafRouter` says
that the instance that TLC checks satisfies them. They are needed: a simple route whose
module and controller share a variable assembles only one of the two, and a second
argument with the key `m` names the module of a simple route.

## 4. The application

### Modelling

PHP code constructs, runs, bootstraps and drops `Yaf_Application` objects in any
order, also from inside `run()` (a controller) and `bootstrap()` (an `_init`
method). `YafApplication` has the objects (`app`), the singletons `$_app`
(`current`) and the dispatcher's instance (`dispatcher`), the globals in `YAF_G` that
these calls read (`options`: `throw_exception`, `bootstrap`, `directory`), the
class table's entry for Bootstrap (`class`), the pending exception and the stack of
calls that have not returned. `hist` has what the request itself has asked for.

`Construct` is the whole constructor, with one alternative for each point at which
it gives up (a second application, a bad configuration, a dispatcher that cannot be
had): such an object exists but is hollow, and the property is that nobody can find it
as the current one. `Drop` is the destructor, which clears `$_app` whoever is
destroyed. `Bootstrap` loads and checks the class and then runs the `_init` methods one
at a time (`InitReturns`); `Throw`, `Unwind` and `Catch` are PHP exceptions passing
through both. An error is thrown, or reported as E_RECOVERABLE_ERROR, which without
an error handler ends the request (`mode = "dead"`); without a current application
that path reads through a null pointer (`yaf_exception.c:47`), which is
`mode = "crashed"`. `SetAppDirectory` is the public method, on a hollow object too.

The globals belong to the worker and not to the request. `Init` is GINIT, which makes all
of them zero; `EndRequest` is RSHUTDOWN, which releases `bootstrap` and `directory`
and leaves `throw_exception` as it is (`Rshutdown`); `BeginRequest` is RINIT, which sets
`throw_exception` and nothing else of these (`Rinit`). Only the two together make a request
independent of the one before it.

Left out: `environ`, `getModules` and `getConfig`, which read one field, and the other
strings of the configuration (`ext`, `view_ext`, the default names), which RSHUTDOWN
and RINIT treat alike. The library and its namespaces are in `YafLoader`,
`in_exception` and `catch_exception` in `YafDispatcher`.

### Runs

`application` (300,000 states) checks that the current application was completely
constructed (`CurrentIsWhole`), that there is one at a time (`OneApplication`), that
`run()` dispatches once for each (`RunOnce`), that a request uses nothing that an earlier
one has left (`RequestsApart`) and that a failed second construction leaves the options of
the first alone (`OptionsOfCurrent`). `RequestsApart` does not look at the globals but at
what they do: exceptions are off only if this request has switched them off, by its
configuration or by `throwException()`, and the file that `bootstrap()` would load, on
whichever object, is one that this request has named. A constructor that is refused after
or before it has read its configuration, a hollow object and a directory that was set
later are part of that, as is a bootstrap file that RSHUTDOWN forgets, which a next
application without one of its own would load. That `Yaf_Dispatcher::getInstance()` makes
every later construction fail is `ApplicationAfterDispatcher.cfg`, in section 9.

Bounds: three objects, so that one can be dropped and two more fail or succeed
after it; two `_init` methods, so that one can fail between two; calls nested two
deep; a default bootstrap file that is right and a configured one whose class has the
wrong base. Deadlock is not checked: PHP code may stop, die or crash.

### Proofs

`YafApplicationProofs` proves these five and `TypeOK` for any number of objects, init
methods, options and scripts. `IInv` strengthens the first three: a whole application was
made while there was no dispatcher, and so a dispatcher exists now (which is what refuses
the second one even after the first was dropped and `$_app` cleared); an application whose
`run()` dispatched is marked running. `Apart` strengthens `RequestsApart`: each of the two
paths is null or was named in this request, and where an object exists, whole or hollow,
the directory is not null, because every way to an object that PHP code can reach leads
through a configuration that was read. One lemma per action preserves each.

## 5. The configuration

A section that inherits another shares the nested arrays of its parent, a nested
object shares the arrays of the object it was got from, and `toArray()` hands out
the array itself. PHP copies an array on write, but only if the writer separates it
first, and not all of this code does. So arrays in `YafConfig` have an identity and
a reference count: `heap[i]` is the i-th array, and `RefCount` counts the slots of live
arrays, the objects and the PHP variables that refer to it.

`ParseLine` is one call of the ini parser's callback: a section header with its parents
(`yaf_config_ini_parser_cb`, sections copied as deep as `yaf_deep_copy_section`
does), `key = value` with dots, or `key[] = value`. Then come the objects: `Use` is
construction from the file or from a PHP array, `get`, `set`, `offsetUnset` and
`toArray`. Each line writes its own number, so that a value says where it came from.

The run `config` (1.2 million states) checks that each line does to its own section
exactly what it says (`LinesMeanWhatTheySay`), that a read-only object hands out
nothing writable (`ReadonlyThroughGet`) and that a write to a nested object reaches
its parent (`NestedSetReachesParent`). `config_leak` shows the other direction
failing: `key[]` in a section that inherits writes into the parent's list.

Bounds: four headers: a section, one that stands alone or inherits it, and one that
inherits both; a caller that asks for a section in another case; one first segment and
one second one beside the integer keys; six lines, or six lines and operations
together: two headers, a nested key in each, and room for an object, a nested object
and a write. Deadlock is not checked: the file ends.

Left out: the iterator; string keys that look like numbers; `get("a.b")` on a
scalar; a parent that names a scalar; the words of a line, which are the ini
scanner's.

`ConfigAssumption` is the one assumption on the file: a key outside all sections is not
named like a section, and is neither asked for nor inherited as one. The code takes what
it finds under such a name for an array without looking (`Z_ARRVAL_P` of a scalar).

### Proofs

`YafConfigProofs` proves `TypeOK` and the three properties of the run `config`, for all
headers, parents, keys (of at most two segments, as in the model) and files and any
number of operations:

| theorem | property | strengthened by |
|---|---|---|
| `ConfigTypes` | `TypeOK` | `ConfigInv` |
| `ReadonlyStaysReadonly` | `ReadonlyThroughGet` | `ConfigInv` |
| `NestedSetShows` | `NestedSetReachesParent` | `ConfigInv` |
| `LinesReadAsMeant` | `LinesMeanWhatTheySay` | `ConfigInv`, `FileInv` |

`ConfigInv` says that the heap is well-formed (`IsHeap`: finite arrays of scalars and
of references to arrays that exist, none of which is the array itself or the array of
the file), that what is not under a key of the file is a section, and that a nested
object is read-only if and only if the object it was got from is. The work is in what
a line does to the heap: a write, a separation and a copied section each keep the heap
well-formed. The arrays that `yaf_deep_copy_section` merges are made in the order of
the hash table; `CopiedOver` says what the copy is whatever that order.

`ReadonlyStaysReadonly` needs the reference counts. What an object shows depends on the
arrays within its reach only (`LeavesSame`), and an array with one reference, held by
a PHP variable, is within reach of no object (`SoleVariable`): PHP code writes to no
other array in place. What is left are `set` and `offsetUnset`, which are refused
unless the object, and therefore the one it comes from (`OriginReadonly`), is
writable.

`LinesReadAsMeant` compares the file before and after each line by its leaves.
`FileInv` says that while the file is read its arrays form tables (`Tabled`): the file
and each section have an array of their own, no two sections the same one, and what is
under a key is a scalar or a list of scalars. The lists may be shared, between a
section and those that inherit it. Then the leaves are those of the slots, section by
section and key by key (`LeavesAre`), and paths of different slots are not prefixes of
each other (`PlacesApart`). A value line sets one slot (`SlotSet`) and leaves the
lists of all other slots alone (`ListsKept`): an entry line because a list that is
shared is separated first, and one that is not is in no other slot (`OneSlot`, from
the reference counts); a list line by the hypothesis of the property. For a header,
`Heir` describes the section while its parents are copied into it, from the last
listed to the first: each copy puts the leaves of a parent before those that are
there, unless they hide each other (`HeirInherits`), and what that amounts to is
`Inherited` (`InheritView`).

## 6. Pages

`YafPage` has what happens between a template and the client. PHP has one stack of
output buffers (`buf`); `render()` opens one, runs the template, and takes the
text out again; the template may render and display others, throw, catch, and open
and close buffers by itself (`ObStart`, `ObEnd`). `RenderEnds`, `DisplayEnds` and
`TemplateThrew` are the three ends. A page that was returned becomes output
(`EchoPage`) or goes into a named part of the response (`PutPage`: append, prepend,
replace); `ClearPart`, `ClearBody`, `SetHeader` and `ClearHeaders` are the setters of the
response. Text is a sequence of chunks, each of which knows the
`render()` it was written for. `hist`, and in a call the
field `base` (how many buffers there were when it began), are history that only the
properties and the proofs read. `clearBody()` tests a variable it never set
(`yaf_response.c:357`): every outcome, a wild pointer included, is possible.

Three pieces of code send a response, and they differ. `Respond` is the public
`response()` (`yaf_response_http.c:301`), which PHP code may call at any time, also
in a template: it writes the body into the active buffer and leaves it in the
response. `HandlerSends` is `yaf_response_send` at the end of the exception handler, which
leaves the body too, sends no headers and does not care about a pending exception.
`DispatchEnds` is the end of `yaf_dispatcher_dispatch`, also of a dispatch that a template
began: it calls `response()` and drops the body, whatever that answered. The SAPI refuses
headers once the client has output (`Refused`); `response()` then writes nothing.

The run `page` (7.3 million states) checks that a page is exactly what its template
wrote, in order (`PageIsItsTemplate`), that nothing of a failed one is left
(`FailedPageIsGone`), that the buffers are as they were (`BuffersRestored`) and that
no text is in two places (`NothingTwice`). The first three hold while templates close
only the buffers they opened (`tidy`): a template that throws with a buffer of its
own open makes the view discard that one instead of its own. `NothingTwice` excepts the
chunks that `Respond` or `HandlerSends` has sent while they stayed in the body
(`hist.shown`); of these the code keeps a copy on purpose, which `tests/005.phpt:30-44`
reads with `getBody()` after sending it. Everything else, whatever templates, exceptions
and buffers do, is in its buffer, in the hands of PHP code, in one part of the response or
with the client, and a dispatch that ends moves it from the one to the other.

Bounds: three calls, so that a template inside a template has a sibling; two
chunks; one buffer opened by PHP code; two parts; one response that is sent and kept
(`MaxShows`), so that the dispatcher sends it a second time. Deadlock is not checked:
the calls allowed are used up. PHP code has each page once: copies that it makes itself,
with `getBody()`, with `__toString()` or by echoing a string twice, are not modelled.

`YafPageProofs` proves all four, and `TypeOK`, for any number of templates, calls,
chunks, buffers and parts, nested to any depth:

| theorem | property | strengthened by |
|---|---|---|
| `PageTypes` | `TypeOK` | is inductive itself |
| `PageNeverTwice` | `NothingTwice` | `TwiceInv` |
| `StackRestored` | `BuffersRestored` | `LayoutInv` |
| `FailedPagesGone` | `FailedPageIsGone` | `RegionInv` |
| `PagesAreTheirs` | `PageIsItsTemplate` | `PageInv` |

`TwiceInv` separates the places where text can be: the output with the buffers, the pages
that PHP code holds, the parts of the response; no two share a chunk outside `hist.shown`,
and none has one that is still to be written. Its parts (`Places`) take that set as a
parameter, so that the steps that move text are shown once for any exception. It needs no
hypothesis on templates. The other three properties speak of tidy runs, and so do their
invariants. `LayoutInv` says how the stack of buffers is laid out: the buffers of an inner
call lie above those of the calls around it, the view's own buffers are exactly the ones
of calls that run, and the others are those that PHP code has opened and not closed.
`RegionInv` says whose text is where: what a running template writes, and the pages it was
given, lie in the buffers between its `base` and the next call's and nowhere else, and
what has left the buffers belongs to no call that runs or failed. `Finished` says that
what went into the response, or through it into the page of a template around a dispatch,
were pages that had returned. Discarding the buffers of a failed call then removes its
text and no other. `PageInv` adds that what a template wrote straight into its page is in
the buffer of that page (`Directs`) and that a lower buffer holds an earlier part of it
(`Orders`), which is what makes the text come out in order when a buffer is flushed into
the one below.

Left out: the variables of a template; header values, the response code and
`setRedirect`, which go straight to the SAPI. `eval` makes and removes its buffer like
`render`.

## 7. The loader

### Modelling

Whether a class is looked for in the local or in the global library is found by
searching for the first part of its name in one string that holds all local
namespaces. To do so `yaf_loader_is_local_namespace` writes a NUL after the first
part of the name and puts the character back at the end. The name is not a copy, and
with opcache a literal lies in memory that all workers of a server share. So the
processes of `YafLoader` are workers, and `cut` is the set of names that are
shortened at the moment; `Shared` says whether the workers see each other's.

`Begin` is the beginning of that search, `Search` one turn of its loop,
`SearchEndsWith` its end. `Autoload`, `Compose`, `Compile` and `AutoloadReturns`
are the stages of `autoload`: the directory a name asks for (a suffix `Model`,
`Plugin` or `Controller` the application, the rest a library), the path, the file, the
answer. A file is executed inside the call that loads it (`Execute`, `FileEnds`): its
class is declared at once, or after its parent has been loaded, and PHP code at its
top level may call the loader again (`Import`, `IsLocalName`, `Autoload`), throw
and catch. `RegisterLocalNamespace`, `ClearLocalNamespace`, `SetLibraryPath`,
`GetInstance` and `NewApplication` set what the search and the paths depend on.
`EndRequest` is RSHUTDOWN and the next RINIT, `Killed` a worker that ends in the
middle of something: what it has written to shared memory stays as it is.

The search may run past the end of the namespaces when a name changes length under
it; what is read there is arbitrary, so both outcomes are possible.

Left out: `yaf.name_suffix = 0` and `yaf.name_separator`, which move a suffix to the front
or add a character; `yaf.st_compatible`; case; names with both `\` and `_` in
`isLocalName` (which looks for the `_` first, where `autoload` sees only `_`).

### Runs

`loader` (2.0 million states) has one worker and checks that each file that is
executed for a class is the one the name and the registered namespaces say, and
`isLocalName` answers likewise (`RightFile`), that no import runs a file a second
time (`ImportOnce`) and that a search makes no more turns than the namespaces have
characters (`SearchBounded`). With two workers and names in shared memory
`RightFile` fails: that is the run `loader_race`.

Bounds: a library class whose parent is a model, the same name written with `\`, a
class of another library, and the model; words that begin and end with each other, so
that a name occurs inside others; namespaces of up to four pieces, so that two can be
registered and a search meets a false start before the right place; calls four deep, so
that a file loaded by an autoload imports another. `SearchBounded` stands for the
termination of the search, which as a temporal property takes TLC too long here.
Deadlock is checked.

### Proofs

`YafLoaderProofs` proves the three, and `TypeOK`, for any number of workers, all class
names, files and namespaces, and calls of any depth:

| theorem | property | hypothesis | the hypothesis is needed |
|---|---|---|---|
| `LoaderTypes` | `TypeOK` | none | |
| `SearchEnds` | `SearchBounded` | `Headed`: no class name begins with a separator | `LoaderUnderscore.cfg` |
| `ImportedOnce` | `ImportOnce` | `Canonical`: directories are spelt as `realpath()` spells them | `LoaderLink.cfg` |
| `RightLibrary` | `RightFile` | names are not shared | `LoaderRace.cfg` |
| | | `Distinct`: nothing registered has the first part of a name twice in a row | `LoaderRepeat.cfg` |
| | | `Named`: as `Headed`, no `:` in a name, and `_` before `\` in a name with both | section 7, left out |

The hypotheses are on constants, and the instance of the run `loader` satisfies all of
them. `TextAssumption` says of the constants what they are: names and namespaces are
texts (`Text`, sequences of words and the four characters that the code tells apart),
and files have paths.

`WorkerInv` is the types together with the shape of a stack: an exception is never
pending inside the loader's own code, and a search has namespaces to search in.
`TurnsInv` says that each turn of the search has moved it by at least one piece, as the
first part of a name is never empty, also when another worker has shortened the name.
`OnceInv` says that everything that was executed is recorded in `included`, which is
what `import` looks at before it opens a file. `NameInv` has three parts: the
search has passed no registered name and stands at the beginning or behind an
occurrence of the first part (`TopInv`, by the lemmas on substrings); the names that are
cut are just those of the innermost call that searches (`CutInv`), so that the path is
made of a whole name; no first part is repeated in the namespaces (`TextInv`),
which registering keeps because a `:` comes between two of them.

## 8. What is only model-checked

One property of the passing runs has no theorem: the liveness property
`DispatchTerminates`, which is beyond the prover. `RefinesCycle` is proved without the
fairness of `YafCycle`. All other invariants and action properties of the passing runs
are proved, some under the hypotheses that the tables above name. The violations of
section 9 are found by TLC.

`YafNested`, `YafPage`, `YafLoader` and `YafApplication` define a `TypeOK` that their
configurations do not list; `NestedTypes`, `PageTypes`, `LoaderTypes` and
`ApplicationTypes` prove it.

## 9. Where code and words disagree

The violation runs `shared_class`, `config_leak` and `loader_race` are described under
`findings` in `PROJECT.json`. Eleven more configurations, not among the runs, each
end in a counterexample as well:

| configuration | module | property | what it shows |
|---|---|---|---|
| `ForwardLimitZero.cfg` | `MCYafDispatcher` | `RoundsWithinForwardLimit` | `yaf.forward_limit = 0` makes the counter wrap (`yaf_dispatcher.c:937`; the comment at line 920 promises the limit) |
| `Impostor.cfg` | `MCYafDispatcher` | `OnlyControllersExecuted` | a class refused by one dispatch stays in the class table and is run by the next (`yaf_dispatcher.c:311`) |
| `RouteUnmatched.cfg` | `MCYafDispatcher` | `OnlyClaimedRequestsGoOn` | "Routing request failed" is never raised (`yaf_dispatcher.c:842`) |
| `ResponseLost.cfg` | `MCYafDispatcher` | `RenderedOutputOnce` | when a header is refused, the page is dropped without an error (`responses/yaf_response_http.c:178`; the dispatcher's comment at `yaf_dispatcher.c:952` says the response is output) |
| `ApplicationAfterDispatcher.cfg` | `MCYafApplication` | `ConstructorCompletes` | once `Yaf_Dispatcher::getInstance()` was called no application can be constructed (`yaf_application.c:369`; comment at line 308) |
| `NestedView.cfg` | `MCYafNested` | `PageFromItsModule` | a page comes from the views of another module than its controller: `init()` has called `setModuleName()` (the trace TLC finds, `yaf_dispatcher.c:588`), or the action has started a dispatch (`yaf_dispatcher.c:596`); the comment at line 585 promises the views of the module at hand |
| `AssembleStar.cfg` | `MCYafRouter` | `AssembleSucceeds` | `assemble` of a rewrite route with `*` reads through a null pointer when nothing is left for the `*` (`yaf_route_rewrite.c:277`) |
| `ReadonlyAlias.cfg` | `MCYafConfig` | `ReadonlyKept` | a writable `Yaf_Config_Simple` over the same PHP array changes a read-only one (`yaf_config_simple.c:185`) |
| `LoaderUnderscore.cfg` | `MCYafLoader` | `SearchBounded` | a class name that begins with `_` has an empty first part, which is found at the same place for ever (`yaf_loader.c:190`) |
| `LoaderRepeat.cfg` | `MCYafLoader` | `RightFile` | the namespace `FooFoo` makes the class `Foo_Bar` local: after a false start the search goes on in the middle of a name and takes that place for the beginning of the list (`pos == ns`, `yaf_loader.c:190`) |
| `LoaderLink.cfg` | `MCYafLoader` | `ImportOnce` | a library behind a symbolic link is imported again, because the path as given is compared with resolved ones (`yaf_loader.c:569`) |

Four more were met while modelling and have no configuration:

- `forward()` in `init()` recurses in `yaf_dispatcher_handle` (line 581) outside the loop
  that `forward_limit` counts;
- a map route with `controllerPrefer` routes to the controller
  (`yaf_route_map.c:119`) but assembles from `:a` (line 172), and the other way round
  without it;
- `yaf_route_instance` looks up `reverse` and `verify` under the key `route`
  (`yaf_route_interface.c:85-90`), so a configured regex route cannot assemble;
- `yaf_application.c:403` has a note in the middle of an identifier; it is read as
  `yaf_loader_instance`.

## 10. Not modelled

- *Loader*: the settings in section 7. The modules of the dispatcher and the
  application have the loader's outcomes (missing, no such class, wrong base class,
  right) as the constant `Script`.
- *Session and registry*: every method is one operation on a hash.
- *Super-globals and URIs* of the request: reads of what the SAPI provides.
- `registerPlugin` inside a hook (`yaf_dispatcher.c:1101`) and `addRoute` inside a
  custom route: what happens depends on when PHP's hash table moves its elements.
- `php-7.1.3/` is a vendored copy of PHP, read for what the extension calls
  (`zend_call_function` while an exception is pending, `php_error_cb`, `smart_str`,
  output buffers, hash tables); `phoenix_yafapplication_analysis.c` is a reading note
  that is not compiled. Tests and tools are documentation here. Yaf's own code is
  under one percent of the lines of the repository.

## 11. Plan

Done: the models and proofs of the sections above. What remains:

1. `registerPlugin` inside a hook, on top of a model of PHP's hash table.
2. The recursion of `forward()` in `init()`, which `MaxInitForwards` bounds here and
   nothing bounds in the code.
3. The termination of the loader's search as a temporal property on a smaller
   instance; `SearchBounded` stands for it.
4. What sections 5 and 7 leave out of the configuration and the loader.
