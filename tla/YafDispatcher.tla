--------------------------- MODULE YafDispatcher ---------------------------
(***************************************************************************)
(* The request cycle of Yaf: yaf_dispatcher_dispatch with its plugin       *)
(* hooks, the forward loop, yaf_dispatcher_handle (controller, init,       *)
(* action, render), the exception handler with its fail-over, and the      *)
(* per-request globals that RINIT and RSHUTDOWN set and clear.             *)
(*                                                                         *)
(* Everything between two callbacks into PHP code is one step.  A callback *)
(* (plugin hook, route, init, action, template) is a value of pc; while it *)
(* runs, PHP code may call any of the API actions (forward, setDispatched, *)
(* catchException ...) any number of times, and then returns or throws.    *)
(*                                                                         *)
(* Names are spellings: Canon[n] is what yaf_dispatcher_fix_default makes  *)
(* of a module or controller name n, Lower[n] of an action name.  Class    *)
(* lookups and yaf_application_is_module_name ignore case, so they use     *)
(* Canon[n]; the file system and zend_string_equals use n itself.          *)
(***************************************************************************)
EXTENDS Naturals, Sequences

CONSTANTS
  Names,             \* every spelling of a module, controller or action name
  Canon,             \* its spelling as a module or controller: Index
  Lower,             \* its spelling as an action: index
  Modules,           \* application.modules, as parse_option stores them
  DefaultModule, DefaultController, DefaultAction,
  ErrorController, ErrorAction,
  NoName,            \* null or the empty string
  Keep,              \* a name that forward() does not mention
  Script,            \* what the script of <<module, controller>> declares
  RouteTargets,      \* names a route may leave in the request
  Targets,           \* arguments of forward() and of the request's setters
  Throwables,        \* what PHP code throws
  Flags,             \* the switches PHP code flips while it runs
  Overrides,         \* values of a controller's own yafAutoRender property
  AppDir,            \* whether an application sets YAF_G(directory): TRUE, FALSE or both
  HeaderRefused,     \* the SAPI may refuse a header of the response (output has begun)
  NumPlugins,
  ForwardLimit,      \* yaf.forward_limit
  UintMax,           \* the largest uint
  MaxInitForwards,   \* bound: forwards made by init() in one dispatch
  MaxDispatches      \* bound: dispatches in one HTTP request

None == "none"

\* yaf_buildin_exceptions: the exceptions of the framework itself
YafExceptions ==
  {"StartupError", "RouterFailed", "DispatchFailed", "LoadFailed",
   "LoadFailed_Module", "LoadFailed_Controller", "LoadFailed_Action",
   "LoadFailed_View", "TypeError"}

Exceptions == YafExceptions \cup Throwables \cup {"Exception"}

\* instanceof_function(EG(exception)->ce, zend_exception_get_default())
Catchable(e) == e # "Error"

\* The switches, and whether YAF_G(directory) is set (an application exists).
Switches ==
  {"throwException", "catchException", "returnResponse", "flushInstantly",
   "autoRender"}

OptionNames == Switches \cup {"directory"}

ScriptKinds == {"missing", "noclass", "notcontroller", "controller"}

Target == [module: Names \cup {NoName, Keep}, controller: Names \cup {NoName, Keep},
           action: Names \cup {NoName, Keep}]

ASSUME NamesAssumption ==
  /\ NoName \notin Names /\ Keep \notin Names /\ NoName # Keep
  /\ Canon \in [Names -> Names] /\ Lower \in [Names -> Names]
  /\ Modules \subseteq Names
  /\ {DefaultModule, DefaultController, DefaultAction, ErrorController,
      ErrorAction} \subseteq Names

ASSUME UserCodeAssumption ==
  /\ RouteTargets \subseteq Target /\ Targets \subseteq Target
  /\ Script \in [Names \X Names -> ScriptKinds]
  /\ None \notin Throwables
  /\ Flags \subseteq Switches
  /\ Overrides \subseteq BOOLEAN
  /\ AppDir \subseteq BOOLEAN /\ HeaderRefused \in BOOLEAN

ASSUME NumbersAssumption ==
  /\ NumPlugins \in Nat /\ MaxInitForwards \in Nat /\ MaxDispatches \in Nat
  /\ UintMax \in Nat \ {0} /\ ForwardLimit \in 0 .. UintMax

VARIABLES
  request,       \* the Yaf_Request of the current dispatch
  options,       \* the switches of the dispatcher and of yaf_globals
  exc,           \* EG(exception)
  errno,         \* Yaf_Application::$_err_no
  inException,   \* YAF_G(in_exception)
  classes,       \* EG(class_table): who declared the class <X>Controller
  viewDir,       \* YAF_G(view_directory)
  pc,            \* where the C code is
  plug,          \* the next plugin of the running hook
  ctx,           \* who called yaf_dispatcher_handle: "loop", "error", "failover"
  frame,         \* the locals of yaf_dispatcher_handle
  handled,       \* what yaf_dispatcher_handle returned
  nesting,       \* the local of yaf_dispatcher_dispatch
  body,          \* the content of the response, one element per rendering
  out,           \* what the client has been sent in this dispatch
  result,        \* what yaf_dispatcher_dispatch returned
  hist           \* history, read by the properties only

vars == <<request, options, exc, errno, inException, classes, viewDir, pc, plug,
          ctx, frame, handled, nesting, body, out, result, hist>>

Hooks == {"routerStartup", "routerShutdown", "dispatchLoopStartup",
          "preDispatch", "postDispatch", "dispatchLoopShutdown"}

Callbacks == Hooks \cup {"route", "init", "action", "render", "display"}

PCs == Callbacks \cup {"idle", "handle", "handled", "dead"}

NameOrNone == Names \cup {NoName}

Request == [module: NameOrNone, controller: NameOrNone, action: NameOrNone,
            dispatched: BOOLEAN, routed: BOOLEAN, exception: Exceptions \cup {None}]

\* A class: the module whose script declared it, and whether it extends
\* Yaf_Controller_Abstract
Class == [module: NameOrNone, isController: BOOLEAN]

NoClass == [module |-> NoName, isController |-> FALSE]

\* A view directory: none yet, <application>/views or modules/<module>/views
ViewDir == [kind: {"unset", "application", "module"}, module: NameOrNone]

Frame == [module: Names,           \* the module when the controller was loaded
          isDefModule: BOOLEAN,    \* the local is_def_module
          class: Class,            \* the controller's class
          controller: NameOrNone,  \* the controller's name property
          action: NameOrNone]      \* the local action

\* The request's names when an action is entered, and the module it had when
\* the controller was loaded.
Invocation == [loaded: NameOrNone, module: NameOrNone, controller: NameOrNone,
               action: NameOrNone]

\* One rendering: its number, the template it used and the action it is of.
Rendering == [id: Nat, dir: ViewDir, controller: NameOrNone, action: NameOrNone,
              of: Invocation]

History == [rounds: Nat,       \* turns of the dispatch loop, this dispatch
            inits: Nat,        \* forwards made by init(), this dispatch
            renders: Nat,      \* renderings, this dispatch
            caught: Exceptions \cup {None},  \* what the handler took, this dispatch
            excused: BOOLEAN,  \* an errno was set or a render returned FALSE
            errorRan: BOOLEAN, \* the exception handler found a controller
            invoked: Invocation,   \* the last action entered, this dispatch
            routings: Nat,     \* times this request object was routed
            dispatches: Nat,   \* dispatches in this HTTP request
            handlers: Nat]     \* runs of the exception handler, this HTTP request

NoDir == [kind |-> "unset", module |-> NoName]

NoInvocation == [loaded |-> NoName, module |-> NoName, controller |-> NoName,
                 action |-> NoName]

NewHistory == [rounds |-> 0, inits |-> 0, renders |-> 0,
               caught |-> None, excused |-> FALSE, errorRan |-> FALSE,
               invoked |-> NoInvocation, routings |-> 0,
               dispatches |-> 0, handlers |-> 0]

TypeOK ==
  /\ request \in Request
  /\ options \in [OptionNames -> BOOLEAN]
  /\ exc \in Exceptions \cup {None}
  /\ errno \in Exceptions \cup {None}
  /\ inException \in BOOLEAN
  /\ classes \in [Names -> Class]
  /\ viewDir \in ViewDir
  /\ pc \in PCs
  /\ plug \in 1 .. NumPlugins + 1
  /\ ctx \in {"loop", "error", "failover"}
  /\ frame \in Frame
  /\ handled \in BOOLEAN
  /\ nesting \in 0 .. UintMax
  /\ body \in Seq(Rendering)
  /\ out \in Seq(Rendering)
  /\ result \in {"none", "response", "null"}
  /\ hist \in History

-----------------------------------------------------------------------------
(* Helpers of the C code *)

\* yaf_dispatcher_fix_default
FixName(n, default, spelling) == IF n = NoName THEN default ELSE spelling[n]

FixDefault(req) ==
  [req EXCEPT !.module = FixName(@, DefaultModule, Canon),
              !.controller = FixName(@, DefaultController, Canon),
              !.action = FixName(@, DefaultAction, Lower)]

\* The names forward() and the setters of the request write.
SetName(old, new) == IF new = Keep THEN old ELSE new

SetNames(req, t) ==
  [req EXCEPT !.module = SetName(@, t.module),
              !.controller = SetName(@, t.controller),
              !.action = SetName(@, t.action)]

\* A Yaf_Request_Http, or a Yaf_Request_Simple without names: not routed.
NewRequest == [module |-> NoName, controller |-> NoName, action |-> NoName,
               dispatched |-> FALSE, routed |-> FALSE, exception |-> None]

\* A Yaf_Request_Simple given names is born routed.
Given(n, default) == IF n \in {Keep, NoName} THEN default ELSE n

SimpleRequest(t) ==
  [NewRequest EXCEPT !.module = Given(t.module, DefaultModule),
                     !.controller = Given(t.controller, DefaultController),
                     !.action = Given(t.action, DefaultAction),
                     !.routed = TRUE]

\* yaf_trigger_error: the exception pending afterwards.  With throw_exception
\* off it raises E_RECOVERABLE_ERROR, which drops a pending exception and calls
\* the PHP error handler; that handler returns or throws.  Without a handler
\* the error is fatal, and without an application object to store the error
\* number in, the engine cannot continue (see Bailout).
TriggerError(code) ==
  CASE options.throwException -> {code}
    [] ~options.throwException /\ options.directory -> {None, "Exception"}
    [] ~options.throwException /\ ~options.directory -> {}

SetErrno(code) == errno' = IF options.throwException THEN errno ELSE code

\* --nesting on a uint
Decrement(n) == IF n = 0 THEN UintMax ELSE n - 1

\* yaf_application_is_module_name
IsModuleName(n) == \E m \in Modules : Canon[m] = Canon[n]

\* Mutant: the first plugin is taken to be number 0.
EnterHookFromZero(h) == pc' = h /\ plug' = 0

\* YAF_PLUGIN_HANDLE starts calling the plugins in registration order.
EnterHook(h) == pc' = h /\ plug' = 1

HookDone(h) == pc = h /\ plug = NumPlugins + 1 /\ exc = None

\* The request that yaf_dispatcher_exception_handler hands to the ErrorController.
ErrorRequest(req, e) ==
  [req EXCEPT !.module = IF @ = NoName THEN DefaultModule ELSE @,
              !.controller = ErrorController, !.action = ErrorAction,
              !.exception = e, !.dispatched = FALSE]

\* Mutant: the handler does not look at in_exception.
EntersHandlerAgain(e) == e # None /\ options.catchException /\ Catchable(e)

\* YAF_EXCEPTION_HANDLE followed by return NULL, for a pending exception e
\* (None when there is none): either the exception handler starts, or dispatch
\* returns NULL, the response object is freed and e stays pending.
EntersHandler(e) ==
  e # None /\ options.catchException /\ Catchable(e) /\ ~inException

Leave(e, req, h) ==
  IF EntersHandler(e)
  THEN /\ inException' = TRUE
       /\ exc' = None
       /\ request' = ErrorRequest(req, e)
       /\ pc' = "handle" /\ ctx' = "error"
       /\ hist' = [h EXCEPT !.caught = e, !.handlers = @ + 1]
       /\ UNCHANGED <<body, result>>
  ELSE /\ exc' = e
       /\ request' = req
       /\ pc' = "idle" /\ result' = "null" /\ body' = <<>>
       /\ hist' = h
       /\ UNCHANGED <<inException, ctx>>

-----------------------------------------------------------------------------
(* yaf_dispatcher_dispatch up to the dispatch loop *)

StartDispatch(req, n) ==
  /\ pc = "idle" /\ exc = None /\ hist.dispatches < MaxDispatches
  /\ IF req.routed
     THEN request' = FixDefault(req) /\ EnterHook("dispatchLoopStartup")
     ELSE request' = req /\ EnterHook("routerStartup")
  /\ nesting' = ForwardLimit
  /\ ctx' = "loop" /\ result' = "none" /\ body' = <<>> /\ out' = <<>>
  /\ hist' = [NewHistory EXCEPT !.routings = n, !.handlers = hist.handlers,
                                !.dispatches = hist.dispatches + 1]
  /\ UNCHANGED <<options, exc, errno, inException, classes, viewDir, frame, handled>>

\* Yaf_Application::run, or Yaf_Dispatcher::dispatch with the same request
Dispatch == StartDispatch(request, hist.routings)

\* Yaf_Dispatcher::dispatch with another request object
DispatchNew ==
  \E req \in {NewRequest} \cup {SimpleRequest(t) : t \in RouteTargets} :
    StartDispatch(req, 0)

PluginReturns ==
  /\ pc \in Hooks /\ plug <= NumPlugins
  /\ plug' = plug + 1
  /\ UNCHANGED <<request, options, exc, errno, inException, classes, viewDir, pc,
                 ctx, frame, handled, nesting, body, out, result, hist>>

\* The engine refuses to call the remaining plugins while an exception is pending.
PluginThrows ==
  /\ pc \in Hooks /\ plug <= NumPlugins
  /\ exc' \in Throwables
  /\ plug' = NumPlugins + 1
  /\ UNCHANGED <<request, options, errno, inException, classes, viewDir, pc,
                 ctx, frame, handled, nesting, body, out, result, hist>>

\* The YAF_EXCEPTION_HANDLE that follows each hook.
HookThrew ==
  /\ pc \in Hooks /\ exc # None
  /\ Leave(exc, request, hist)
  /\ UNCHANGED <<options, errno, classes, viewDir, plug, frame, handled, nesting, out>>

RouterStartupDone ==
  /\ HookDone("routerStartup")
  /\ pc' = "route"
  /\ UNCHANGED <<request, options, exc, errno, inException, classes, viewDir, plug,
                 ctx, frame, handled, nesting, body, out, result, hist>>

\* Mutant: the router leaves it to dispatch to mark the request as routed.
RoutedToLate(t) == SetNames(request, t)

\* yaf_router_route: some route returns TRUE.
RoutedTo(t) == [SetNames(request, t) EXCEPT !.routed = TRUE]

RouteMatches ==
  /\ pc = "route"
  /\ \E t \in RouteTargets : request' = FixDefault(RoutedTo(t))
  /\ EnterHook("routerShutdown")
  /\ hist' = [hist EXCEPT !.routings = @ + 1]
  /\ UNCHANGED <<options, exc, errno, inException, classes, viewDir, ctx, frame,
                 handled, nesting, body, out, result>>

\* What the routes that do not claim the request may have written to it.
Declined == {request} \cup {SetNames(request, t) : t \in RouteTargets}

\* No route returns TRUE.  yaf_dispatcher_route falls through to "return 1" all
\* the same, so dispatch goes on with the default names; the error "Routing
\* request failed" is for a dispatcher without a router, which cannot be.
RouteUnmatched ==
  /\ pc = "route"
  /\ \E req \in Declined : request' = FixDefault(req)
  /\ EnterHook("routerShutdown")
  /\ UNCHANGED <<options, exc, errno, inException, classes, viewDir, ctx, frame,
                 handled, nesting, body, out, result, hist>>

\* A route throws: the engine calls neither the remaining routes nor the plugins
\* of routerShutdown, and the exception is met after that hook.
RouteThrows ==
  /\ pc = "route"
  /\ \E req \in Declined : request' = FixDefault(req)
  /\ exc' \in Throwables
  /\ pc' = "routerShutdown" /\ plug' = NumPlugins + 1
  /\ UNCHANGED <<options, errno, inException, classes, viewDir, ctx, frame, handled,
                 nesting, body, out, result, hist>>

RouterShutdownDone ==
  /\ HookDone("routerShutdown")
  /\ request' = [request EXCEPT !.routed = TRUE]
  /\ EnterHook("dispatchLoopStartup")
  /\ UNCHANGED <<options, exc, errno, inException, classes, viewDir, ctx, frame,
                 handled, nesting, body, out, result, hist>>

LoopStartupDone ==
  /\ HookDone("dispatchLoopStartup")
  /\ EnterHook("preDispatch")
  /\ hist' = [hist EXCEPT !.rounds = 1]
  /\ UNCHANGED <<request, options, exc, errno, inException, classes, viewDir, ctx,
                 frame, handled, nesting, body, out, result>>

PreDispatchDone ==
  /\ HookDone("preDispatch")
  /\ pc' = "handle"
  /\ UNCHANGED <<request, options, exc, errno, inException, classes, viewDir, plug,
                 ctx, frame, handled, nesting, body, out, result, hist>>

-----------------------------------------------------------------------------
(* yaf_dispatcher_handle *)

\* Mutant: the exception is cleared on the way out of yaf_dispatcher_handle.
HandleReturnsClean(ok, e) ==
  /\ pc' = "handled" /\ handled' = ok
  /\ exc' = IF inException THEN e ELSE None

\* The return of yaf_dispatcher_handle with exception e pending.
HandleReturns(ok, e) == pc' = "handled" /\ handled' = ok /\ exc' = e

ClassLoaded(c) == classes[Canon[c]] # NoClass

\* The first check of yaf_dispatcher_handle that fails, as the error it raises.
NameFailure ==
  IF ~options.directory THEN "StartupError"
  ELSE IF request.module = NoName THEN "DispatchFailed"
  ELSE IF ~IsModuleName(request.module) THEN "LoadFailed_Module"
  ELSE IF request.controller = NoName THEN "DispatchFailed"
  ELSE None

\* yaf_dispatcher_get_controller: a class that is already in the class table is
\* taken as it is; otherwise the module's script is loaded and its class checked.
LoadFailure(m, c) ==
  IF ClassLoaded(c) THEN None
  ELSE CASE Script[<<m, c>>] = "missing" -> "LoadFailed_Controller"
         [] Script[<<m, c>>] = "noclass" -> "LoadFailed"
         [] Script[<<m, c>>] = "notcontroller" -> "TypeError"
         [] Script[<<m, c>>] = "controller" -> None

HandleFailure ==
  IF NameFailure # None THEN NameFailure
  ELSE LoadFailure(request.module, request.controller)

\* The class table after the lookup.
DeclareClass(m, c) ==
  IF ~ClassLoaded(c) /\ Script[<<m, c>>] \in {"notcontroller", "controller"}
  THEN [classes EXCEPT ![Canon[c]] =
          [module |-> m, isController |-> Script[<<m, c>>] = "controller"]]
  ELSE classes

HandleFails ==
  /\ pc = "handle" /\ HandleFailure # None
  /\ request' = [request EXCEPT !.dispatched = TRUE]
  /\ classes' = IF NameFailure # None THEN classes
                ELSE DeclareClass(request.module, request.controller)
  /\ \E e \in TriggerError(HandleFailure) : HandleReturns(FALSE, e)
  /\ SetErrno(HandleFailure)
  /\ hist' = [hist EXCEPT !.excused = @ \/ ~options.throwException]
  /\ UNCHANGED <<options, inException, viewDir, plug, ctx, frame, nesting, body, out,
                 result>>

\* The controller is created and its init() is called.
HandleLoads ==
  /\ pc = "handle" /\ HandleFailure = None
  /\ request' = [request EXCEPT !.dispatched = TRUE]
  /\ classes' = DeclareClass(request.module, request.controller)
  /\ frame' = [module |-> request.module,
               isDefModule |-> request.module = DefaultModule,
               class |-> classes'[Canon[request.controller]],
               controller |-> NoName, action |-> NoName]
  /\ pc' = "init"
  /\ hist' = [hist EXCEPT !.errorRan = @ \/ ctx # "loop"]
  /\ UNCHANGED <<options, exc, errno, inException, viewDir, plug, ctx, handled,
                 nesting, body, out, result>>

\* init() called forward(): yaf_dispatcher_handle calls itself, without
\* fix_default and without the loop's count.
InitForwarded ==
  /\ pc = "init" /\ ~request.dispatched
  /\ pc' = "handle"
  /\ UNCHANGED <<request, options, exc, errno, inException, classes, viewDir, plug,
                 ctx, frame, handled, nesting, body, out, result, hist>>

InitThrows ==
  /\ pc = "init"
  /\ \E e \in Throwables : HandleReturns(FALSE, e)
  /\ UNCHANGED <<request, options, errno, inException, classes, viewDir, plug, ctx,
                 frame, nesting, body, out, result, hist>>

\* is_def_module was computed before init() ran; module and controller are
\* pointers into the request, so what init() wrote there is what is read here.
ViewDirOf(isDef, m) ==
  IF isDef THEN [kind |-> "application", module |-> NoName]
  ELSE [kind |-> "module", module |-> m]

SetUpAction ==
  /\ pc = "init" /\ request.dispatched
  /\ viewDir' = ViewDirOf(frame.isDefModule, request.module)
  /\ frame' = [frame EXCEPT !.controller = request.controller,
                            !.action = request.action]

InvokedNames ==
  [loaded |-> frame.module, module |-> request.module,
   controller |-> request.controller, action |-> request.action]

\* The controller has the method, or yaf_dispatcher_get_action finds a class.
InitReturns ==
  /\ SetUpAction
  /\ pc' = "action"
  /\ hist' = [hist EXCEPT !.invoked = InvokedNames]
  /\ UNCHANGED <<request, options, exc, errno, inException, classes, plug, ctx,
                 handled, nesting, body, out, result>>

ActionNotFound ==
  /\ SetUpAction
  /\ \E code \in {"LoadFailed_Action", "LoadFailed", "TypeError"} :
       /\ \E e \in TriggerError(code) : HandleReturns(FALSE, e)
       /\ SetErrno(code)
  /\ hist' = [hist EXCEPT !.excused = @ \/ ~options.throwException]
  /\ UNCHANGED <<request, options, inException, classes, plug, ctx, nesting, body,
                 out, result>>

ActionThrows ==
  /\ pc = "action"
  /\ \E e \in Throwables : HandleReturns(FALSE, e)
  /\ UNCHANGED <<request, options, errno, inException, classes, viewDir, plug, ctx,
                 frame, nesting, body, out, result, hist>>

\* The action returned FALSE, or neither the controller's own yafAutoRender nor
\* the dispatcher's switch asks for a rendering.
ActionReturns ==
  /\ pc = "action"
  /\ HandleReturns(TRUE, None)
  /\ UNCHANGED <<request, options, errno, inException, classes, viewDir, plug, ctx,
                 frame, nesting, body, out, result, hist>>

ActionAutoRenders ==
  /\ pc = "action" /\ TRUE \in {options.autoRender} \cup Overrides
  /\ pc' = IF options.flushInstantly THEN "display" ELSE "render"
  /\ UNCHANGED <<request, options, exc, errno, inException, classes, viewDir, plug,
                 ctx, frame, handled, nesting, body, out, result, hist>>

\* Mutant: the action's name is read again from the request.
NewRenderingFromRequest ==
  [id |-> hist.renders + 1, dir |-> viewDir, controller |-> frame.controller,
   action |-> request.action, of |-> hist.invoked]

\* The template is found from the global view directory, the controller's name
\* property and the action name that yaf_dispatcher_handle copied.
NewRendering ==
  [id |-> hist.renders + 1, dir |-> viewDir, controller |-> frame.controller,
   action |-> frame.action, of |-> hist.invoked]

\* Mutant: yaf_response_alter_body is told to prepend.
PrependBody == body' = <<NewRendering>> \o body

\* yaf_response_alter_body with YAF_RESPONSE_APPEND
AppendBody == body' = Append(body, NewRendering)

\* render() returned a string that is appended to the body, or display() wrote it.
RenderReturns ==
  /\ pc \in {"render", "display"}
  /\ IF pc = "display"
     THEN out' = Append(out, NewRendering) /\ UNCHANGED body
     ELSE AppendBody /\ UNCHANGED out
  /\ hist' = [hist EXCEPT !.renders = @ + 1]
  /\ HandleReturns(TRUE, None)
  /\ UNCHANGED <<request, options, errno, inException, classes, viewDir, plug, ctx,
                 frame, nesting, result>>

\* The view returned FALSE or something that is not a string: no error is raised.
RenderReturnsFalse ==
  /\ pc \in {"render", "display"}
  /\ HandleReturns(FALSE, None)
  /\ hist' = [hist EXCEPT !.excused = TRUE]
  /\ UNCHANGED <<request, options, errno, inException, classes, viewDir, plug, ctx,
                 frame, nesting, body, out, result>>

RenderThrows ==
  /\ pc \in {"render", "display"}
  /\ \/ /\ \E e \in Throwables : HandleReturns(FALSE, e)
        /\ UNCHANGED <<errno, hist>>
     \/ /\ \E e \in TriggerError("LoadFailed_View") : HandleReturns(FALSE, e)
        /\ SetErrno("LoadFailed_View")
        /\ hist' = [hist EXCEPT !.excused = @ \/ ~options.throwException]
  /\ UNCHANGED <<request, options, inException, classes, viewDir, plug, ctx, frame,
                 nesting, body, out, result>>

-----------------------------------------------------------------------------
(* The dispatch loop, the end of dispatch and the exception handler *)

RoundDone ==
  /\ pc = "handled" /\ ctx = "loop" /\ handled
  /\ request' = FixDefault(request)
  /\ EnterHook("postDispatch")
  /\ UNCHANGED <<options, exc, errno, inException, classes, viewDir, ctx, frame,
                 handled, nesting, body, out, result, hist>>

RoundFailed ==
  /\ pc = "handled" /\ ctx = "loop" /\ ~handled
  /\ Leave(exc, request, hist)
  /\ UNCHANGED <<options, errno, classes, viewDir, plug, frame, handled, nesting, out>>

\* Mutant: while (nesting-- > 0 && ...)
LoopAgainPostDecrement == nesting > 0 /\ ~request.dispatched

\* while (--nesting > 0 && !yaf_request_is_dispatched(request))
LoopAgain == Decrement(nesting) > 0 /\ ~request.dispatched

PostDispatchDone ==
  /\ HookDone("postDispatch")
  /\ nesting' = Decrement(nesting)
  /\ IF LoopAgain
     THEN EnterHook("preDispatch") /\ hist' = [hist EXCEPT !.rounds = @ + 1]
     ELSE EnterHook("dispatchLoopShutdown") /\ UNCHANGED hist
  /\ UNCHANGED <<request, options, exc, errno, inException, classes, viewDir, ctx,
                 frame, handled, body, out, result>>

\* Mutant: the loop's exit is not examined.
NestingNotExamined == FALSE

NestingReached == nesting = 0 /\ ~request.dispatched

NestingExhausted ==
  /\ HookDone("dispatchLoopShutdown") /\ NestingReached
  /\ \E e \in TriggerError("DispatchFailed") :
       Leave(e, request, [hist EXCEPT !.excused = @ \/ ~options.throwException])
  /\ SetErrno("DispatchFailed")
  /\ UNCHANGED <<options, classes, viewDir, plug, frame, handled, nesting, out>>

\* Mutant: yaf_response_clear_body is not called.
SendResponseKeepsBody == out' = out \o body /\ UNCHANGED body

\* The body is written, every part of it, and cleared.
SendResponse == out' = out \o body /\ body' = <<>>

\* Yaf_Response_Http::response() gives up at the first header that the SAPI
\* refuses; dispatch ignores what it returned and clears the body all the same.
ResponseRefused == HeaderRefused /\ body' = <<>> /\ UNCHANGED out

\* Unless the caller asked for the response, it is sent and its body cleared.
DispatchDone ==
  /\ HookDone("dispatchLoopShutdown") /\ ~NestingReached
  /\ IF options.returnResponse THEN UNCHANGED <<body, out>>
     ELSE SendResponse \/ ResponseRefused
  /\ pc' = "idle" /\ result' = "response"
  /\ UNCHANGED <<request, options, exc, errno, inException, classes, viewDir, plug,
                 ctx, frame, handled, nesting, hist>>

\* Mutant: the fail-over itself fails over.
FailsOverAgain == ctx # "loop" /\ ~handled /\ exc = "LoadFailed_Controller"

\* Mutant: the fail-over looks for a missing module.
FailsOverModule == ctx = "error" /\ ~handled /\ exc = "LoadFailed_Module"

\* The module has no ErrorController: the default module's is tried, once.
FailsOver == ctx = "error" /\ ~handled /\ exc = "LoadFailed_Controller"

ErrorFailover ==
  /\ pc = "handled" /\ FailsOver
  /\ request' = [request EXCEPT !.module = DefaultModule]
  /\ exc' = None
  /\ pc' = "handle" /\ ctx' = "failover"
  /\ UNCHANGED <<options, errno, inException, classes, viewDir, plug, frame, handled,
                 nesting, body, out, result, hist>>

\* yaf_response_send writes the body whatever the error action did, and the
\* response is freed; an exception of the error action stays pending; dispatch
\* returns NULL.
ErrorSent ==
  /\ pc = "handled" /\ ctx # "loop" /\ ~FailsOver
  /\ SendResponse
  /\ pc' = "idle" /\ result' = "null"
  /\ UNCHANGED <<request, options, exc, errno, inException, classes, viewDir, plug,
                 ctx, frame, handled, nesting, hist>>

-----------------------------------------------------------------------------
(* What PHP code may do while it runs, and around dispatch *)

PluginRuns == pc \in Hooks /\ plug <= NumPlugins

UserCodeRuns == PluginRuns \/ pc \in {"route", "init", "action", "render", "display"}

\* Yaf_Controller_Abstract::forward takes an action; a controller and an action;
\* or all three names.  The forwards that init() makes are bounded.
ForwardTargets ==
  {t \in Targets : t.action # Keep /\ (t.module # Keep => t.controller # Keep)}

Forward ==
  /\ pc \in {"init", "action"}
  /\ pc = "init" => hist.inits < MaxInitForwards
  /\ \E t \in ForwardTargets :
       request' = [SetNames(request, t) EXCEPT !.dispatched = FALSE]
  /\ hist' = [hist EXCEPT !.inits = @ + IF pc = "init" THEN 1 ELSE 0]
  /\ UNCHANGED <<options, exc, errno, inException, classes, viewDir, pc, plug, ctx,
                 frame, handled, nesting, body, out, result>>

\* setModuleName, setControllerName, setActionName, setDispatched or setRouted
\* of the request, called by a plugin, a controller or a template.  (What a
\* route does to the request is in RouteMatches, RouteUnmatched, RouteThrows.)
SetRequest ==
  /\ UserCodeRuns /\ pc # "route"
  /\ request' \in {SetNames(request, t) : t \in Targets}
                    \cup {[request EXCEPT !.dispatched = TRUE],
                          [request EXCEPT !.routed = TRUE]}
  /\ UNCHANGED <<options, exc, errno, inException, classes, viewDir, pc, plug, ctx,
                 frame, handled, nesting, body, out, result, hist>>

\* throwException, catchException, returnResponse, flushInstantly, autoRender,
\* enableView, disableView
SetOption ==
  /\ UserCodeRuns \/ (pc = "idle" /\ exc = None)
  /\ \E f \in Flags : options' = [options EXCEPT ![f] = ~@]
  /\ UNCHANGED <<request, exc, errno, inException, classes, viewDir, pc, plug, ctx,
                 frame, handled, nesting, body, out, result, hist>>

\* The caller of dispatch catches the exception that dispatch left pending.
CallerCatches ==
  /\ pc = "idle" /\ exc # None
  /\ exc' = None /\ result' = "none"
  /\ UNCHANGED <<request, options, errno, inException, classes, viewDir, pc, plug,
                 ctx, frame, handled, nesting, body, out, hist>>

\* exit(), a fatal error, a timeout, or E_RECOVERABLE_ERROR without an error
\* handler: control leaves dispatch for good.
Bailout ==
  /\ pc \notin {"idle", "dead"}
  /\ pc' = "dead"
  /\ UNCHANGED <<request, options, exc, errno, inException, classes, viewDir, plug,
                 ctx, frame, handled, nesting, body, out, result, hist>>

\* The switches after RINIT, and after the constructor of an application, which
\* takes two of them from its configuration.
NewOptions ==
  {o \in [OptionNames -> BOOLEAN] :
     /\ o.autoRender /\ ~o.returnResponse /\ ~o.flushInstantly
     /\ o.directory \in AppDir
     /\ ~o.directory => o.throwException /\ ~o.catchException}

NewFrame == [module |-> DefaultModule, isDefModule |-> FALSE,
             class |-> NoClass, controller |-> NoName, action |-> NoName]

Init ==
  /\ request = NewRequest
  /\ options \in NewOptions
  /\ exc = None /\ errno = None /\ inException = FALSE
  /\ classes = [c \in Names |-> NoClass]
  /\ viewDir = NoDir
  /\ pc = "idle" /\ plug = 1 /\ ctx = "loop"
  /\ frame = NewFrame /\ handled = FALSE /\ nesting = 0
  /\ body = <<>> /\ out = <<>> /\ result = "none"
  /\ hist = NewHistory

\* Mutant: in_exception survives the HTTP request.
RequestShutdownPartial == UNCHANGED inException /\ viewDir' = NoDir

\* RSHUTDOWN clears in_exception and releases the view directory.
RequestShutdown == inException' = FALSE /\ viewDir' = NoDir

\* RSHUTDOWN, the engine's own shutdown, RINIT and the constructor of the next
\* request's application, in the same worker.
NextHttpRequest ==
  /\ pc \in {"idle", "dead"}
  /\ request' = NewRequest
  /\ options' \in NewOptions
  /\ exc' = None /\ errno' = None
  /\ RequestShutdown
  /\ classes' = [c \in Names |-> NoClass]
  /\ pc' = "idle" /\ plug' = 1 /\ ctx' = "loop"
  /\ frame' = NewFrame /\ handled' = FALSE /\ nesting' = 0
  /\ body' = <<>> /\ out' = <<>> /\ result' = "none"
  /\ hist' = NewHistory

\* The steps that dispatch takes by itself and the returns of its callbacks.
Step ==
  \/ PluginReturns \/ PluginThrows \/ HookThrew
  \/ RouterStartupDone \/ RouteMatches \/ RouteUnmatched \/ RouteThrows
  \/ RouterShutdownDone
  \/ LoopStartupDone \/ PreDispatchDone
  \/ HandleFails \/ HandleLoads \/ InitForwarded \/ InitThrows \/ InitReturns
  \/ ActionNotFound \/ ActionThrows \/ ActionReturns \/ ActionAutoRenders
  \/ RenderReturns \/ RenderReturnsFalse \/ RenderThrows
  \/ RoundDone \/ RoundFailed \/ PostDispatchDone \/ NestingExhausted
  \/ DispatchDone \/ ErrorFailover \/ ErrorSent

UserCode == Forward \/ SetRequest \/ SetOption

Next ==
  \/ Dispatch \/ DispatchNew
  \/ Step \/ UserCode
  \/ CallerCatches \/ Bailout \/ NextHttpRequest

Spec == Init /\ [][Next]_vars

\* Callbacks return, and the C code between them runs: dispatch never stops.
Fairness == WF_vars(Step)

FairSpec == Spec /\ Fairness

-----------------------------------------------------------------------------
(* Safety *)

\* The do-while loop of yaf_dispatcher_dispatch makes at most forward_limit
\* rounds (one round when the limit is 0), whatever forward() the actions and
\* the plugins' changes of the request ask for.
RoundsWithinForwardLimit ==
  hist.rounds <= IF ForwardLimit = 0 THEN 1 ELSE ForwardLimit

\* yaf_dispatcher_exception_handler runs at most once in an HTTP request, however
\* many dispatches it makes and whatever the error action throws.
HandlerOncePerRequest == hist.handlers <= 1

\* With catch_exception on, an exception may leave yaf_dispatcher_dispatch only
\* if the handler has already run in this HTTP request: the flag in_exception of
\* an earlier request, or of an earlier bail-out, must not disable it.
EscapesOnlyAfterHandler ==
  pc = "idle" /\ exc # None /\ options.catchException /\ Catchable(exc)
    => hist.handlers >= 1

\* When yaf_dispatcher_dispatch returns NULL there is a reason for it: an
\* exception is pending, one was handed to the error controller, an error number
\* was set in the application, or a view declined to render.
NoSilentFailure ==
  pc = "idle" /\ result = "null"
    => exc # None \/ hist.caught # None \/ hist.excused

\* yaf_dispatcher_dispatch returns a response only for a request that nobody
\* asked to forward: a forward that the loop did not follow is reported.
CompletedMeansDispatched ==
  pc = "idle" /\ result = "response" => request.dispatched

\* A page that was rendered reaches the caller exactly once: when dispatch
\* completes, or the error page is sent, the renderings of every round, flushed,
\* sent or still in the returned body, are there and none is there twice.
RenderedOutputOnce ==
  pc = "idle" /\ (result = "response" \/ (result = "null" /\ hist.caught # None))
    => LET sent == out \o body
       IN /\ Len(sent) = hist.renders
          /\ \A i, j \in 1 .. Len(sent) : sent[i].id = sent[j].id => i = j

\* With flushInstantly left alone during a dispatch, the renderings are sent in
\* the order in which the rounds made them, the error page last.
OutputInDispatchOrder ==
  LET all == out \o body
  IN \A i, j \in 1 .. Len(all) : i < j => all[i].id < all[j].id

\* The template rendered after an action is that of the action that ran, although
\* forward() and the request's setters may have renamed the request meanwhile;
\* its directory is the module's, unless init() itself renamed the module.
TemplateOfInvokedAction ==
  LET all == out \o body
      ok(r) == /\ r.controller = r.of.controller
               /\ r.action = r.of.action
               /\ r.of.loaded = r.of.module =>
                    r.dir = ViewDirOf(r.of.module = DefaultModule, r.of.module)
  IN \A i \in 1 .. Len(all) : ok(all[i])

\* A route claims a request object at most once, even when a routerShutdown plugin
\* throws and the caller dispatches the same request again.
RoutedOnce == hist.routings <= 1

\* A request that no route claims is a routing failure: it does not go on to the
\* routerShutdown plugins and the dispatch loop.
OnlyClaimedRequestsGoOn ==
  pc = "routerShutdown" /\ exc = None => hist.routings >= 1

\* When the module of the failed request has no ErrorController but the default
\* module has one, the handler finds it: the load failure does not escape.
FailoverFindsErrorController ==
  pc = "idle" /\ exc = "LoadFailed_Controller" /\ hist.caught # None /\ ~hist.errorRan
    => Script[<<DefaultModule, ErrorController>>] # "controller"

\* The controller that runs was declared by the script of the module that the
\* request names.
ClassFromModule ==
  pc \in {"init", "action"} => frame.class.module = frame.module

\* Only a class that extends Yaf_Controller_Abstract is run as a controller.
OnlyControllersExecuted ==
  pc \in {"init", "action"} => frame.class.isController

-----------------------------------------------------------------------------
(* The promise to the caller *)

\* --nesting wraps at 0: a limit of 0 allows one round more than the largest uint.
LoopLimit == IF ForwardLimit = 0 THEN UintMax + 1 ELSE ForwardLimit

Phase ==
  CASE pc \in {"idle", "dead"} -> pc
    [] pc \notin {"idle", "dead"} /\ ctx # "loop" -> "rescuing"
    [] pc \in {"routerStartup", "route", "routerShutdown"} /\ ctx = "loop" -> "routing"
    [] OTHER -> "serving"

Cycle == INSTANCE YafCycle
           WITH MaxRounds <- LoopLimit, phase <- Phase, rounds <- hist.rounds,
                spent <- inException, answer <- result

\* Seen by its caller, yaf_dispatcher_dispatch is a YafCycle: it serves in at most
\* forward_limit rounds, answers a response only after one, never serves again
\* once the exception handler has started, and starts it once per HTTP request.
RefinesCycle == Cycle!Spec

-----------------------------------------------------------------------------
(* Liveness *)

\* Every dispatch ends: it returns or the engine bails out, whatever the
\* callbacks forward, throw or change.
DispatchTerminates == pc \notin {"idle", "dead"} ~> pc \in {"idle", "dead"}

=============================================================================
