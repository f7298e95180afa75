------------------------ MODULE YafDispatcherProofs ------------------------
(***************************************************************************)
(* Theorems about YafDispatcher for every application, every configuration *)
(* and every bound that its assumptions admit.                             *)
(***************************************************************************)
EXTENDS YafDispatcher, SequenceTheorems, TLAPS

-----------------------------------------------------------------------------
(* What the helpers return *)

\* What yaf_trigger_error leaves pending is an exception or nothing.
LEMMA TriggerErrorType ==
  ASSUME NEW code \in YafExceptions, NEW e \in TriggerError(code),
         options \in [OptionNames -> BOOLEAN]
  PROVE  e \in Exceptions \cup {None}
<1>1. CASE options.throwException
  BY <1>1 DEF TriggerError, Exceptions
<1>2. CASE ~options.throwException /\ options.directory
  BY <1>2 DEF TriggerError, Exceptions
<1>3. CASE ~options.throwException /\ ~options.directory
  BY <1>3 DEF TriggerError
<1> QED
  BY <1>1, <1>2, <1>3

\* yaf_dispatcher_fix_default keeps the type of the request.
LEMMA FixDefaultType ==
  ASSUME NEW req \in Request
  PROVE  FixDefault(req) \in Request
BY NamesAssumption DEF FixDefault, FixName, Request, NameOrNone

\* forward() and the setters of the request keep its type.
LEMMA SetNamesType ==
  ASSUME NEW req \in Request, NEW t \in Target
  PROVE  SetNames(req, t) \in Request
BY NamesAssumption, ZenonT(40) DEF SetNames, SetName, Request, NameOrNone, Target

\* A route that declines leaves a request behind, and cannot mark it as routed.
LEMMA DeclinedType ==
  ASSUME TypeOK, NEW req \in Declined
  PROVE  req \in Request /\ req.routed = request.routed
<1>1. ASSUME NEW t \in RouteTargets
      PROVE  /\ SetNames(request, t) \in Request
             /\ SetNames(request, t).routed = request.routed
  <2>1. SetNames(request, t) \in Request
    BY SetNamesType, UserCodeAssumption DEF TypeOK
  <2> QED
    BY <2>1 DEF SetNames, TypeOK, Request
<1> QED
  BY <1>1 DEF Declined, TypeOK

\* The request that the exception handler prepares is a request.
LEMMA ErrorRequestType ==
  ASSUME NEW req \in Request, NEW e \in Exceptions
  PROVE  ErrorRequest(req, e) \in Request
BY NamesAssumption DEF ErrorRequest, Request, NameOrNone

\* A Yaf_Request_Simple built with names is a request.
LEMMA SimpleRequestType ==
  ASSUME NEW t \in Target
  PROVE  SimpleRequest(t) \in Request
BY NamesAssumption DEF SimpleRequest, NewRequest, Given, Target, Request, NameOrNone

\* A request without names is a request.
LEMMA NewRequestType == NewRequest \in Request
BY DEF NewRequest, Request, NameOrNone

\* The history with which a dispatch starts is a history.
LEMMA NewHistoryType == NewHistory \in History
BY DEF History, NewHistory, NoInvocation, Invocation, NameOrNone

\* Leaving dispatch, through the handler or not, keeps the types of what it sets.
LEMMA LeaveType ==
  ASSUME TypeOK, NEW e \in Exceptions \cup {None}, NEW req \in Request,
         NEW h \in History, Leave(e, req, h)
  PROVE  /\ request' \in Request
         /\ exc' \in Exceptions \cup {None}
         /\ inException' \in BOOLEAN
         /\ pc' \in PCs
         /\ ctx' \in {"loop", "error", "failover"}
         /\ body' \in Seq(Rendering)
         /\ result' \in {"none", "response", "null"}
         /\ hist' \in History
<1>1. CASE EntersHandler(e)
  <2>1. e \in Exceptions
    BY <1>1 DEF EntersHandler
  <2>2. h.handlers + 1 \in Nat
    BY DEF History
  <2>3. request' \in Request
    BY <1>1, <2>1, ErrorRequestType DEF Leave
  <2>4. hist' \in History
    BY <1>1, <2>2 DEF Leave, History
  <2> QED
    BY <1>1, <2>3, <2>4 DEF Leave, TypeOK, PCs
<1>2. CASE ~EntersHandler(e)
  BY <1>2 DEF Leave, TypeOK, PCs
<1> QED
  BY <1>1, <1>2

\* Past its first checks, yaf_dispatcher_handle has a module and a controller.
LEMMA NamesGiven ==
  ASSUME TypeOK, NameFailure = None
  PROVE  request.module \in Names /\ request.controller \in Names
BY DEF NameFailure, TypeOK, Request, NameOrNone, None


\* A failing check of yaf_dispatcher_handle raises one of Yaf's own exceptions.
LEMMA HandleFailureType ==
  ASSUME TypeOK
  PROVE  HandleFailure # None => HandleFailure \in YafExceptions
<1>1. NameFailure # None => NameFailure \in YafExceptions
  BY DEF NameFailure, YafExceptions
<1>2. ASSUME NameFailure = None
      PROVE  LoadFailure(request.module, request.controller) \in YafExceptions \cup {None}
  <2>1. Script[<<request.module, request.controller>>] \in ScriptKinds
    BY <1>2, NamesGiven, UserCodeAssumption
  <2> QED
    BY <2>1 DEF LoadFailure, ScriptKinds, YafExceptions
<1> QED
  BY <1>1, <1>2 DEF HandleFailure


\* Loading a controller script keeps the type of the class table.
LEMMA DeclareClassType ==
  ASSUME TypeOK, NEW m \in Names, NEW c \in Names
  PROVE  DeclareClass(m, c) \in [Names -> Class]
BY NamesAssumption DEF DeclareClass, TypeOK, Class, NameOrNone

\* The locals and the view directory set before init() have their types.
LEMMA SetUpActionType ==
  ASSUME TypeOK, SetUpAction
  PROVE  viewDir' \in ViewDir /\ frame' \in Frame
BY DEF SetUpAction, ViewDirOf, TypeOK, ViewDir, Frame, Request, NameOrNone

\* RINIT and the application's constructor set every switch.
LEMMA NewOptionsType == NewOptions \subseteq [OptionNames -> BOOLEAN]
BY DEF NewOptions

\* Appending and concatenating renderings gives sequences of renderings.
LEMMA SeqType ==
  ASSUME NEW S, NEW s \in Seq(S), NEW t \in Seq(S), NEW x \in S
  PROVE  Append(s, x) \in Seq(S) /\ s \o t \in Seq(S) /\ <<>> \in Seq(S)
OBVIOUS

\* What RINIT leaves behind satisfies the type invariant.
LEMMA FreshType ==
  /\ NewFrame \in Frame /\ NoDir \in ViewDir
  /\ [c \in Names |-> NoClass] \in [Names -> Class]
BY NamesAssumption DEF NewFrame, Frame, NoDir, ViewDir, NoClass, Class, NameOrNone


\* The number of the plugin and the pc are legal when a hook is entered.
LEMMA EnterHookType ==
  ASSUME NEW h \in Hooks, EnterHook(h)
  PROVE  pc' \in PCs /\ plug' \in 1 .. NumPlugins + 1
BY NumbersAssumption DEF EnterHook, PCs, Callbacks

\* A dispatch that starts with any request keeps the types.
LEMMA StartDispatchType ==
  ASSUME TypeOK, NEW req \in Request, NEW n \in Nat, StartDispatch(req, n)
  PROVE  TypeOK'
<1>1. request' \in Request
  BY FixDefaultType DEF StartDispatch
<1>2. pc' \in PCs /\ plug' \in 1 .. NumPlugins + 1
  BY EnterHookType DEF StartDispatch, Hooks
<1>3. hist' \in History
  <2>1. hist.handlers \in Nat /\ hist.dispatches + 1 \in Nat
    BY DEF TypeOK, History
  <2> QED
    BY <2>1, NewHistoryType DEF StartDispatch, History
<1>4. nesting' \in 0 .. UintMax
  BY NumbersAssumption DEF StartDispatch
<1> QED
  BY <1>1, <1>2, <1>3, <1>4 DEF StartDispatch, TypeOK

\* Every step of the specification keeps the types.
LEMMA TypeStep == TypeOK /\ [Next]_vars => TypeOK'
<1> SUFFICES ASSUME TypeOK, [Next]_vars PROVE TypeOK'
  OBVIOUS
<1> USE NumbersAssumption
<1>1. CASE Dispatch
  <2>1. request \in Request /\ hist.routings \in Nat
    BY DEF TypeOK, History
  <2> QED
    BY <1>1, <2>1, StartDispatchType DEF Dispatch
<1>2. CASE DispatchNew
  <2>1. PICK req \in {NewRequest} \cup {SimpleRequest(t) : t \in RouteTargets} :
           StartDispatch(req, 0)
    BY <1>2 DEF DispatchNew
  <2>2. req \in Request
    BY NewRequestType, SimpleRequestType, UserCodeAssumption
  <2> QED
    BY <2>1, <2>2, StartDispatchType
<1>3. CASE PluginReturns
  BY <1>3 DEF PluginReturns, TypeOK
<1>4. CASE PluginThrows
  BY <1>4 DEF PluginThrows, TypeOK, Exceptions
<1>5. CASE HookThrew
  BY <1>5, LeaveType DEF HookThrew, TypeOK
<1>6. CASE RouterStartupDone
  BY <1>6 DEF RouterStartupDone, TypeOK, PCs, Callbacks
<1>7. CASE RouteMatches
  <2>1. PICK t \in RouteTargets : request' = FixDefault(RoutedTo(t))
    BY <1>7 DEF RouteMatches
  <2>2. SetNames(request, t) \in Request
    BY SetNamesType, UserCodeAssumption DEF TypeOK
  <2>3. RoutedTo(t) \in Request
    BY <2>2 DEF RoutedTo, Request
  <2>4. request' \in Request
    BY <2>1, <2>3, FixDefaultType
  <2>5. pc' \in PCs /\ plug' \in 1 .. NumPlugins + 1
    BY <1>7, EnterHookType DEF RouteMatches, Hooks
  <2>6. hist' \in History
    <3>1. hist.routings + 1 \in Nat
      BY DEF TypeOK, History
    <3> QED
      BY <1>7, <3>1 DEF RouteMatches, TypeOK, History
  <2> QED
    BY <1>7, <2>4, <2>5, <2>6 DEF RouteMatches, TypeOK
<1>8. CASE RouteUnmatched
  <2>1. PICK req \in Declined : request' = FixDefault(req)
    BY <1>8 DEF RouteUnmatched
  <2>2. request' \in Request
    BY <2>1, DeclinedType, FixDefaultType
  <2>3. pc' \in PCs /\ plug' \in 1 .. NumPlugins + 1
    BY <1>8, EnterHookType DEF RouteUnmatched, Hooks
  <2> QED
    BY <1>8, <2>2, <2>3 DEF RouteUnmatched, TypeOK
<1>8a. CASE RouteThrows
  <2>1. PICK req \in Declined : request' = FixDefault(req)
    BY <1>8a DEF RouteThrows
  <2>2. request' \in Request
    BY <2>1, DeclinedType, FixDefaultType
  <2>3. pc' \in PCs /\ plug' \in 1 .. NumPlugins + 1
    BY <1>8a, NumbersAssumption DEF RouteThrows, PCs, Callbacks, Hooks
  <2> QED
    BY <1>8a, <2>2, <2>3 DEF RouteThrows, TypeOK, Exceptions
<1>9. CASE RouterShutdownDone
  <2>1. pc' \in PCs /\ plug' \in 1 .. NumPlugins + 1
    BY <1>9, EnterHookType DEF RouterShutdownDone, Hooks
  <2>2. request' \in Request
    BY <1>9 DEF RouterShutdownDone, TypeOK, Request
  <2> QED
    BY <1>9, <2>1, <2>2 DEF RouterShutdownDone, TypeOK
<1>10. CASE LoopStartupDone
  <2>1. pc' \in PCs /\ plug' \in 1 .. NumPlugins + 1
    BY <1>10, EnterHookType DEF LoopStartupDone, Hooks
  <2>2. hist' \in History
    BY <1>10 DEF LoopStartupDone, TypeOK, History
  <2> QED
    BY <1>10, <2>1, <2>2 DEF LoopStartupDone, TypeOK
<1>11. CASE PreDispatchDone
  BY <1>11 DEF PreDispatchDone, TypeOK, PCs
<1>12. CASE HandleFails
  <2>1. HandleFailure \in YafExceptions
    BY <1>12, HandleFailureType DEF HandleFails
  <2>2. PICK e \in TriggerError(HandleFailure) : HandleReturns(FALSE, e)
    BY <1>12 DEF HandleFails
  <2>3. e \in Exceptions \cup {None}
    BY <2>1, TriggerErrorType DEF TypeOK
  <2>4. errno' \in Exceptions \cup {None}
    BY <1>12, <2>1 DEF HandleFails, SetErrno, TypeOK, Exceptions
  <2>5. classes' \in [Names -> Class]
    <3>1. CASE NameFailure # None
      BY <1>12, <3>1 DEF HandleFails, TypeOK
    <3>2. CASE NameFailure = None
      BY <1>12, <3>2, NamesGiven, DeclareClassType DEF HandleFails
    <3> QED
      BY <3>1, <3>2
  <2>6. request' \in Request /\ hist' \in History
    BY <1>12 DEF HandleFails, TypeOK, Request, History
  <2> QED
    BY <1>12, <2>2, <2>3, <2>4, <2>5, <2>6 DEF HandleFails, HandleReturns, TypeOK, PCs
<1>13. CASE HandleLoads
  <2>1. NameFailure = None
    BY <1>13 DEF HandleLoads, HandleFailure
  <2>2. request.module \in Names /\ request.controller \in Names
    BY <2>1, NamesGiven
  <2>3. classes' \in [Names -> Class]
    BY <1>13, <2>2, DeclareClassType DEF HandleLoads
  <2>4. frame' \in Frame
    BY <1>13, <2>2, <2>3, NamesAssumption DEF HandleLoads, Frame, NameOrNone
  <2>5. request' \in Request
    BY <1>13 DEF HandleLoads, TypeOK, Request
  <2>6. hist' \in History
    BY <1>13 DEF HandleLoads, TypeOK, History
  <2> QED
    BY <1>13, <2>3, <2>4, <2>5, <2>6 DEF HandleLoads, TypeOK, PCs, Callbacks
<1>14. CASE InitForwarded
  BY <1>14 DEF InitForwarded, TypeOK, PCs
<1>15. CASE InitThrows
  BY <1>15 DEF InitThrows, HandleReturns, TypeOK, PCs, Exceptions
<1>16. CASE InitReturns
  <2>1. hist' \in History
    BY <1>16 DEF InitReturns, InvokedNames, Invocation, TypeOK, History, Frame,
                 Request, NameOrNone
  <2> QED
    BY <1>16, <2>1, SetUpActionType DEF InitReturns, TypeOK, PCs, Callbacks
<1>17. CASE ActionNotFound
  <2>1. PICK code \in {"LoadFailed_Action", "LoadFailed", "TypeError"} :
           /\ \E e \in TriggerError(code) : HandleReturns(FALSE, e)
           /\ SetErrno(code)
    BY <1>17 DEF ActionNotFound
  <2>2. code \in YafExceptions
    BY DEF YafExceptions
  <2>3. PICK e \in TriggerError(code) : HandleReturns(FALSE, e)
    BY <2>1
  <2>4. e \in Exceptions \cup {None}
    BY <2>2, TriggerErrorType DEF TypeOK
  <2>5. errno' \in Exceptions \cup {None}
    BY <2>1, <2>2 DEF SetErrno, TypeOK, Exceptions
  <2>6. hist' \in History
    BY <1>17 DEF ActionNotFound, TypeOK, History
  <2> QED
    BY <1>17, <2>3, <2>4, <2>5, <2>6, SetUpActionType
       DEF ActionNotFound, HandleReturns, TypeOK, PCs
<1>18. CASE ActionThrows
  BY <1>18 DEF ActionThrows, HandleReturns, TypeOK, PCs, Exceptions
<1>19. CASE ActionReturns
  BY <1>19 DEF ActionReturns, HandleReturns, TypeOK, PCs
<1>20. CASE ActionAutoRenders
  BY <1>20 DEF ActionAutoRenders, TypeOK, PCs, Callbacks
<1>21. CASE RenderReturns
  <2>1. NewRendering \in Rendering
    BY DEF NewRendering, Rendering, TypeOK, History, Frame
  <2>2. body' \in Seq(Rendering) /\ out' \in Seq(Rendering)
    <3>1. CASE pc = "display"
      <4>1. out' = Append(out, NewRendering) /\ body' = body
        BY <1>21, <3>1 DEF RenderReturns
      <4> QED
        BY <4>1, <2>1, SeqType DEF TypeOK
    <3>2. CASE pc /= "display"
      <4>1. body' = Append(body, NewRendering) /\ out' = out
        BY <1>21, <3>2 DEF RenderReturns, AppendBody
      <4> QED
        BY <4>1, <2>1, SeqType DEF TypeOK
    <3> QED
      BY <3>1, <3>2
  <2>3. hist' \in History
    <3>1. hist.renders + 1 \in Nat
      BY DEF TypeOK, History
    <3> QED
      BY <1>21, <3>1 DEF RenderReturns, TypeOK, History
  <2> QED
    BY <1>21, <2>2, <2>3 DEF RenderReturns, HandleReturns, TypeOK, PCs
<1>22. CASE RenderReturnsFalse
  BY <1>22 DEF RenderReturnsFalse, HandleReturns, TypeOK, PCs, History
<1>23. CASE RenderThrows
  <2>1. CASE /\ \E e \in Throwables : HandleReturns(FALSE, e)
             /\ UNCHANGED <<errno, hist>>
    BY <1>23, <2>1 DEF RenderThrows, HandleReturns, TypeOK, PCs, Exceptions
  <2>2. CASE /\ \E e \in TriggerError("LoadFailed_View") : HandleReturns(FALSE, e)
             /\ SetErrno("LoadFailed_View")
             /\ hist' = [hist EXCEPT !.excused = @ \/ ~options.throwException]
    <3>1. PICK e \in TriggerError("LoadFailed_View") : HandleReturns(FALSE, e)
      BY <2>2
    <3>2. e \in Exceptions \cup {None}
      BY TriggerErrorType DEF TypeOK, YafExceptions
    <3>3. errno' \in Exceptions \cup {None}
      BY <2>2 DEF SetErrno, TypeOK, Exceptions, YafExceptions
    <3>4. hist' \in History
      BY <2>2 DEF TypeOK, History
    <3> QED
      BY <1>23, <3>1, <3>2, <3>3, <3>4 DEF RenderThrows, HandleReturns, TypeOK, PCs
  <2> QED
    BY <1>23, <2>1, <2>2 DEF RenderThrows
<1>24. CASE RoundDone
  BY <1>24, FixDefaultType DEF RoundDone, EnterHook, TypeOK, PCs, Callbacks,
     Hooks
<1>25. CASE RoundFailed
  BY <1>25, LeaveType DEF RoundFailed, TypeOK
<1>26. CASE PostDispatchDone
  <2>1. pc' \in PCs /\ plug' \in 1 .. NumPlugins + 1
    BY <1>26, EnterHookType DEF PostDispatchDone, Hooks
  <2>2. hist' \in History
    <3>1. hist.rounds + 1 \in Nat
      BY DEF TypeOK, History
    <3> QED
      BY <1>26, <3>1 DEF PostDispatchDone, TypeOK, History
  <2>3. nesting' \in 0 .. UintMax
    BY <1>26 DEF PostDispatchDone, Decrement, TypeOK
  <2> QED
    BY <1>26, <2>1, <2>2, <2>3 DEF PostDispatchDone, TypeOK
<1>27. CASE NestingExhausted
  <2>1. PICK e \in TriggerError("DispatchFailed") :
           Leave(e, request, [hist EXCEPT !.excused = @ \/ ~options.throwException])
    BY <1>27 DEF NestingExhausted
  <2>2. e \in Exceptions \cup {None}
    BY TriggerErrorType DEF TypeOK, YafExceptions
  <2>3. [hist EXCEPT !.excused = @ \/ ~options.throwException] \in History
    BY DEF TypeOK, History
  <2>4. errno' \in Exceptions \cup {None}
    BY <1>27 DEF NestingExhausted, SetErrno, TypeOK, Exceptions, YafExceptions
  <2> QED
    BY <1>27, <2>1, <2>2, <2>3, <2>4, LeaveType DEF NestingExhausted, TypeOK
<1>28. CASE DispatchDone
  <2>1. body' \in Seq(Rendering) /\ out' \in Seq(Rendering)
    <3>1. CASE options.returnResponse
      BY <1>28, <3>1 DEF DispatchDone, TypeOK
    <3>2. CASE ~options.returnResponse
      <4>1. out \o body \in Seq(Rendering) /\ <<>> \in Seq(Rendering)
        BY SeqType DEF TypeOK
      <4>2. CASE SendResponse
        BY <4>1, <4>2 DEF SendResponse
      <4>3. CASE ResponseRefused
        BY <4>1, <4>3 DEF ResponseRefused, TypeOK
      <4> QED
        BY <1>28, <3>2, <4>2, <4>3 DEF DispatchDone
    <3> QED
      BY <3>1, <3>2
  <2> QED
    BY <1>28, <2>1 DEF DispatchDone, TypeOK, PCs
<1>29. CASE ErrorFailover
  BY <1>29, NamesAssumption DEF ErrorFailover, TypeOK, PCs, Request, NameOrNone
<1>30. CASE ErrorSent
  BY <1>30 DEF ErrorSent, SendResponse, TypeOK, PCs
<1>31. CASE Forward
  <2>1. PICK t \in Targets :
           request' = [SetNames(request, t) EXCEPT !.dispatched = FALSE]
    BY <1>31 DEF Forward, ForwardTargets
  <2>2. SetNames(request, t) \in Request
    BY SetNamesType, UserCodeAssumption DEF TypeOK
  <2>3. request' \in Request
    BY <2>1, <2>2 DEF Request
  <2>4. hist' \in History
    <3>1. hist.inits + (IF pc = "init" THEN 1 ELSE 0) \in Nat
      BY DEF TypeOK, History
    <3> QED
      BY <1>31, <3>1 DEF Forward, TypeOK, History
  <2> QED
    BY <1>31, <2>3, <2>4 DEF Forward, TypeOK
<1>32. CASE SetRequest
  <2>1. CASE request' \in {SetNames(request, t) : t \in Targets}
    BY <1>32, <2>1, SetNamesType, UserCodeAssumption DEF SetRequest, TypeOK
  <2>2. CASE request' \in {[request EXCEPT !.dispatched = TRUE],
                          [request EXCEPT !.routed = TRUE]}
    BY <1>32, <2>2 DEF SetRequest, TypeOK, Request
  <2> QED
    BY <1>32, <2>1, <2>2 DEF SetRequest
<1>33. CASE SetOption
  BY <1>33, UserCodeAssumption DEF SetOption, TypeOK
<1>34. CASE CallerCatches
  BY <1>34 DEF CallerCatches, TypeOK
<1>35. CASE Bailout
  BY <1>35 DEF Bailout, TypeOK, PCs
<1>36. CASE NextHttpRequest
  <2>1. request' \in Request /\ hist' \in History
    BY <1>36, NewHistoryType, NamesAssumption
       DEF NextHttpRequest, NewRequest, Request, NameOrNone
  <2>2. options' \in [OptionNames -> BOOLEAN]
    BY <1>36, NewOptionsType DEF NextHttpRequest
  <2>3. classes' \in [Names -> Class] /\ frame' \in Frame /\ viewDir' \in ViewDir
    BY <1>36, FreshType DEF NextHttpRequest, RequestShutdown
  <2>4. body' \in Seq(Rendering) /\ out' \in Seq(Rendering)
    BY <1>36 DEF NextHttpRequest
  <2>5. plug' \in 1 .. NumPlugins + 1 /\ nesting' \in 0 .. UintMax
    BY <1>36 DEF NextHttpRequest
  <2>6. exc' \in Exceptions \cup {None} /\ errno' \in Exceptions \cup {None}
    BY <1>36 DEF NextHttpRequest
  <2>7. /\ pc' \in PCs /\ ctx' \in {"loop", "error", "failover"}
        /\ result' \in {"none", "response", "null"}
        /\ handled' \in BOOLEAN /\ inException' \in BOOLEAN
    BY <1>36 DEF NextHttpRequest, RequestShutdown, PCs, None
  <2> QED
    BY <2>1, <2>2, <2>3, <2>4, <2>5, <2>6, <2>7 DEF TypeOK
<1>37. CASE UNCHANGED vars
  BY <1>37 DEF vars, TypeOK
<1> QED
  BY <1>1, <1>2, <1>3, <1>4, <1>5, <1>6, <1>7, <1>8, <1>8a, <1>9, <1>10, <1>11, <1>12,
     <1>13, <1>14, <1>15, <1>16, <1>17, <1>18, <1>19, <1>20, <1>21, <1>22,
     <1>23, <1>24, <1>25, <1>26, <1>27, <1>28, <1>29, <1>30, <1>31, <1>32,
     <1>33, <1>34, <1>35, <1>36, <1>37 DEF Next, Step, UserCode

\* The type invariant holds in every state of every application.
THEOREM TypeCorrect == Spec => []TypeOK
<1>1. Init => TypeOK
  <2> SUFFICES ASSUME Init PROVE TypeOK
    OBVIOUS
  <2>1. request \in Request /\ hist \in History
    BY NewHistoryType, NamesAssumption DEF Init, NewRequest, Request, NameOrNone
  <2>2. options \in [OptionNames -> BOOLEAN]
    BY NewOptionsType DEF Init
  <2>3. classes \in [Names -> Class] /\ frame \in Frame /\ viewDir \in ViewDir
    BY FreshType DEF Init
  <2>4. body \in Seq(Rendering) /\ out \in Seq(Rendering)
    BY DEF Init
  <2>5. plug \in 1 .. NumPlugins + 1 /\ nesting \in 0 .. UintMax
    BY NumbersAssumption DEF Init
  <2>6. exc \in Exceptions \cup {None} /\ errno \in Exceptions \cup {None}
    BY DEF Init
  <2>7. /\ pc \in PCs /\ ctx \in {"loop", "error", "failover"}
        /\ result \in {"none", "response", "null"}
        /\ handled \in BOOLEAN /\ inException \in BOOLEAN
    BY DEF Init, PCs, None
  <2> QED
    BY <2>1, <2>2, <2>3, <2>4, <2>5, <2>6, <2>7 DEF TypeOK
<1> QED
  BY <1>1, TypeStep, PTL DEF Spec

-----------------------------------------------------------------------------
(* What the helpers keep and when an error leaves no exception *)

\* Writing names leaves dispatched and routed alone.
LEMMA SetNamesKeeps ==
  ASSUME NEW req \in Request, NEW t
  PROVE  /\ SetNames(req, t).dispatched = req.dispatched
         /\ SetNames(req, t).routed = req.routed
BY DEF SetNames, Request

\* Filling in default names leaves dispatched and routed alone.
LEMMA FixDefaultKeeps ==
  ASSUME NEW req \in Request
  PROVE  FixDefault(req).routed = req.routed
BY DEF FixDefault, Request

\* No setter of the request takes back dispatched or routed.
LEMMA SetRequestKeeps ==
  ASSUME TypeOK, SetRequest
  PROVE  /\ request.dispatched => request'.dispatched
         /\ request.routed => request'.routed
<1>1. CASE request' \in {SetNames(request, t) : t \in Targets}
  BY <1>1, SetNamesKeeps DEF TypeOK
<1>2. CASE request' = [request EXCEPT !.dispatched = TRUE]
  BY <1>2 DEF TypeOK, Request
<1>3. CASE request' = [request EXCEPT !.routed = TRUE]
  BY <1>3 DEF TypeOK, Request
<1> QED
  BY <1>1, <1>2, <1>3 DEF SetRequest

\* An error raised by Yaf leaves an exception unless throwException is off.
LEMMA TriggerErrorThrows ==
  ASSUME NEW code \in YafExceptions, NEW e \in TriggerError(code),
         options.throwException
  PROVE  e # None
BY DEF TriggerError, YafExceptions, None

\* StartDispatch sets these whatever request it is given.
LEMMA StartDispatchFacts ==
  ASSUME NEW req, NEW n, StartDispatch(req, n)
  PROVE  /\ pc' \in {"routerStartup", "dispatchLoopStartup"}
         /\ nesting' = ForwardLimit
         /\ hist'.rounds = 0 /\ hist'.routings = n
         /\ request'.routed = req.routed \/ req \notin Request
<1>1. pc' \in {"routerStartup", "dispatchLoopStartup"} /\ nesting' = ForwardLimit
  BY DEF StartDispatch, EnterHook
<1>2. hist'.rounds = 0 /\ hist'.routings = n
  BY DEF StartDispatch, NewHistory
<1>3. request'.routed = req.routed \/ req \notin Request
  BY FixDefaultKeeps DEF StartDispatch
<1> QED
  BY <1>1, <1>2, <1>3

-----------------------------------------------------------------------------
(* The dispatch loop *)

\* Where nesting still has its initial value, and where dispatch is in a round.
BeforeLoop == {"routerStartup", "route", "routerShutdown", "dispatchLoopStartup"}

InRound ==
  \/ pc \in {"preDispatch", "postDispatch"}
  \/ pc \in {"handle", "init", "action", "render", "display", "handled"} /\ ctx = "loop"

\* The rounds made and the rounds left add up; no round starts with none left.
LoopInv ==
  ForwardLimit > 0 =>
    /\ hist.rounds <= ForwardLimit
    /\ pc \in BeforeLoop => nesting = ForwardLimit
    /\ InRound => nesting >= 1 /\ hist.rounds + nesting = ForwardLimit + 1

\* A loop that has ended left a dispatched request or used up its rounds, and
\* only the former returns a response.
ExitInv ==
  /\ pc = "dispatchLoopShutdown" => nesting = 0 \/ request.dispatched
  /\ pc = "idle" /\ result = "response" => request.dispatched

\* LoopInv is inductive: every step of Next preserves it.
LEMMA LoopStep == TypeOK /\ LoopInv /\ [Next]_vars => LoopInv'
<1> SUFFICES ASSUME TypeOK, LoopInv, [Next]_vars PROVE LoopInv'
  OBVIOUS
<1>1. CASE Dispatch
  <2>1. pc' \in {"routerStartup", "dispatchLoopStartup"} /\ nesting' = ForwardLimit
        /\ hist'.rounds = 0
    BY <1>1, StartDispatchFacts DEF Dispatch
  <2> QED
    BY <2>1, NumbersAssumption DEF LoopInv, InRound
<1>2. CASE DispatchNew
  <2>1. pc' \in {"routerStartup", "dispatchLoopStartup"} /\ nesting' = ForwardLimit
        /\ hist'.rounds = 0
    BY <1>2, StartDispatchFacts DEF DispatchNew
  <2> QED
    BY <2>1, NumbersAssumption DEF LoopInv, InRound
<1>3. CASE PluginReturns
  BY <1>3, NumbersAssumption DEF PluginReturns, LoopInv, InRound, BeforeLoop,
     TypeOK, History
<1>4. CASE PluginThrows
  BY <1>4, NumbersAssumption DEF PluginThrows, LoopInv, InRound, BeforeLoop,
     TypeOK, History
<1>5. CASE HookThrew
  BY <1>5, NumbersAssumption DEF HookThrew, Leave, EntersHandler, Hooks,
     LoopInv, InRound, BeforeLoop, TypeOK, History
<1>6. CASE RouterStartupDone
  BY <1>6, NumbersAssumption DEF RouterStartupDone, HookDone, LoopInv,
     InRound, BeforeLoop, TypeOK, History
<1>7. CASE RouteMatches
  BY <1>7, NumbersAssumption DEF RouteMatches, EnterHook, LoopInv, InRound,
     BeforeLoop, TypeOK, History
<1>8. CASE RouteUnmatched
  BY <1>8, NumbersAssumption DEF RouteUnmatched, EnterHook, LoopInv, InRound,
     BeforeLoop, TypeOK, History
<1>8a. CASE RouteThrows
  BY <1>8a, NumbersAssumption DEF RouteThrows, LoopInv, InRound, BeforeLoop,
     TypeOK, History
<1>9. CASE RouterShutdownDone
  BY <1>9, NumbersAssumption DEF RouterShutdownDone, HookDone, EnterHook,
     LoopInv, InRound, BeforeLoop, TypeOK, History
<1>10. CASE LoopStartupDone
  BY <1>10, NumbersAssumption DEF LoopStartupDone, HookDone, EnterHook,
     LoopInv, InRound, BeforeLoop, TypeOK, History
<1>11. CASE PreDispatchDone
  BY <1>11, NumbersAssumption DEF PreDispatchDone, HookDone, LoopInv, InRound,
     BeforeLoop, TypeOK, History
<1>12. CASE HandleFails
  BY <1>12, NumbersAssumption DEF HandleFails, HandleReturns, LoopInv,
     InRound, BeforeLoop, TypeOK, History
<1>13. CASE HandleLoads
  BY <1>13, NumbersAssumption DEF HandleLoads, LoopInv, InRound, BeforeLoop,
     TypeOK, History
<1>14. CASE InitForwarded
  BY <1>14, NumbersAssumption DEF InitForwarded, LoopInv, InRound, BeforeLoop,
     TypeOK, History
<1>15. CASE InitThrows
  BY <1>15, NumbersAssumption DEF InitThrows, HandleReturns, LoopInv, InRound,
     BeforeLoop, TypeOK, History
<1>16. CASE InitReturns
  BY <1>16, NumbersAssumption DEF InitReturns, SetUpAction, LoopInv, InRound,
     BeforeLoop, TypeOK, History
<1>17. CASE ActionNotFound
  BY <1>17, NumbersAssumption DEF ActionNotFound, SetUpAction, HandleReturns,
     LoopInv, InRound, BeforeLoop, TypeOK, History
<1>18. CASE ActionThrows
  BY <1>18, NumbersAssumption DEF ActionThrows, HandleReturns, LoopInv,
     InRound, BeforeLoop, TypeOK, History
<1>19. CASE ActionReturns
  BY <1>19, NumbersAssumption DEF ActionReturns, HandleReturns, LoopInv,
     InRound, BeforeLoop, TypeOK, History
<1>20. CASE ActionAutoRenders
  BY <1>20, NumbersAssumption DEF ActionAutoRenders, LoopInv, InRound,
     BeforeLoop, TypeOK, History
<1>21. CASE RenderReturns
  BY <1>21, NumbersAssumption DEF RenderReturns, HandleReturns, LoopInv,
     InRound, BeforeLoop, TypeOK, History
<1>22. CASE RenderReturnsFalse
  BY <1>22, NumbersAssumption DEF RenderReturnsFalse, HandleReturns, LoopInv,
     InRound, BeforeLoop, TypeOK, History
<1>23. CASE RenderThrows
  BY <1>23, NumbersAssumption DEF RenderThrows, HandleReturns, LoopInv,
     InRound, BeforeLoop, TypeOK, History
<1>24. CASE RoundDone
  BY <1>24, NumbersAssumption DEF RoundDone, EnterHook, LoopInv, InRound,
     BeforeLoop, TypeOK, History
<1>25. CASE RoundFailed
  BY <1>25, NumbersAssumption DEF RoundFailed, Leave, EntersHandler, LoopInv,
     InRound, BeforeLoop, TypeOK, History
<1>26. CASE PostDispatchDone
  <2> SUFFICES ASSUME ForwardLimit > 0 PROVE LoopInv'
    BY DEF LoopInv
  <2>1. /\ hist.rounds \in Nat /\ nesting \in Nat
        /\ nesting >= 1 /\ hist.rounds + nesting = ForwardLimit + 1
    BY <1>26 DEF PostDispatchDone, HookDone, LoopInv, InRound, TypeOK, History
  <2>2. nesting' = nesting - 1
    BY <1>26, <2>1 DEF PostDispatchDone, Decrement
  <2>3. CASE LoopAgain
    <3>1. pc' = "preDispatch" /\ nesting' > 0
      BY <1>26, <2>3 DEF PostDispatchDone, EnterHook, LoopAgain
    <3>2. hist'.rounds = hist.rounds + 1
      BY <1>26, <2>3 DEF PostDispatchDone, TypeOK, History
    <3> QED
      BY <2>1, <2>2, <3>1, <3>2, NumbersAssumption DEF LoopInv, InRound, BeforeLoop
  <2>4. CASE ~LoopAgain
    <3>1. pc' = "dispatchLoopShutdown" /\ hist' = hist
      BY <1>26, <2>4 DEF PostDispatchDone, EnterHook
    <3> QED
      BY <2>1, <3>1, NumbersAssumption DEF LoopInv, InRound, BeforeLoop
  <2> QED
    BY <2>3, <2>4
<1>27. CASE NestingExhausted
  BY <1>27, NumbersAssumption DEF NestingExhausted, HookDone, Leave,
     EntersHandler, LoopInv, InRound, BeforeLoop, TypeOK, History
<1>28. CASE DispatchDone
  BY <1>28, NumbersAssumption DEF DispatchDone, HookDone, SendResponse,
     LoopInv, InRound, BeforeLoop, TypeOK, History
<1>29. CASE ErrorFailover
  BY <1>29, NumbersAssumption DEF ErrorFailover, LoopInv, InRound, BeforeLoop,
     TypeOK, History
<1>30. CASE ErrorSent
  BY <1>30, NumbersAssumption DEF ErrorSent, SendResponse, LoopInv, InRound,
     BeforeLoop, TypeOK, History
<1>31. CASE Forward
  BY <1>31, NumbersAssumption DEF Forward, LoopInv, InRound, BeforeLoop,
     TypeOK, History
<1>32. CASE SetRequest
  BY <1>32, NumbersAssumption DEF SetRequest, UserCodeRuns, PluginRuns, Hooks,
     LoopInv, InRound, BeforeLoop, TypeOK, History
<1>33. CASE SetOption
  BY <1>33, NumbersAssumption DEF SetOption, UserCodeRuns, PluginRuns, Hooks,
     LoopInv, InRound, BeforeLoop, TypeOK, History
<1>34. CASE CallerCatches
  BY <1>34, NumbersAssumption DEF CallerCatches, LoopInv, InRound, BeforeLoop,
     TypeOK, History
<1>35. CASE Bailout
  BY <1>35, NumbersAssumption DEF Bailout, LoopInv, InRound, BeforeLoop,
     TypeOK, History
<1>36. CASE NextHttpRequest
  BY <1>36, NumbersAssumption DEF NextHttpRequest, NewHistory,
     RequestShutdown, LoopInv, InRound, BeforeLoop, TypeOK, History
<1>37. CASE UNCHANGED vars
  BY <1>37 DEF vars, LoopInv, InRound, BeforeLoop, TypeOK, History
<1> QED
  BY <1>1, <1>2, <1>3, <1>4, <1>5, <1>6, <1>7, <1>8, <1>8a, <1>9, <1>10, <1>11,
     <1>12, <1>13, <1>14, <1>15, <1>16, <1>17, <1>18, <1>19, <1>20, <1>21,
     <1>22, <1>23, <1>24, <1>25, <1>26, <1>27, <1>28, <1>29, <1>30, <1>31,
     <1>32, <1>33, <1>34, <1>35, <1>36, <1>37 DEF Next, Step, UserCode

\* ExitInv is inductive: every step of Next preserves it.
LEMMA ExitStep == TypeOK /\ ExitInv /\ [Next]_vars => ExitInv'
<1> SUFFICES ASSUME TypeOK, ExitInv, [Next]_vars PROVE ExitInv'
  OBVIOUS
<1>1. CASE Dispatch
  BY <1>1 DEF Dispatch, StartDispatch, EnterHook, ExitInv
<1>2. CASE DispatchNew
  BY <1>2 DEF DispatchNew, StartDispatch, EnterHook, ExitInv
<1>3. CASE PluginReturns
  BY <1>3 DEF PluginReturns, ExitInv
<1>4. CASE PluginThrows
  BY <1>4 DEF PluginThrows, ExitInv
<1>5. CASE HookThrew
  BY <1>5 DEF HookThrew, Leave, EntersHandler, Hooks, ExitInv
<1>6. CASE RouterStartupDone
  BY <1>6 DEF RouterStartupDone, HookDone, ExitInv
<1>7. CASE RouteMatches
  BY <1>7 DEF RouteMatches, EnterHook, ExitInv
<1>8. CASE RouteUnmatched
  BY <1>8 DEF RouteUnmatched, EnterHook, ExitInv
<1>8a. CASE RouteThrows
  BY <1>8a DEF RouteThrows, ExitInv
<1>9. CASE RouterShutdownDone
  BY <1>9 DEF RouterShutdownDone, HookDone, EnterHook, ExitInv
<1>10. CASE LoopStartupDone
  BY <1>10 DEF LoopStartupDone, HookDone, EnterHook, ExitInv
<1>11. CASE PreDispatchDone
  BY <1>11 DEF PreDispatchDone, HookDone, ExitInv
<1>12. CASE HandleFails
  BY <1>12 DEF HandleFails, HandleReturns, ExitInv
<1>13. CASE HandleLoads
  BY <1>13 DEF HandleLoads, ExitInv
<1>14. CASE InitForwarded
  BY <1>14 DEF InitForwarded, ExitInv
<1>15. CASE InitThrows
  BY <1>15 DEF InitThrows, HandleReturns, ExitInv
<1>16. CASE InitReturns
  BY <1>16 DEF InitReturns, SetUpAction, ExitInv
<1>17. CASE ActionNotFound
  BY <1>17 DEF ActionNotFound, SetUpAction, HandleReturns, ExitInv
<1>18. CASE ActionThrows
  BY <1>18 DEF ActionThrows, HandleReturns, ExitInv
<1>19. CASE ActionReturns
  BY <1>19 DEF ActionReturns, HandleReturns, ExitInv
<1>20. CASE ActionAutoRenders
  BY <1>20 DEF ActionAutoRenders, ExitInv
<1>21. CASE RenderReturns
  BY <1>21 DEF RenderReturns, HandleReturns, ExitInv
<1>22. CASE RenderReturnsFalse
  BY <1>22 DEF RenderReturnsFalse, HandleReturns, ExitInv
<1>23. CASE RenderThrows
  BY <1>23 DEF RenderThrows, HandleReturns, ExitInv
<1>24. CASE RoundDone
  BY <1>24 DEF RoundDone, EnterHook, ExitInv
<1>25. CASE RoundFailed
  BY <1>25 DEF RoundFailed, Leave, EntersHandler, ExitInv
<1>26. CASE PostDispatchDone
  <2>1. LoopAgain \/ nesting' = 0 \/ request.dispatched
    <3>1. Decrement(nesting) \in Nat
      BY NumbersAssumption DEF Decrement, TypeOK
    <3> QED
      BY <1>26, <3>1 DEF PostDispatchDone, LoopAgain
  <2> QED
    BY <1>26, <2>1 DEF PostDispatchDone, EnterHook, ExitInv
<1>27. CASE NestingExhausted
  BY <1>27 DEF NestingExhausted, HookDone, Leave, EntersHandler, ExitInv
<1>28. CASE DispatchDone
  <2>1. request.dispatched
    BY <1>28 DEF DispatchDone, HookDone, NestingReached, ExitInv
  <2> QED
    BY <1>28, <2>1 DEF DispatchDone, ExitInv
<1>29. CASE ErrorFailover
  BY <1>29 DEF ErrorFailover, ExitInv
<1>30. CASE ErrorSent
  BY <1>30 DEF ErrorSent, SendResponse, ExitInv
<1>31. CASE Forward
  BY <1>31 DEF Forward, ExitInv
<1>32. CASE SetRequest
  BY <1>32, SetRequestKeeps DEF SetRequest, ExitInv
<1>33. CASE SetOption
  BY <1>33 DEF SetOption, UserCodeRuns, PluginRuns, Hooks, ExitInv
<1>34. CASE CallerCatches
  BY <1>34 DEF CallerCatches, ExitInv
<1>35. CASE Bailout
  BY <1>35 DEF Bailout, ExitInv
<1>36. CASE NextHttpRequest
  BY <1>36 DEF NextHttpRequest, NewHistory, RequestShutdown, ExitInv
<1>37. CASE UNCHANGED vars
  BY <1>37 DEF vars, ExitInv
<1> QED
  BY <1>1, <1>2, <1>3, <1>4, <1>5, <1>6, <1>7, <1>8, <1>8a, <1>9, <1>10, <1>11,
     <1>12, <1>13, <1>14, <1>15, <1>16, <1>17, <1>18, <1>19, <1>20, <1>21,
     <1>22, <1>23, <1>24, <1>25, <1>26, <1>27, <1>28, <1>29, <1>30, <1>31,
     <1>32, <1>33, <1>34, <1>35, <1>36, <1>37 DEF Next, Step, UserCode

\* For every forward limit above 0 and however callbacks forward: the dispatch
\* loop makes at most forward_limit rounds.
THEOREM RoundsBounded ==
  ASSUME ForwardLimit > 0
  PROVE  Spec => []RoundsWithinForwardLimit
<1>1. Init => LoopInv
  BY NumbersAssumption DEF Init, LoopInv, InRound, BeforeLoop, NewHistory
<1>2. LoopInv => RoundsWithinForwardLimit
  BY NumbersAssumption DEF LoopInv, RoundsWithinForwardLimit
<1> QED
  BY <1>1, <1>2, TypeCorrect, LoopStep, PTL DEF Spec

\* yaf_dispatcher_dispatch returns a response only for a dispatched request, for
\* every forward limit, 0 included.
THEOREM CompletedDispatched == Spec => []CompletedMeansDispatched
<1>1. Init => ExitInv
  BY DEF Init, ExitInv
<1>2. ExitInv => CompletedMeansDispatched
  BY DEF ExitInv, CompletedMeansDispatched
<1> QED
  BY <1>1, <1>2, TypeCorrect, ExitStep, PTL DEF Spec

-----------------------------------------------------------------------------
(* The exception handler *)

\* in_exception counts the runs of the handler; the controllers it runs are run
\* under it; and it is the only thing that lets a catchable exception out.
HandlerInv ==
  /\ hist.handlers = IF inException THEN 1 ELSE 0
  /\ ctx # "loop" => inException
  /\ pc = "idle" /\ exc # None /\ options.catchException /\ Catchable(exc)
       => inException

\* Why a step failed is still known when dispatch returns.
ReasonInv ==
  /\ ctx # "loop" => hist.caught # None
  /\ pc = "handled" /\ ~handled => exc # None \/ hist.excused
  /\ pc = "idle" /\ result = "null"
       => exc # None \/ hist.caught # None \/ hist.excused

\* A request that was routed says so, and only an unrouted one goes to the router.
RoutedInv ==
  /\ hist.routings <= 1
  /\ hist.routings = 1 => request.routed
  /\ pc \in {"routerStartup", "route"} => hist.routings = 0

\* Leaving dispatch preserves HandlerInv.
LEMMA LeaveHandler ==
  ASSUME TypeOK, HandlerInv, NEW e, NEW req, NEW h \in History,
         h.handlers = hist.handlers, Leave(e, req, h), UNCHANGED options
  PROVE  HandlerInv'
<1>1. CASE EntersHandler(e)
  <2>1. hist'.handlers = hist.handlers + 1 /\ inException' = TRUE /\ pc' = "handle"
    BY <1>1 DEF Leave, History
  <2>2. hist.handlers = 0
    BY <1>1 DEF EntersHandler, HandlerInv
  <2> QED
    BY <2>1, <2>2 DEF HandlerInv
<1>2. CASE ~EntersHandler(e)
  BY <1>2 DEF Leave, EntersHandler, HandlerInv
<1> QED
  BY <1>1, <1>2

\* Leaving dispatch with a reason preserves ReasonInv.
LEMMA LeaveReason ==
  ASSUME TypeOK, ReasonInv, NEW e, NEW req, NEW h \in History,
         h.caught = hist.caught, Leave(e, req, h), e # None \/ h.excused
  PROVE  ReasonInv'
<1>1. CASE EntersHandler(e)
  <2>1. hist'.caught = e /\ e # None /\ pc' = "handle"
    BY <1>1 DEF Leave, EntersHandler, History
  <2> QED
    BY <2>1 DEF ReasonInv
<1>2. CASE ~EntersHandler(e)
  BY <1>2 DEF Leave, ReasonInv
<1> QED
  BY <1>1, <1>2

\* Leaving dispatch preserves RoutedInv.
LEMMA LeaveRouted ==
  ASSUME TypeOK, RoutedInv, NEW e, NEW req \in Request, NEW h \in History,
         h.routings = hist.routings, req.routed = request.routed, Leave(e, req, h)
  PROVE  RoutedInv'
<1>1. CASE EntersHandler(e)
  <2>1. hist'.routings = h.routings
    BY <1>1 DEF Leave, History
  <2>2. request'.routed = req.routed
    BY <1>1 DEF Leave, ErrorRequest, Request
  <2>3. pc' = "handle"
    BY <1>1 DEF Leave
  <2> QED
    BY <2>1, <2>2, <2>3 DEF RoutedInv
<1>2. CASE ~EntersHandler(e)
  BY <1>2 DEF Leave, RoutedInv
<1> QED
  BY <1>1, <1>2

\* The history that an error is recorded in.
LEMMA ExcusedHistory ==
  ASSUME TypeOK, NEW b \in BOOLEAN
  PROVE  /\ [hist EXCEPT !.excused = @ \/ b] \in History
         /\ [hist EXCEPT !.excused = @ \/ b].handlers = hist.handlers
         /\ [hist EXCEPT !.excused = @ \/ b].caught = hist.caught
         /\ [hist EXCEPT !.excused = @ \/ b].routings = hist.routings
         /\ [hist EXCEPT !.excused = @ \/ b].excused = (hist.excused \/ b)
BY DEF TypeOK, History

\* HandlerInv is inductive: every step of Next preserves it.
LEMMA HandlerStep == TypeOK /\ HandlerInv /\ [Next]_vars => HandlerInv'
<1> SUFFICES ASSUME TypeOK, HandlerInv, [Next]_vars PROVE HandlerInv'
  OBVIOUS
<1>1. CASE Dispatch
  BY <1>1 DEF Dispatch, StartDispatch, EnterHook, HandlerInv, TypeOK, History
<1>2. CASE DispatchNew
  BY <1>2 DEF DispatchNew, StartDispatch, EnterHook, HandlerInv, TypeOK,
     History
<1>3. CASE PluginReturns
  BY <1>3 DEF PluginReturns, HandlerInv, TypeOK, History
<1>4. CASE PluginThrows
  <2>1. pc' # "idle"
    BY <1>4 DEF PluginThrows, Hooks
  <2> QED
    BY <1>4, <2>1 DEF PluginThrows, HandlerInv
<1>5. CASE HookThrew
  BY <1>5, LeaveHandler DEF HookThrew, TypeOK
<1>6. CASE RouterStartupDone
  BY <1>6 DEF RouterStartupDone, HookDone, HandlerInv, TypeOK, History
<1>7. CASE RouteMatches
  BY <1>7 DEF RouteMatches, EnterHook, HandlerInv, TypeOK, History
<1>8. CASE RouteUnmatched
  BY <1>8 DEF RouteUnmatched, EnterHook, HandlerInv, TypeOK, History
<1>8a. CASE RouteThrows
  BY <1>8a DEF RouteThrows, HandlerInv, TypeOK, History
<1>9. CASE RouterShutdownDone
  BY <1>9 DEF RouterShutdownDone, HookDone, EnterHook, HandlerInv, TypeOK,
     History
<1>10. CASE LoopStartupDone
  BY <1>10 DEF LoopStartupDone, HookDone, EnterHook, HandlerInv, TypeOK,
     History
<1>11. CASE PreDispatchDone
  BY <1>11 DEF PreDispatchDone, HookDone, HandlerInv, TypeOK, History
<1>12. CASE HandleFails
  BY <1>12 DEF HandleFails, HandleReturns, HandlerInv, TypeOK, History
<1>13. CASE HandleLoads
  BY <1>13 DEF HandleLoads, HandlerInv, TypeOK, History
<1>14. CASE InitForwarded
  BY <1>14 DEF InitForwarded, HandlerInv, TypeOK, History
<1>15. CASE InitThrows
  BY <1>15 DEF InitThrows, HandleReturns, HandlerInv, TypeOK, History
<1>16. CASE InitReturns
  BY <1>16 DEF InitReturns, SetUpAction, HandlerInv, TypeOK, History
<1>17. CASE ActionNotFound
  BY <1>17 DEF ActionNotFound, SetUpAction, HandleReturns, HandlerInv, TypeOK,
     History
<1>18. CASE ActionThrows
  BY <1>18 DEF ActionThrows, HandleReturns, HandlerInv, TypeOK, History
<1>19. CASE ActionReturns
  BY <1>19 DEF ActionReturns, HandleReturns, HandlerInv, TypeOK, History
<1>20. CASE ActionAutoRenders
  BY <1>20 DEF ActionAutoRenders, HandlerInv, TypeOK, History
<1>21. CASE RenderReturns
  BY <1>21 DEF RenderReturns, HandleReturns, HandlerInv, TypeOK, History
<1>22. CASE RenderReturnsFalse
  BY <1>22 DEF RenderReturnsFalse, HandleReturns, HandlerInv, TypeOK, History
<1>23. CASE RenderThrows
  BY <1>23 DEF RenderThrows, HandleReturns, HandlerInv, TypeOK, History
<1>24. CASE RoundDone
  BY <1>24 DEF RoundDone, EnterHook, HandlerInv, TypeOK, History
<1>25. CASE RoundFailed
  BY <1>25, LeaveHandler DEF RoundFailed, TypeOK
<1>26. CASE PostDispatchDone
  BY <1>26 DEF PostDispatchDone, HookDone, EnterHook, HandlerInv, TypeOK,
     History
<1>27. CASE NestingExhausted
  <2> DEFINE h == [hist EXCEPT !.excused = @ \/ ~options.throwException]
  <2>1. PICK e \in TriggerError("DispatchFailed") : Leave(e, request, h)
    BY <1>27 DEF NestingExhausted
  <2>2. (~options.throwException) \in BOOLEAN
    BY DEF TypeOK, OptionNames, Switches
  <2>3. h \in History /\ h.handlers = hist.handlers
    BY <2>2, ExcusedHistory
  <2> QED
    BY <1>27, <2>1, <2>3, LeaveHandler DEF NestingExhausted
<1>28. CASE DispatchDone
  BY <1>28 DEF DispatchDone, HookDone, SendResponse, HandlerInv, TypeOK,
     History
<1>29. CASE ErrorFailover
  BY <1>29 DEF ErrorFailover, FailsOver, HandlerInv
<1>30. CASE ErrorSent
  BY <1>30 DEF ErrorSent, SendResponse, HandlerInv, TypeOK, History
<1>31. CASE Forward
  BY <1>31 DEF Forward, HandlerInv, TypeOK, History
<1>32. CASE SetRequest
  BY <1>32 DEF SetRequest, UserCodeRuns, PluginRuns, Hooks, HandlerInv,
     TypeOK, History
<1>33. CASE SetOption
  BY <1>33 DEF SetOption, UserCodeRuns, PluginRuns, Hooks, HandlerInv, TypeOK,
     History
<1>34. CASE CallerCatches
  BY <1>34 DEF CallerCatches, HandlerInv, TypeOK, History
<1>35. CASE Bailout
  BY <1>35 DEF Bailout, HandlerInv, TypeOK, History
<1>36. CASE NextHttpRequest
  BY <1>36 DEF NextHttpRequest, NewHistory, RequestShutdown, HandlerInv,
     TypeOK, History
<1>37. CASE UNCHANGED vars
  BY <1>37 DEF vars, HandlerInv, TypeOK, History
<1> QED
  BY <1>1, <1>2, <1>3, <1>4, <1>5, <1>6, <1>7, <1>8, <1>8a, <1>9, <1>10, <1>11,
     <1>12, <1>13, <1>14, <1>15, <1>16, <1>17, <1>18, <1>19, <1>20, <1>21,
     <1>22, <1>23, <1>24, <1>25, <1>26, <1>27, <1>28, <1>29, <1>30, <1>31,
     <1>32, <1>33, <1>34, <1>35, <1>36, <1>37 DEF Next, Step, UserCode

\* ReasonInv is inductive: every step of Next preserves it.
LEMMA ReasonStep == TypeOK /\ ReasonInv /\ [Next]_vars => ReasonInv'
<1> SUFFICES ASSUME TypeOK, ReasonInv, [Next]_vars PROVE ReasonInv'
  OBVIOUS
<1>1. CASE Dispatch
  BY <1>1 DEF Dispatch, StartDispatch, EnterHook, ReasonInv, None
<1>2. CASE DispatchNew
  BY <1>2 DEF DispatchNew, StartDispatch, EnterHook, ReasonInv, None
<1>3. CASE PluginReturns
  BY <1>3 DEF PluginReturns, ReasonInv, None
<1>4. CASE PluginThrows
  <2>1. pc' \notin {"handled", "idle"}
    BY <1>4 DEF PluginThrows, Hooks
  <2> QED
    BY <1>4, <2>1 DEF PluginThrows, ReasonInv
<1>5. CASE HookThrew
  BY <1>5, LeaveReason DEF HookThrew, TypeOK
<1>6. CASE RouterStartupDone
  BY <1>6 DEF RouterStartupDone, HookDone, ReasonInv, None
<1>7. CASE RouteMatches
  BY <1>7 DEF RouteMatches, EnterHook, ReasonInv, None
<1>8. CASE RouteUnmatched
  BY <1>8 DEF RouteUnmatched, EnterHook, ReasonInv, None
<1>8a. CASE RouteThrows
  BY <1>8a DEF RouteThrows, ReasonInv, None
<1>9. CASE RouterShutdownDone
  BY <1>9 DEF RouterShutdownDone, HookDone, EnterHook, ReasonInv, None
<1>10. CASE LoopStartupDone
  BY <1>10 DEF LoopStartupDone, HookDone, EnterHook, ReasonInv, None
<1>11. CASE PreDispatchDone
  BY <1>11 DEF PreDispatchDone, HookDone, ReasonInv, None
<1>12. CASE HandleFails
  <2>1. PICK e \in TriggerError(HandleFailure) : HandleReturns(FALSE, e)
    BY <1>12 DEF HandleFails
  <2>2. (~options.throwException) \in BOOLEAN
    BY DEF TypeOK, OptionNames, Switches
  <2>3. /\ hist'.caught = hist.caught
        /\ hist'.excused = (hist.excused \/ ~options.throwException)
    BY <1>12, <2>2, ExcusedHistory DEF HandleFails
  <2>4. e # None \/ ~options.throwException
    BY <1>12, HandleFailureType, TriggerErrorThrows DEF HandleFails
  <2> QED
    BY <1>12, <2>1, <2>3, <2>4 DEF HandleFails, HandleReturns, ReasonInv
<1>13. CASE HandleLoads
  BY <1>13 DEF HandleLoads, ReasonInv, None
<1>14. CASE InitForwarded
  BY <1>14 DEF InitForwarded, ReasonInv, None
<1>15. CASE InitThrows
  <2>1. PICK e \in Throwables : HandleReturns(FALSE, e)
    BY <1>15 DEF InitThrows
  <2>2. e # None
    BY UserCodeAssumption
  <2> QED
    BY <1>15, <2>1, <2>2 DEF InitThrows, HandleReturns, ReasonInv
<1>16. CASE InitReturns
  BY <1>16 DEF InitReturns, SetUpAction, ReasonInv, None
<1>17. CASE ActionNotFound
  <2>1. PICK code \in {"LoadFailed_Action", "LoadFailed", "TypeError"} :
           \E e \in TriggerError(code) : HandleReturns(FALSE, e)
    BY <1>17 DEF ActionNotFound
  <2>2. PICK e \in TriggerError(code) : HandleReturns(FALSE, e)
    BY <2>1
  <2>3. (~options.throwException) \in BOOLEAN
    BY DEF TypeOK, OptionNames, Switches
  <2>4. /\ hist'.caught = hist.caught
        /\ hist'.excused = (hist.excused \/ ~options.throwException)
    BY <1>17, <2>3, ExcusedHistory DEF ActionNotFound
  <2>5. e # None \/ ~options.throwException
    BY TriggerErrorThrows DEF YafExceptions
  <2> QED
    BY <1>17, <2>2, <2>4, <2>5 DEF ActionNotFound, HandleReturns, ReasonInv
<1>18. CASE ActionThrows
  <2>1. PICK e \in Throwables : HandleReturns(FALSE, e)
    BY <1>18 DEF ActionThrows
  <2>2. e # None
    BY UserCodeAssumption
  <2> QED
    BY <1>18, <2>1, <2>2 DEF ActionThrows, HandleReturns, ReasonInv
<1>19. CASE ActionReturns
  BY <1>19 DEF ActionReturns, HandleReturns, ReasonInv, None
<1>20. CASE ActionAutoRenders
  BY <1>20 DEF ActionAutoRenders, ReasonInv, None
<1>21. CASE RenderReturns
  BY <1>21 DEF RenderReturns, HandleReturns, ReasonInv, None
<1>22. CASE RenderReturnsFalse
  BY <1>22 DEF RenderReturnsFalse, HandleReturns, ReasonInv, None
<1>23. CASE RenderThrows
  <2>1. CASE /\ \E e \in Throwables : HandleReturns(FALSE, e)
             /\ UNCHANGED <<errno, hist>>
    <3>1. PICK e \in Throwables : HandleReturns(FALSE, e)
      BY <2>1
    <3>2. e # None
      BY UserCodeAssumption
    <3> QED
      BY <1>23, <2>1, <3>1, <3>2 DEF RenderThrows, HandleReturns, ReasonInv
  <2>2. CASE /\ \E e \in TriggerError("LoadFailed_View") : HandleReturns(FALSE, e)
             /\ hist' = [hist EXCEPT !.excused = @ \/ ~options.throwException]
    <3>1. PICK e \in TriggerError("LoadFailed_View") : HandleReturns(FALSE, e)
      BY <2>2
    <3>2. (~options.throwException) \in BOOLEAN
      BY DEF TypeOK, OptionNames, Switches
    <3>3. /\ hist'.caught = hist.caught
          /\ hist'.excused = (hist.excused \/ ~options.throwException)
      BY <2>2, <3>2, ExcusedHistory
    <3>4. e # None \/ ~options.throwException
      BY TriggerErrorThrows DEF YafExceptions
    <3> QED
      BY <1>23, <3>1, <3>3, <3>4 DEF RenderThrows, HandleReturns, ReasonInv
  <2> QED
    BY <1>23, <2>1, <2>2 DEF RenderThrows
<1>24. CASE RoundDone
  BY <1>24 DEF RoundDone, EnterHook, ReasonInv, None
<1>25. CASE RoundFailed
  BY <1>25, LeaveReason DEF RoundFailed, ReasonInv, TypeOK
<1>26. CASE PostDispatchDone
  <2>1. pc' \notin {"handled", "idle"} /\ ctx' = ctx /\ hist'.caught = hist.caught
    BY <1>26 DEF PostDispatchDone, EnterHook, TypeOK, History
  <2> QED
    BY <2>1 DEF ReasonInv
<1>27. CASE NestingExhausted
  <2> DEFINE h == [hist EXCEPT !.excused = @ \/ ~options.throwException]
  <2>1. PICK e \in TriggerError("DispatchFailed") : Leave(e, request, h)
    BY <1>27 DEF NestingExhausted
  <2>2. (~options.throwException) \in BOOLEAN
    BY DEF TypeOK, OptionNames, Switches
  <2>3. h \in History /\ h.caught = hist.caught
    BY <2>2, ExcusedHistory
  <2>4. e # None \/ h.excused
    BY <2>2, ExcusedHistory, TriggerErrorThrows DEF YafExceptions
  <2> QED
    BY <1>27, <2>1, <2>3, <2>4, LeaveReason DEF NestingExhausted
<1>28. CASE DispatchDone
  BY <1>28 DEF DispatchDone, HookDone, SendResponse, ReasonInv, None
<1>29. CASE ErrorFailover
  BY <1>29 DEF ErrorFailover, FailsOver, ReasonInv
<1>30. CASE ErrorSent
  BY <1>30 DEF ErrorSent, SendResponse, ReasonInv, None
<1>31. CASE Forward
  BY <1>31 DEF Forward, ReasonInv, None
<1>32. CASE SetRequest
  BY <1>32 DEF SetRequest, UserCodeRuns, PluginRuns, Hooks, ReasonInv, None
<1>33. CASE SetOption
  BY <1>33 DEF SetOption, UserCodeRuns, PluginRuns, Hooks, ReasonInv, None
<1>34. CASE CallerCatches
  BY <1>34 DEF CallerCatches, ReasonInv, None
<1>35. CASE Bailout
  BY <1>35 DEF Bailout, ReasonInv, None
<1>36. CASE NextHttpRequest
  BY <1>36 DEF NextHttpRequest, NewHistory, RequestShutdown, ReasonInv, None
<1>37. CASE UNCHANGED vars
  BY <1>37 DEF vars, ReasonInv, None
<1> QED
  BY <1>1, <1>2, <1>3, <1>4, <1>5, <1>6, <1>7, <1>8, <1>8a, <1>9, <1>10, <1>11,
     <1>12, <1>13, <1>14, <1>15, <1>16, <1>17, <1>18, <1>19, <1>20, <1>21,
     <1>22, <1>23, <1>24, <1>25, <1>26, <1>27, <1>28, <1>29, <1>30, <1>31,
     <1>32, <1>33, <1>34, <1>35, <1>36, <1>37 DEF Next, Step, UserCode

\* RoutedInv is inductive: every step of Next preserves it.
LEMMA RoutedStep == TypeOK /\ RoutedInv /\ [Next]_vars => RoutedInv'
<1> SUFFICES ASSUME TypeOK, RoutedInv, [Next]_vars PROVE RoutedInv'
  OBVIOUS
<1>1. CASE Dispatch
  <2>1. /\ pc' \in {"routerStartup", "dispatchLoopStartup"}
        /\ hist'.routings = hist.routings /\ request'.routed = request.routed
    BY <1>1, StartDispatchFacts DEF Dispatch, TypeOK
  <2>2. pc' = "routerStartup" => ~request.routed
    BY <1>1 DEF Dispatch, StartDispatch, EnterHook
  <2> QED
    BY <2>1, <2>2 DEF RoutedInv, TypeOK, History
<1>2. CASE DispatchNew
  BY <1>2 DEF DispatchNew, StartDispatch, EnterHook, RoutedInv, TypeOK,
     History, Request
<1>3. CASE PluginReturns
  BY <1>3 DEF PluginReturns, RoutedInv, TypeOK, History, Request
<1>4. CASE PluginThrows
  BY <1>4 DEF PluginThrows, RoutedInv, TypeOK, History, Request
<1>5. CASE HookThrew
  BY <1>5, LeaveRouted DEF HookThrew, TypeOK
<1>6. CASE RouterStartupDone
  BY <1>6 DEF RouterStartupDone, HookDone, RoutedInv, TypeOK, History, Request
<1>7. CASE RouteMatches
  <2>1. PICK t \in RouteTargets : request' = FixDefault(RoutedTo(t))
    BY <1>7 DEF RouteMatches
  <2>2. RoutedTo(t) \in Request /\ RoutedTo(t).routed = TRUE
    BY SetNamesType, UserCodeAssumption DEF RoutedTo, TypeOK, Request
  <2>3. request'.routed = TRUE
    BY <2>1, <2>2, FixDefaultKeeps
  <2>4. hist'.routings = 1 /\ pc' = "routerShutdown"
    BY <1>7 DEF RouteMatches, EnterHook, RoutedInv, TypeOK, History
  <2> QED
    BY <2>3, <2>4 DEF RoutedInv
<1>8. CASE RouteUnmatched
  <2>1. PICK req \in Declined : request' = FixDefault(req)
    BY <1>8 DEF RouteUnmatched
  <2>2. request'.routed = request.routed
    BY <2>1, DeclinedType, FixDefaultKeeps
  <2> QED
    BY <1>8, <2>2 DEF RouteUnmatched, EnterHook, RoutedInv
<1>8a. CASE RouteThrows
  <2>1. PICK req \in Declined : request' = FixDefault(req)
    BY <1>8a DEF RouteThrows
  <2>2. request'.routed = request.routed
    BY <2>1, DeclinedType, FixDefaultKeeps
  <2> QED
    BY <1>8a, <2>2 DEF RouteThrows, RoutedInv
<1>9. CASE RouterShutdownDone
  BY <1>9 DEF RouterShutdownDone, HookDone, EnterHook, RoutedInv, TypeOK,
     History, Request
<1>10. CASE LoopStartupDone
  BY <1>10 DEF LoopStartupDone, HookDone, EnterHook, RoutedInv, TypeOK,
     History, Request
<1>11. CASE PreDispatchDone
  BY <1>11 DEF PreDispatchDone, HookDone, RoutedInv, TypeOK, History, Request
<1>12. CASE HandleFails
  BY <1>12 DEF HandleFails, HandleReturns, RoutedInv, TypeOK, History, Request
<1>13. CASE HandleLoads
  BY <1>13 DEF HandleLoads, RoutedInv, TypeOK, History, Request
<1>14. CASE InitForwarded
  BY <1>14 DEF InitForwarded, RoutedInv, TypeOK, History, Request
<1>15. CASE InitThrows
  BY <1>15 DEF InitThrows, HandleReturns, RoutedInv, TypeOK, History, Request
<1>16. CASE InitReturns
  BY <1>16 DEF InitReturns, SetUpAction, RoutedInv, TypeOK, History, Request
<1>17. CASE ActionNotFound
  BY <1>17 DEF ActionNotFound, SetUpAction, HandleReturns, RoutedInv, TypeOK,
     History, Request
<1>18. CASE ActionThrows
  BY <1>18 DEF ActionThrows, HandleReturns, RoutedInv, TypeOK, History,
     Request
<1>19. CASE ActionReturns
  BY <1>19 DEF ActionReturns, HandleReturns, RoutedInv, TypeOK, History,
     Request
<1>20. CASE ActionAutoRenders
  BY <1>20 DEF ActionAutoRenders, RoutedInv, TypeOK, History, Request
<1>21. CASE RenderReturns
  BY <1>21 DEF RenderReturns, HandleReturns, RoutedInv, TypeOK, History,
     Request
<1>22. CASE RenderReturnsFalse
  BY <1>22 DEF RenderReturnsFalse, HandleReturns, RoutedInv, TypeOK, History,
     Request
<1>23. CASE RenderThrows
  BY <1>23 DEF RenderThrows, HandleReturns, RoutedInv, TypeOK, History,
     Request
<1>24. CASE RoundDone
  <2>1. request'.routed = request.routed
    BY <1>24, FixDefaultKeeps DEF RoundDone, TypeOK
  <2> QED
    BY <1>24, <2>1 DEF RoundDone, EnterHook, RoutedInv
<1>25. CASE RoundFailed
  BY <1>25, LeaveRouted DEF RoundFailed, TypeOK
<1>26. CASE PostDispatchDone
  BY <1>26 DEF PostDispatchDone, HookDone, EnterHook, RoutedInv, TypeOK,
     History, Request
<1>27. CASE NestingExhausted
  <2> DEFINE h == [hist EXCEPT !.excused = @ \/ ~options.throwException]
  <2>1. PICK e \in TriggerError("DispatchFailed") : Leave(e, request, h)
    BY <1>27 DEF NestingExhausted
  <2>2. (~options.throwException) \in BOOLEAN
    BY DEF TypeOK, OptionNames, Switches
  <2>3. h \in History /\ h.routings = hist.routings
    BY <2>2, ExcusedHistory
  <2> QED
    BY <2>1, <2>3, LeaveRouted DEF TypeOK
<1>28. CASE DispatchDone
  BY <1>28 DEF DispatchDone, HookDone, SendResponse, RoutedInv, TypeOK,
     History, Request
<1>29. CASE ErrorFailover
  BY <1>29 DEF ErrorFailover, RoutedInv, TypeOK, History, Request
<1>30. CASE ErrorSent
  BY <1>30 DEF ErrorSent, SendResponse, RoutedInv, TypeOK, History, Request
<1>31. CASE Forward
  <2>1. PICK t \in Targets :
           request' = [SetNames(request, t) EXCEPT !.dispatched = FALSE]
    BY <1>31 DEF Forward, ForwardTargets
  <2>2. SetNames(request, t) \in Request /\ SetNames(request, t).routed = request.routed
    BY SetNamesType, SetNamesKeeps, UserCodeAssumption DEF TypeOK
  <2>3. request'.routed = request.routed
    BY <2>1, <2>2 DEF Request
  <2>4. hist'.routings = hist.routings /\ pc' \in {"init", "action"}
    BY <1>31 DEF Forward, TypeOK, History
  <2> QED
    BY <2>3, <2>4 DEF RoutedInv
<1>32. CASE SetRequest
  BY <1>32, SetRequestKeeps DEF SetRequest, RoutedInv
<1>33. CASE SetOption
  BY <1>33 DEF SetOption, UserCodeRuns, PluginRuns, Hooks, RoutedInv, TypeOK,
     History, Request
<1>34. CASE CallerCatches
  BY <1>34 DEF CallerCatches, RoutedInv, TypeOK, History, Request
<1>35. CASE Bailout
  BY <1>35 DEF Bailout, RoutedInv, TypeOK, History, Request
<1>36. CASE NextHttpRequest
  BY <1>36 DEF NextHttpRequest, NewHistory, RequestShutdown, RoutedInv,
     TypeOK, History, Request
<1>37. CASE UNCHANGED vars
  BY <1>37 DEF vars, RoutedInv, TypeOK, History, Request
<1> QED
  BY <1>1, <1>2, <1>3, <1>4, <1>5, <1>6, <1>7, <1>8, <1>8a, <1>9, <1>10, <1>11,
     <1>12, <1>13, <1>14, <1>15, <1>16, <1>17, <1>18, <1>19, <1>20, <1>21,
     <1>22, <1>23, <1>24, <1>25, <1>26, <1>27, <1>28, <1>29, <1>30, <1>31,
     <1>32, <1>33, <1>34, <1>35, <1>36, <1>37 DEF Next, Step, UserCode

\* The exception handler runs at most once in an HTTP request, for any number of
\* dispatches in it and whatever the error controller throws.
THEOREM HandlerRunsOnce == Spec => []HandlerOncePerRequest
<1>1. Init => HandlerInv
  BY DEF Init, HandlerInv, NewHistory
<1>2. HandlerInv => HandlerOncePerRequest
  BY DEF HandlerInv, HandlerOncePerRequest
<1> QED
  BY <1>1, <1>2, TypeCorrect, HandlerStep, PTL DEF Spec

\* With catch_exception on, a catchable exception leaves dispatch only when the
\* handler has already run in this HTTP request.
THEOREM EscapesJustified == Spec => []EscapesOnlyAfterHandler
<1>1. Init => HandlerInv
  BY DEF Init, HandlerInv, NewHistory
<1>2. HandlerInv => EscapesOnlyAfterHandler
  BY DEF HandlerInv, EscapesOnlyAfterHandler
<1> QED
  BY <1>1, <1>2, TypeCorrect, HandlerStep, PTL DEF Spec

\* Whenever dispatch returns NULL, its caller can find out why.
THEOREM FailureHasReason == Spec => []NoSilentFailure
<1>1. Init => ReasonInv
  BY DEF Init, ReasonInv
<1>2. ReasonInv => NoSilentFailure
  BY DEF ReasonInv, NoSilentFailure
<1> QED
  BY <1>1, <1>2, TypeCorrect, ReasonStep, PTL DEF Spec

\* No request object is routed twice, in any number of dispatches.
THEOREM RequestRoutedOnce == Spec => []RoutedOnce
<1>1. Init => RoutedInv
  BY DEF Init, RoutedInv, NewHistory
<1>2. RoutedInv => RoutedOnce
  BY DEF RoutedInv, RoutedOnce
<1> QED
  BY <1>1, <1>2, TypeCorrect, RoutedStep, PTL DEF Spec

-----------------------------------------------------------------------------
(* What a dispatch sends: that a page that was rendered is there once, that  *)
(* the pages are in the order of the rounds, that each is made from the      *)
(* template of its action, and that the fail-over finds the error controller *)
(* that there is.                                                            *)

Busy == pc \notin {"idle", "dead"}

\* The loop and its hooks run only while nothing was caught.
CaughtInv ==
  /\ pc \in Hooks \cup {"route"} => ctx = "loop"
  /\ Busy /\ ctx = "loop" => hist.caught = None

\* Each rendering has a number of its own, and is in one place.
IdsInv ==
  /\ \A i \in DOMAIN out : out[i].id <= hist.renders
  /\ \A i \in DOMAIN body : body[i].id <= hist.renders
  /\ \A i, j \in DOMAIN out : out[i].id = out[j].id => i = j
  /\ \A i, j \in DOMAIN body : body[i].id = body[j].id => i = j
  /\ \A i \in DOMAIN out, j \in DOMAIN body : out[i].id /= body[j].id

\* The dispatch has ended in a way that sends, or returns, what was rendered.
Answered == pc = "idle" /\ (result = "response" \/ (result = "null" /\ hist.caught /= None))

\* No rendering is lost before that.
CountInv == Busy \/ Answered => Len(out) + Len(body) = hist.renders

\* Where flushInstantly stays as it is during a dispatch, the renderings are all
\* written at once or all kept in the body, as it was when their action returned.
FlushInv ==
  /\ Busy => IF options.flushInstantly THEN body = <<>> ELSE out = <<>>
  /\ pc = "display" => options.flushInstantly
  /\ pc = "render" => ~options.flushInstantly

OrderInv ==
  /\ \A i, j \in DOMAIN out : i < j => out[i].id < out[j].id
  /\ \A i, j \in DOMAIN body : i < j => body[i].id < body[j].id
  /\ \A i \in DOMAIN out, j \in DOMAIN body : out[i].id < body[j].id

\* PHP code flips flushInstantly between dispatches only.
FlushLeftAlone == Busy => options'.flushInstantly = options.flushInstantly

\* A rendering that used the template of its action.
OwnTemplate(r) ==
  /\ r.controller = r.of.controller
  /\ r.action = r.of.action
  /\ r.of.loaded = r.of.module =>
       r.dir = ViewDirOf(r.of.module = DefaultModule, r.of.module)

\* The locals of yaf_dispatcher_handle and the view directory stay those of the
\* action that was entered.
TemplateInv ==
  /\ pc = "init" => frame.isDefModule = (frame.module = DefaultModule)
  /\ pc \in {"action", "render", "display"} => OwnTemplate(NewRendering)
  /\ \A i \in DOMAIN out : OwnTemplate(out[i])
  /\ \A i \in DOMAIN body : OwnTemplate(body[i])

\* Until the error controller has been loaded, no PHP code runs that could rename
\* the request: the handler looks for the ErrorController, the fail-over for that
\* of the default module, and after it a missing controller is that one.
FailoverInv ==
  ~hist.errorRan =>
    /\ Busy /\ ctx /= "loop" => pc \in {"handle", "handled"}
    /\ pc = "handle" /\ ctx /= "loop" => request.controller = ErrorController
    /\ pc = "handle" /\ ctx = "failover" => request.module = DefaultModule
    /\ pc = "handled" /\ ctx = "error" =>
         request.controller = ErrorController /\ (exc = "LoadFailed_Controller" => ~handled)
    /\ (pc = "handled" /\ ctx = "failover") \/ (pc = "idle" /\ hist.caught /= None) =>
         (exc = "LoadFailed_Controller" =>
            Script[<<DefaultModule, ErrorController>>] /= "controller")

-----------------------------------------------------------------------------
(* What a step does with the renderings *)

\* yaf_dispatcher_dispatch starts, or the next HTTP request.
Begins ==
  /\ body' = <<>> /\ out' = <<>> /\ hist'.renders = 0 /\ hist'.caught = None
  /\ ctx' = "loop" /\ pc' \in {"idle", "routerStartup", "dispatchLoopStartup"}
  /\ result' = "none"

\* It goes on, without a rendering.
Goes ==
  /\ Busy /\ Busy' /\ UNCHANGED <<body, out, result, options>>
  /\ hist'.renders = hist.renders /\ hist'.caught = hist.caught
  /\ ctx' = ctx \/ (ctx = "error" /\ ctx' = "failover" /\ pc' = "handle")
  /\ pc' \in Hooks \cup {"route"} => pc \in Hooks \cup {"route"} \/ ctx = "loop"

\* A callback of the loop failed: the exception handler starts, ...
Rescues ==
  /\ Busy /\ pc' = "handle" /\ ctx' = "error" /\ UNCHANGED <<body, out, result, options>>
  /\ hist'.renders = hist.renders /\ hist'.caught /= None

\* ... or dispatch returns NULL.
GivesUp ==
  /\ Busy /\ ctx = "loop" /\ ctx' = ctx
  /\ pc' = "idle" /\ result' = "null" /\ body' = <<>> /\ out' = out
  /\ hist'.renders = hist.renders /\ hist'.caught = hist.caught

\* The loop is over, or the error controller.
Answers ==
  /\ Busy /\ pc' = "idle" /\ ctx' = ctx
  /\ hist'.renders = hist.renders /\ hist'.caught = hist.caught
  /\ UNCHANGED <<body, out>> \/ SendResponse \/ ResponseRefused

\* Nothing happens to the response.
Rests ==
  /\ UNCHANGED <<body, out, hist, ctx>>
  /\ pc' = pc \/ pc' = "dead"
  /\ result' = result \/ result' = "none"

\* What Leave does, wherever it is called from.
LEMMA LeaveShape ==
  ASSUME TypeOK, CaughtInv, NEW e \in Exceptions \cup {None}, NEW req, NEW h \in History,
         Leave(e, req, h), Busy, ctx = "loop",
         h.renders = hist.renders, h.caught = hist.caught, UNCHANGED <<out, options>>
  PROVE  Rescues \/ GivesUp
  <1>1. CASE EntersHandler(e)
    <2>1. hist' = [h EXCEPT !.caught = e, !.handlers = @ + 1] /\ e /= None
      BY <1>1 DEF Leave, EntersHandler
    <2>2. hist'.renders = hist.renders /\ hist'.caught /= None
      BY <2>1 DEF History
    <2> QED BY <1>1, <2>2 DEF Leave, Rescues
  <1>2. CASE ~EntersHandler(e)
    BY <1>2 DEF Leave, GivesUp
  <1> QED BY <1>1, <1>2

LEMMA StartShape ==
  ASSUME NEW req, NEW n, StartDispatch(req, n)
  PROVE  Begins
  BY DEF StartDispatch, EnterHook, Begins, NewHistory

\* The steps that change the history, but neither its count of renderings nor
\* what was caught.
LEMMA HistoryKeeps ==
  ASSUME TypeOK,
         RouteMatches \/ LoopStartupDone \/ HandleFails \/ HandleLoads \/ InitReturns
           \/ ActionNotFound \/ RenderReturnsFalse \/ RenderThrows \/ PostDispatchDone \/ Forward
  PROVE  hist'.renders = hist.renders /\ hist'.caught = hist.caught
  <1>0. hist \in History
    BY DEF TypeOK
  <1>1. CASE RouteMatches
    BY <1>0, <1>1 DEF RouteMatches, History
  <1>2. CASE LoopStartupDone
    BY <1>0, <1>2 DEF LoopStartupDone, History
  <1>3. CASE HandleFails
    BY <1>0, <1>3 DEF HandleFails, History
  <1>4. CASE HandleLoads
    BY <1>0, <1>4 DEF HandleLoads, History
  <1>5. CASE InitReturns
    BY <1>0, <1>5 DEF InitReturns, History
  <1>6. CASE ActionNotFound
    BY <1>0, <1>6 DEF ActionNotFound, History
  <1>7. CASE RenderReturnsFalse
    BY <1>0, <1>7 DEF RenderReturnsFalse, History
  <1>8. CASE RenderThrows
    BY <1>0, <1>8 DEF RenderThrows, History
  <1>9. CASE PostDispatchDone
    BY <1>0, <1>9 DEF PostDispatchDone, History
  <1>10. CASE Forward
    BY <1>0, <1>10 DEF Forward, History
  <1> QED BY <1>1, <1>2, <1>3, <1>4, <1>5, <1>6, <1>7, <1>8, <1>9, <1>10

LEMMA StepShapes ==
  ASSUME TypeOK, CaughtInv, Step
  PROVE  Goes \/ Rescues \/ GivesUp \/ Answers \/ RenderReturns
  <1>1. CASE PluginReturns \/ PluginThrows \/ RouterStartupDone \/ RouteMatches \/ RouteUnmatched
             \/ RouteThrows \/ RouterShutdownDone \/ LoopStartupDone \/ PreDispatchDone
             \/ RoundDone \/ PostDispatchDone
    BY <1>1, HistoryKeeps
       DEF PluginReturns, PluginThrows, RouterStartupDone, RouteMatches, RouteUnmatched,
           RouteThrows, RouterShutdownDone, LoopStartupDone, PreDispatchDone, RoundDone,
           PostDispatchDone, HookDone, EnterHook, Goes, Busy, Hooks
  <1>2. CASE HandleFails \/ HandleLoads \/ InitForwarded \/ InitThrows \/ InitReturns
             \/ ActionNotFound \/ ActionThrows \/ ActionReturns \/ ActionAutoRenders
             \/ RenderReturnsFalse \/ RenderThrows \/ ErrorFailover
    BY <1>2, HistoryKeeps
       DEF HandleFails, HandleLoads, InitForwarded, InitThrows, InitReturns, ActionNotFound,
           ActionThrows, ActionReturns, ActionAutoRenders, RenderReturnsFalse, RenderThrows,
           ErrorFailover, FailsOver, SetUpAction, HandleReturns, Goes, Busy, Hooks
  <1>3. CASE HookThrew
    <2>1. Busy /\ ctx = "loop" /\ Leave(exc, request, hist) /\ UNCHANGED <<out, options>>
      BY <1>3 DEF HookThrew, CaughtInv, Busy, Hooks
    <2> QED BY <2>1, LeaveShape DEF TypeOK
  <1>4. CASE RoundFailed
    <2>1. Busy /\ ctx = "loop" /\ Leave(exc, request, hist) /\ UNCHANGED <<out, options>>
      BY <1>4 DEF RoundFailed, Busy
    <2> QED BY <2>1, LeaveShape DEF TypeOK
  <1>5. CASE NestingExhausted
    <2> DEFINE h == [hist EXCEPT !.excused = @ \/ ~options.throwException]
    <2>0. "DispatchFailed" \in YafExceptions /\ hist \in History
          /\ options \in [OptionNames -> BOOLEAN]
      BY DEF YafExceptions, TypeOK
    <2>1. PICK e \in TriggerError("DispatchFailed") : Leave(e, request, h)
      BY <1>5 DEF NestingExhausted
    <2>2. Busy /\ ctx = "loop" /\ UNCHANGED <<out, options>>
      BY <1>5 DEF NestingExhausted, HookDone, CaughtInv, Busy, Hooks
    <2>3. e \in Exceptions \cup {None}
      BY <2>0, TriggerErrorType
    <2>4. h \in History /\ h.renders = hist.renders /\ h.caught = hist.caught
      BY <2>0 DEF History
    <2> HIDE DEF h
    <2> QED BY <2>1, <2>2, <2>3, <2>4, LeaveShape
  <1>6. CASE DispatchDone \/ ErrorSent
    BY <1>6 DEF DispatchDone, ErrorSent, HookDone, Answers, Busy
  <1> QED BY <1>1, <1>2, <1>3, <1>4, <1>5, <1>6 DEF Step

LEMMA Shapes ==
  ASSUME TypeOK, CaughtInv, [Next]_vars
  PROVE  Begins \/ Goes \/ Rescues \/ GivesUp \/ Answers \/ RenderReturns \/ Rests
  <1>1. CASE Dispatch \/ DispatchNew
    BY <1>1, StartShape DEF Dispatch, DispatchNew
  <1>2. CASE NextHttpRequest
    BY <1>2 DEF NextHttpRequest, Begins, NewHistory
  <1>3. CASE Step
    BY <1>3, StepShapes
  <1>4. CASE Forward \/ SetRequest
    <2>1. Busy /\ pc' = pc
      BY <1>4 DEF Forward, SetRequest, UserCodeRuns, PluginRuns, Busy, Hooks
    <2> QED BY <1>4, <2>1, HistoryKeeps DEF Forward, SetRequest, Goes, Busy
  <1>5. CASE SetOption \/ CallerCatches \/ Bailout \/ UNCHANGED vars
    BY <1>5 DEF SetOption, CallerCatches, Bailout, vars, Rests
  <1> QED BY <1>1, <1>2, <1>3, <1>4, <1>5 DEF Next, UserCode

LEMMA CaughtStep ==
  ASSUME TypeOK, CaughtInv, [Next]_vars
  PROVE  CaughtInv'
  <1>1. CASE RenderReturns
    <2>1. pc' = "handled" /\ pc \in {"render", "display"} /\ ctx' = ctx
      BY <1>1 DEF RenderReturns, HandleReturns
    <2>2. hist'.caught = hist.caught
      BY <1>1 DEF RenderReturns, TypeOK, History
    <2> QED BY <2>1, <2>2 DEF CaughtInv, Busy, Hooks
  <1>2. CASE Rests
    BY <1>2 DEF Rests, CaughtInv, Busy, Hooks
  <1>3. CASE Goes
    BY <1>3 DEF Goes, CaughtInv, Hooks
  <1>4. CASE Begins \/ Rescues \/ GivesUp \/ Answers
    BY <1>4 DEF Begins, Rescues, GivesUp, Answers, CaughtInv, Busy, Hooks
  <1> QED BY <1>1, <1>2, <1>3, <1>4, Shapes

-----------------------------------------------------------------------------
(* Sequences of renderings *)

LEMMA Appended ==
  ASSUME NEW s \in Seq(Rendering), NEW x \in Rendering, NEW t, t = Append(s, x)
  PROVE  /\ Len(t) = Len(s) + 1 /\ Len(s) \in Nat
         /\ \A i \in DOMAIN t : (i \in DOMAIN s /\ i <= Len(s) /\ t[i] = s[i])
                                  \/ (i = Len(s) + 1 /\ i \notin DOMAIN s /\ t[i] = x)
  <1>1. DOMAIN s = 1 .. Len(s) /\ Len(s) \in Nat
    BY LenProperties
  <1>2. /\ t \in Seq(Rendering) /\ Len(t) = Len(s) + 1 /\ t[Len(s) + 1] = x
        /\ \A i \in 1 .. Len(s) : t[i] = s[i]
    BY AppendProperties
  <1>3. DOMAIN t = 1 .. Len(s) + 1
    BY <1>2, LenProperties
  <1> QED BY <1>1, <1>2, <1>3

LEMMA Joined ==
  ASSUME NEW s \in Seq(Rendering), NEW b \in Seq(Rendering), NEW t, t = s \o b
  PROVE  /\ Len(t) = Len(s) + Len(b) /\ Len(s) \in Nat /\ Len(b) \in Nat
         /\ DOMAIN t = 1 .. Len(t)
         /\ \A i \in DOMAIN t :
              \/ i \in DOMAIN s /\ i <= Len(s) /\ t[i] = s[i]
              \/ i - Len(s) \in DOMAIN b /\ i > Len(s) /\ t[i] = b[i - Len(s)]
  <1>1. /\ DOMAIN s = 1 .. Len(s) /\ Len(s) \in Nat
        /\ DOMAIN b = 1 .. Len(b) /\ Len(b) \in Nat
    BY LenProperties
  <1>2. /\ t \in Seq(Rendering) /\ Len(t) = Len(s) + Len(b)
        /\ \A i \in 1 .. Len(s) + Len(b) : t[i] = IF i <= Len(s) THEN s[i] ELSE b[i - Len(s)]
    BY ConcatProperties
  <1>3. DOMAIN t = 1 .. Len(s) + Len(b)
    BY <1>2, LenProperties
  <1> QED BY <1>1, <1>2, <1>3

\* The numbers of the renderings are numbers.
LEMMA IdTypes ==
  ASSUME TypeOK
  PROVE  /\ out \in Seq(Rendering) /\ body \in Seq(Rendering) /\ hist.renders \in Nat
         /\ \A i \in DOMAIN out : out[i].id \in Nat /\ i \in Nat
         /\ \A i \in DOMAIN body : body[i].id \in Nat /\ i \in Nat
  <1>1. out \in Seq(Rendering) /\ body \in Seq(Rendering) /\ hist \in History
    BY DEF TypeOK
  <1>2. /\ \A i \in DOMAIN out : out[i] \in Rendering /\ i \in Nat
        /\ \A i \in DOMAIN body : body[i] \in Rendering /\ i \in Nat
    BY <1>1, LenProperties, ElementOfSeq
  <1> QED BY <1>1, <1>2 DEF Rendering, History

LEMMA NewRenderingType ==
  ASSUME TypeOK
  PROVE  NewRendering \in Rendering
  <1>1. hist \in History /\ frame \in Frame /\ viewDir \in ViewDir
    BY DEF TypeOK
  <1>2. hist.renders + 1 \in Nat /\ hist.invoked \in Invocation
    BY <1>1 DEF History
  <1>3. frame.controller \in NameOrNone /\ frame.action \in NameOrNone
    BY <1>1 DEF Frame
  <1> QED BY <1>1, <1>2, <1>3 DEF NewRendering, Rendering

\* What a rendering adds.
LEMMA RenderShape ==
  ASSUME TypeOK, RenderReturns
  PROVE  /\ \/ pc = "display" /\ out' = Append(out, NewRendering) /\ body' = body
            \/ pc = "render" /\ body' = Append(body, NewRendering) /\ out' = out
         /\ hist'.renders = hist.renders + 1 /\ hist'.caught = hist.caught
         /\ NewRendering.id = hist.renders + 1
         /\ pc \in {"render", "display"} /\ pc' = "handled" /\ UNCHANGED <<ctx, result, options>>
  <1>1. hist'.renders = hist.renders + 1 /\ hist'.caught = hist.caught
    BY DEF RenderReturns, TypeOK, History
  <1> QED BY <1>1 DEF RenderReturns, AppendBody, HandleReturns, NewRendering

-----------------------------------------------------------------------------
(* Every rendering once *)

LEMMA IdsStep ==
  ASSUME TypeOK, CaughtInv, IdsInv, [Next]_vars
  PROVE  IdsInv'
  <1>0. /\ out \in Seq(Rendering) /\ body \in Seq(Rendering) /\ hist.renders \in Nat
        /\ \A i \in DOMAIN out : out[i].id \in Nat
        /\ \A i \in DOMAIN body : body[i].id \in Nat
    BY IdTypes
  <1>1. CASE UNCHANGED <<body, out>> /\ hist'.renders = hist.renders
    BY <1>1 DEF IdsInv
  <1>2. CASE body' = <<>> /\ out' = out /\ hist'.renders = hist.renders
    BY <1>2 DEF IdsInv
  <1>3. CASE SendResponse /\ hist'.renders = hist.renders
    <2>1. out' = out \o body /\ body' = <<>>
      BY <1>3 DEF SendResponse
    <2>2. /\ Len(out) \in Nat
          /\ \A i \in DOMAIN out' :
              \/ i \in DOMAIN out /\ out'[i] = out[i]
              \/ i - Len(out) \in DOMAIN body /\ out'[i] = body[i - Len(out)] /\ i > Len(out)
          /\ DOMAIN out' = 1 .. Len(out')
      BY <1>0, <2>1, Joined
    <2>3. \A i, j \in DOMAIN out' : out'[i].id = out'[j].id => i = j
      BY <2>2 DEF IdsInv
    <2>4. \A i \in DOMAIN out' : out'[i].id <= hist'.renders
      BY <1>3, <2>2 DEF IdsInv
    <2> QED BY <2>1, <2>3, <2>4 DEF IdsInv
  <1>4. CASE Begins
    BY <1>4 DEF Begins, IdsInv
  <1>5. CASE RenderReturns
    <2>1. /\ hist'.renders = hist.renders + 1 /\ NewRendering.id = hist.renders + 1
          /\ \/ out' = Append(out, NewRendering) /\ body' = body
             \/ body' = Append(body, NewRendering) /\ out' = out
      BY <1>5, RenderShape
    <2> HIDE DEF NewRendering
    <2>2. CASE out' = Append(out, NewRendering) /\ body' = body
      <3>1. \A i \in DOMAIN out' : (i \in DOMAIN out /\ out'[i] = out[i])
                                     \/ (i = Len(out) + 1 /\ out'[i] = NewRendering)
        BY <1>0, <2>2, NewRenderingType, Appended
      <3> QED BY <1>0, <2>1, <2>2, <3>1 DEF IdsInv
    <2>3. CASE body' = Append(body, NewRendering) /\ out' = out
      <3>1. \A i \in DOMAIN body' : (i \in DOMAIN body /\ body'[i] = body[i])
                                      \/ (i = Len(body) + 1 /\ body'[i] = NewRendering)
        BY <1>0, <2>3, NewRenderingType, Appended
      <3> QED BY <1>0, <2>1, <2>3, <3>1 DEF IdsInv
    <2> QED BY <2>1, <2>2, <2>3
  <1>6. CASE Goes \/ Rescues \/ GivesUp \/ Answers \/ Rests
    BY <1>1, <1>2, <1>3, <1>6 DEF Goes, Rescues, GivesUp, Answers, Rests, ResponseRefused
  <1> QED BY <1>4, <1>5, <1>6, Shapes

LEMMA CountStep ==
  ASSUME TypeOK, CaughtInv, CountInv, ~HeaderRefused, [Next]_vars
  PROVE  CountInv'
  <1>0. out \in Seq(Rendering) /\ body \in Seq(Rendering) /\ hist.renders \in Nat
    BY IdTypes
  <1>1. CASE Begins
    BY <1>1 DEF Begins, CountInv
  <1>2. CASE Goes \/ Rescues
    BY <1>2 DEF Goes, Rescues, CountInv
  <1>3. CASE GivesUp
    <2>1. hist'.caught = None
      BY <1>3 DEF GivesUp, CaughtInv
    <2> QED BY <1>3, <2>1 DEF GivesUp, CountInv, Busy, Answered
  <1>4. CASE Answers
    <2>1. Len(out) + Len(body) = hist.renders /\ hist'.renders = hist.renders
      BY <1>4 DEF Answers, CountInv
    <2>2. Len(out') + Len(body') = Len(out) + Len(body)
      <3>1. CASE SendResponse
        <4>1. out' = out \o body /\ body' = <<>>
          BY <3>1 DEF SendResponse
        <4>2. Len(out') = Len(out) + Len(body) /\ Len(out) + Len(body) \in Nat
          BY <1>0, <4>1, Joined
        <4> QED BY <4>1, <4>2
      <3>2. CASE UNCHANGED <<body, out>>
        BY <3>2
      <3> QED BY <1>4, <3>1, <3>2 DEF Answers, ResponseRefused
    <2> QED BY <2>1, <2>2 DEF CountInv
  <1>5. CASE RenderReturns
    <2>1. /\ hist'.renders = hist.renders + 1 /\ Busy
          /\ \/ out' = Append(out, NewRendering) /\ body' = body
             \/ body' = Append(body, NewRendering) /\ out' = out
      BY <1>5, RenderShape DEF Busy
    <2>2. Len(out') + Len(body') = Len(out) + Len(body) + 1
      <3>1. Len(out) \in Nat /\ Len(body) \in Nat
        BY <1>0, LenProperties
      <3>2. Len(Append(out, NewRendering)) = Len(out) + 1
            /\ Len(Append(body, NewRendering)) = Len(body) + 1
        BY <1>0, NewRenderingType, Appended
      <3> QED BY <2>1, <3>1, <3>2
    <2> QED BY <2>1, <2>2 DEF CountInv
  <1>6. CASE Rests
    <2>1. Busy' \/ Answered' => Busy \/ Answered
      BY <1>6 DEF Rests, Busy, Answered
    <2> QED BY <1>6, <2>1 DEF Rests, CountInv
  <1> QED BY <1>1, <1>2, <1>3, <1>4, <1>5, <1>6, Shapes

LEMMA OnceFromParts ==
  ASSUME TypeOK, IdsInv, CountInv
  PROVE  RenderedOutputOnce
  <1> DEFINE sent == out \o body
  <1>0. out \in Seq(Rendering) /\ body \in Seq(Rendering)
    BY IdTypes
  <1>1. /\ Len(sent) = Len(out) + Len(body) /\ Len(out) \in Nat /\ DOMAIN sent = 1 .. Len(sent)
        /\ \A i \in DOMAIN sent :
              \/ i \in DOMAIN out /\ i <= Len(out) /\ sent[i] = out[i]
              \/ i - Len(out) \in DOMAIN body /\ i > Len(out) /\ sent[i] = body[i - Len(out)]
    BY <1>0, Joined
  <1> HIDE DEF sent
  <1>2. \A i, j \in 1 .. Len(sent) : sent[i].id = sent[j].id => i = j
    BY <1>1 DEF IdsInv
  <1>3. Answered => Len(sent) = hist.renders
    BY <1>1 DEF CountInv
  <1> QED BY <1>2, <1>3 DEF RenderedOutputOnce, Answered, sent

\* A page that was rendered reaches the caller exactly once, for every number of
\* rounds, plugins and modules and whatever switches PHP code flips on the way, as
\* long as the SAPI takes the headers: Yaf_Response_Http::response() gives up when
\* it does not, and dispatch clears the body all the same.
THEOREM RenderedOnce ==
  ASSUME ~HeaderRefused
  PROVE  Spec => []RenderedOutputOnce
  <1>1. Init => CaughtInv /\ IdsInv /\ CountInv
    BY DEF Init, CaughtInv, IdsInv, CountInv, Busy, Answered, NewHistory, Hooks
  <1>2. TypeOK /\ CaughtInv /\ IdsInv /\ CountInv /\ [Next]_vars => (CaughtInv /\ IdsInv /\ CountInv)'
    BY CaughtStep, IdsStep, CountStep
  <1>3. TypeOK /\ IdsInv /\ CountInv => RenderedOutputOnce
    BY OnceFromParts
  <1> QED BY <1>1, <1>2, <1>3, TypeCorrect, PTL DEF Spec

\* Whatever the SAPI does with the headers, no rendering is sent twice, and none
\* that is still in the body has been sent.
THEOREM NeverTwice == Spec => []IdsInv
  <1>1. Init => CaughtInv /\ IdsInv
    BY DEF Init, CaughtInv, IdsInv, Busy, NewHistory, Hooks
  <1>2. TypeOK /\ CaughtInv /\ IdsInv /\ [Next]_vars => (CaughtInv /\ IdsInv)'
    BY CaughtStep, IdsStep
  <1> QED BY <1>1, <1>2, TypeCorrect, PTL DEF Spec

-----------------------------------------------------------------------------
(* In the order of the rounds *)

\* While a controller runs, only the return of init() touches what the template
\* is found by.
LEMMA ControllerKeeps ==
  ASSUME TypeOK, [Next]_vars, pc' \in {"init", "action", "render", "display"},
         ~HandleLoads, ~InitReturns
  PROVE  /\ pc = pc' \/ ActionAutoRenders
         /\ UNCHANGED <<frame, viewDir>> /\ hist'.invoked = hist.invoked
  <1>1. CASE Forward
    <2>1. hist'.invoked = hist.invoked
      BY <1>1 DEF Forward, TypeOK, History
    <2> QED BY <1>1, <2>1 DEF Forward
  <1>2. CASE SetRequest \/ SetOption \/ UNCHANGED vars \/ ActionAutoRenders
    BY <1>2 DEF SetRequest, SetOption, vars, ActionAutoRenders
  <1>3. CASE Dispatch \/ DispatchNew \/ CallerCatches \/ Bailout \/ NextHttpRequest
    BY <1>3 DEF Dispatch, DispatchNew, StartDispatch, EnterHook, CallerCatches, Bailout,
                NextHttpRequest
  <1>4. CASE Step /\ ~ActionAutoRenders
    BY <1>4 DEF Step, PluginReturns, PluginThrows, HookThrew, RouterStartupDone, RouteMatches,
         RouteUnmatched, RouteThrows, RouterShutdownDone, LoopStartupDone, PreDispatchDone,
         HandleFails, InitForwarded, InitThrows, ActionNotFound, ActionThrows, ActionReturns,
         RenderReturns, RenderReturnsFalse, RenderThrows, RoundDone, RoundFailed,
         PostDispatchDone, NestingExhausted, DispatchDone, ErrorFailover, ErrorSent, Leave,
         HandleReturns, EnterHook, Hooks
  <1> QED BY <1>1, <1>2, <1>3, <1>4 DEF Next, UserCode

\* The choice between render() and display(), which the action's return made.
LEMMA DisplayStep ==
  ASSUME TypeOK, FlushInv, FlushLeftAlone, [Next]_vars, pc' \in {"render", "display"}
  PROVE  (pc' = "display") = options'.flushInstantly
  <1>1. ~HandleLoads /\ ~InitReturns
    BY DEF HandleLoads, InitReturns
  <1>2. pc = pc' \/ ActionAutoRenders
    BY <1>1, ControllerKeeps
  <1>3. CASE pc = pc'
    <2>1. options'.flushInstantly = options.flushInstantly
      BY <1>3 DEF FlushLeftAlone, Busy
    <2>2. options.flushInstantly \in BOOLEAN
      BY DEF TypeOK, OptionNames, Switches
    <2> QED BY <1>3, <2>1, <2>2 DEF FlushInv
  <1>4. CASE ActionAutoRenders
    <2>1. options.flushInstantly \in BOOLEAN
      BY DEF TypeOK, OptionNames, Switches
    <2> QED BY <1>4, <2>1 DEF ActionAutoRenders
  <1> QED BY <1>2, <1>3, <1>4

LEMMA FlushStep ==
  ASSUME TypeOK, CaughtInv, FlushInv, FlushLeftAlone, [Next]_vars
  PROVE  FlushInv'
  <1> DEFINE Sorted == Busy => IF options.flushInstantly THEN body = <<>> ELSE out = <<>>
  <1>1. ASSUME Begins
        PROVE  Sorted'
    BY <1>1 DEF Begins, FlushInv
  <1>2. ASSUME Goes \/ Rescues
        PROVE  Sorted'
    BY <1>2 DEF Goes, Rescues, FlushInv
  <1>3. ASSUME GivesUp \/ Answers
        PROVE  Sorted'
    BY <1>3 DEF GivesUp, Answers, FlushInv, Busy
  <1>4. ASSUME RenderReturns
        PROVE  Sorted'
    BY <1>4, RenderShape DEF FlushInv, Busy
  <1>5. ASSUME Rests
        PROVE  Sorted'
    BY <1>5 DEF Rests, FlushInv, FlushLeftAlone, Busy
  <1>6. Sorted'
    BY <1>1, <1>2, <1>3, <1>4, <1>5, Shapes
  <1>7. (pc' = "display" => options'.flushInstantly) /\ (pc' = "render" => ~options'.flushInstantly)
    BY DisplayStep
  <1> QED BY <1>6, <1>7 DEF FlushInv

LEMMA OrderStep ==
  ASSUME TypeOK, CaughtInv, IdsInv, FlushInv, OrderInv, [Next]_vars
  PROVE  OrderInv'
  <1>0. /\ out \in Seq(Rendering) /\ body \in Seq(Rendering) /\ hist.renders \in Nat
        /\ \A i \in DOMAIN out : out[i].id \in Nat /\ i \in Nat
        /\ \A i \in DOMAIN body : body[i].id \in Nat /\ i \in Nat
    BY IdTypes
  <1>1. CASE UNCHANGED <<body, out>>
    BY <1>1 DEF OrderInv
  <1>2. CASE body' = <<>> /\ (out' = out \/ out' = <<>>)
    BY <1>2 DEF OrderInv
  <1>3. CASE SendResponse
    <2>1. out' = out \o body /\ body' = <<>>
      BY <1>3 DEF SendResponse
    <2>2. /\ Len(out) \in Nat /\ DOMAIN out' = 1 .. Len(out')
          /\ \A i \in DOMAIN out' :
              \/ i \in DOMAIN out /\ i <= Len(out) /\ out'[i] = out[i]
              \/ i - Len(out) \in DOMAIN body /\ i > Len(out) /\ out'[i] = body[i - Len(out)]
      BY <1>0, <2>1, Joined
    <2>3. \A i, j \in DOMAIN out' : i < j => out'[i].id < out'[j].id
      BY <2>2 DEF OrderInv
    <2> QED BY <2>1, <2>3 DEF OrderInv
  <1>4. CASE RenderReturns
    <2>1. /\ NewRendering.id = hist.renders + 1 /\ Busy
          /\ \/ out' = Append(out, NewRendering) /\ body' = <<>>
             \/ body' = Append(body, NewRendering) /\ out' = <<>>
      BY <1>4, RenderShape DEF FlushInv, Busy
    <2> HIDE DEF NewRendering
    <2>2. CASE out' = Append(out, NewRendering) /\ body' = <<>>
      <3>1. /\ Len(out) \in Nat
            /\ \A i \in DOMAIN out' : (i \in DOMAIN out /\ i <= Len(out) /\ out'[i] = out[i])
                                        \/ (i = Len(out) + 1 /\ out'[i] = NewRendering)
        BY <1>0, <2>2, NewRenderingType, Appended
      <3> QED BY <1>0, <2>1, <2>2, <3>1 DEF OrderInv, IdsInv
    <2>3. CASE body' = Append(body, NewRendering) /\ out' = <<>>
      <3>1. /\ Len(body) \in Nat
            /\ \A i \in DOMAIN body' : (i \in DOMAIN body /\ i <= Len(body) /\ body'[i] = body[i])
                                        \/ (i = Len(body) + 1 /\ body'[i] = NewRendering)
        BY <1>0, <2>3, NewRenderingType, Appended
      <3> QED BY <1>0, <2>1, <2>3, <3>1 DEF OrderInv, IdsInv
    <2> QED BY <2>1, <2>2, <2>3
  <1>5. CASE Begins \/ Goes \/ Rescues \/ GivesUp \/ Answers \/ Rests
    BY <1>1, <1>2, <1>3, <1>5 DEF Begins, Goes, Rescues, GivesUp, Answers, Rests, ResponseRefused
  <1> QED BY <1>4, <1>5, Shapes

LEMMA OrderFromParts ==
  ASSUME TypeOK, OrderInv
  PROVE  OutputInDispatchOrder
  <1> DEFINE all == out \o body
  <1>0. out \in Seq(Rendering) /\ body \in Seq(Rendering)
    BY IdTypes
  <1>1. /\ Len(out) \in Nat /\ DOMAIN all = 1 .. Len(all)
        /\ \A i \in DOMAIN all :
              \/ i \in DOMAIN out /\ i <= Len(out) /\ all[i] = out[i]
              \/ i - Len(out) \in DOMAIN body /\ i > Len(out) /\ all[i] = body[i - Len(out)]
    BY <1>0, Joined
  <1> HIDE DEF all
  <1>2. \A i, j \in 1 .. Len(all) : i < j => all[i].id < all[j].id
    BY <1>1 DEF OrderInv
  <1> QED BY <1>2 DEF OutputInDispatchOrder, all

\* If PHP code leaves flushInstantly alone while a dispatch runs, the renderings
\* reach the client, or are in the response, in the order in which the rounds made
\* them, the error page last: flushed at once, sent at the end, or dropped.
THEOREM OrderedOutput == Spec /\ [][FlushLeftAlone]_vars => []OutputInDispatchOrder
  <1>1. Init => FlushInv /\ OrderInv
    BY DEF Init, FlushInv, OrderInv, Busy
  <1>2. TypeOK /\ CaughtInv /\ IdsInv /\ FlushInv /\ OrderInv /\ [Next]_vars /\ [FlushLeftAlone]_vars
          => (FlushInv /\ OrderInv)'
    <2>1. [FlushLeftAlone]_vars => FlushLeftAlone
      BY DEF FlushLeftAlone, vars
    <2> QED BY <2>1, FlushStep, OrderStep
  <1>3. TypeOK /\ OrderInv => OutputInDispatchOrder
    BY OrderFromParts
  <1>4. Init => CaughtInv
    BY DEF Init, CaughtInv, Busy, Hooks
  <1>5. TypeOK /\ CaughtInv /\ [Next]_vars => CaughtInv'
    BY CaughtStep
  <1> QED BY <1>1, <1>2, <1>3, <1>4, <1>5, TypeCorrect, NeverTwice, PTL DEF Spec

-----------------------------------------------------------------------------
(* From the template of the action *)

\* The action that is entered, its names and its module's views.
LEMMA EnteredTemplate ==
  ASSUME TypeOK, TemplateInv, InitReturns
  PROVE  OwnTemplate(NewRendering)'
  <1>1. /\ pc = "init" /\ frame \in Frame /\ hist \in History
        /\ viewDir' = ViewDirOf(frame.isDefModule, request.module)
        /\ frame' = [frame EXCEPT !.controller = request.controller, !.action = request.action]
        /\ hist' = [hist EXCEPT !.invoked = InvokedNames]
    BY DEF InitReturns, SetUpAction, TypeOK
  <1>2. /\ frame'.controller = request.controller /\ frame'.action = request.action
        /\ frame.isDefModule = (frame.module = DefaultModule)
    BY <1>1 DEF Frame, TemplateInv
  <1>3. hist'.invoked = InvokedNames
    BY <1>1 DEF History
  <1>4. /\ NewRendering'.controller = request.controller /\ NewRendering'.action = request.action
        /\ NewRendering'.dir = ViewDirOf(frame.isDefModule, request.module)
        /\ NewRendering'.of = InvokedNames
    BY <1>1, <1>2, <1>3 DEF NewRendering
  <1>5. /\ InvokedNames.controller = request.controller /\ InvokedNames.action = request.action
        /\ InvokedNames.loaded = frame.module /\ InvokedNames.module = request.module
    BY DEF InvokedNames
  <1> QED BY <1>2, <1>4, <1>5 DEF OwnTemplate

LEMMA TemplateStep ==
  ASSUME TypeOK, CaughtInv, TemplateInv, [Next]_vars
  PROVE  TemplateInv'
  <1>0. out \in Seq(Rendering) /\ body \in Seq(Rendering) /\ NewRendering \in Rendering
    BY IdTypes, NewRenderingType
  <1>1. pc' = "init" => frame'.isDefModule = (frame'.module = DefaultModule)
    <2>1. CASE HandleLoads
      BY <2>1 DEF HandleLoads
    <2>2. CASE pc' = "init" /\ ~HandleLoads
      <3>1. ~InitReturns
        BY <2>2 DEF InitReturns
      <3>2. pc = "init" /\ frame' = frame
        <4>1. (pc = pc' \/ ActionAutoRenders) /\ frame' = frame
          BY <2>2, <3>1, ControllerKeeps
        <4>2. ActionAutoRenders => pc' /= "init"
          BY DEF ActionAutoRenders
        <4> QED BY <2>2, <4>1, <4>2
      <3> QED BY <3>2 DEF TemplateInv
    <2> QED BY <2>1, <2>2
  <1>2. ASSUME pc' \in {"action", "render", "display"}
        PROVE  OwnTemplate(NewRendering)'
    <2>1. CASE InitReturns
      BY <2>1, EnteredTemplate
    <2>2. CASE ~InitReturns
      <3>1. ~HandleLoads
        BY <1>2 DEF HandleLoads
      <3>2. pc \in {"action", "render", "display"} /\ UNCHANGED <<frame, viewDir>> /\ hist'.invoked = hist.invoked
        BY <1>2, <2>2, <3>1, ControllerKeeps DEF ActionAutoRenders
      <3>3. OwnTemplate(NewRendering)
        BY <3>2 DEF TemplateInv
      <3> QED BY <3>2, <3>3 DEF OwnTemplate, NewRendering
    <2> QED BY <2>1, <2>2
  <1>3. CASE RenderReturns
    <2>1. /\ OwnTemplate(NewRendering)
          /\ \/ out' = Append(out, NewRendering) /\ body' = body
             \/ body' = Append(body, NewRendering) /\ out' = out
      BY <1>3, RenderShape DEF TemplateInv
    <2>2. CASE out' = Append(out, NewRendering) /\ body' = body
      <3>1. \A i \in DOMAIN out' : (i \in DOMAIN out /\ out'[i] = out[i]) \/ out'[i] = NewRendering
        BY <1>0, <2>2, Appended
      <3> QED BY <1>1, <1>2, <2>1, <2>2, <3>1 DEF TemplateInv
    <2>3. CASE body' = Append(body, NewRendering) /\ out' = out
      <3>1. \A i \in DOMAIN body' : (i \in DOMAIN body /\ body'[i] = body[i]) \/ body'[i] = NewRendering
        BY <1>0, <2>3, Appended
      <3> QED BY <1>1, <1>2, <2>1, <2>3, <3>1 DEF TemplateInv
    <2> QED BY <2>1, <2>2, <2>3
  <1>4. CASE SendResponse
    <2>1. out' = out \o body /\ body' = <<>>
      BY <1>4 DEF SendResponse
    <2>2. \A i \in DOMAIN out' : \/ i \in DOMAIN out /\ out'[i] = out[i]
                                 \/ i - Len(out) \in DOMAIN body /\ out'[i] = body[i - Len(out)]
      BY <1>0, <2>1, Joined
    <2> QED BY <1>1, <1>2, <2>1, <2>2 DEF TemplateInv
  <1>5. CASE (body' = body \/ body' = <<>>) /\ (out' = out \/ out' = <<>>)
    BY <1>1, <1>2, <1>5 DEF TemplateInv
  <1>6. CASE Begins \/ Goes \/ Rescues \/ GivesUp \/ Answers \/ Rests
    BY <1>4, <1>5, <1>6 DEF Begins, Goes, Rescues, GivesUp, Answers, Rests, ResponseRefused
  <1> QED BY <1>3, <1>6, Shapes

LEMMA TemplateFromParts ==
  ASSUME TypeOK, TemplateInv
  PROVE  TemplateOfInvokedAction
  <1> DEFINE all == out \o body
  <1>0. out \in Seq(Rendering) /\ body \in Seq(Rendering)
    BY IdTypes
  <1>1. /\ DOMAIN all = 1 .. Len(all)
        /\ \A i \in DOMAIN all : \/ i \in DOMAIN out /\ all[i] = out[i]
                                 \/ i - Len(out) \in DOMAIN body /\ all[i] = body[i - Len(out)]
    BY <1>0, Joined
  <1> HIDE DEF all
  <1>2. \A i \in 1 .. Len(all) : OwnTemplate(all[i])
    BY <1>1 DEF TemplateInv
  <1> QED BY <1>2 DEF TemplateOfInvokedAction, OwnTemplate, all

\* For every application: a page is made from the template of the action that ran,
\* whatever forward() and the setters of the request, called by plugins, by the
\* action or by the template itself, have made of the request's names since, and
\* from the views of the module unless init() renamed the module.
THEOREM OwnTemplates == Spec => []TemplateOfInvokedAction
  <1>1. Init => CaughtInv /\ TemplateInv
    BY DEF Init, CaughtInv, TemplateInv, Busy, Hooks
  <1>2. TypeOK /\ CaughtInv /\ TemplateInv /\ [Next]_vars => (CaughtInv /\ TemplateInv)'
    BY CaughtStep, TemplateStep
  <1>3. TypeOK /\ TemplateInv => TemplateOfInvokedAction
    BY TemplateFromParts
  <1> QED BY <1>1, <1>2, <1>3, TypeCorrect, PTL DEF Spec

-----------------------------------------------------------------------------
(* The fail-over *)

\* The only way for yaf_dispatcher_handle to report a missing controller.
LEMMA MissingController ==
  ASSUME TypeOK, HandleFailure = "LoadFailed_Controller"
  PROVE  Script[<<request.module, request.controller>>] = "missing"
  <1>1. NameFailure = None /\ LoadFailure(request.module, request.controller) = "LoadFailed_Controller"
    BY DEF HandleFailure, NameFailure, None
  <1>2. <<request.module, request.controller>> \in Names \X Names
    BY <1>1, NamesGiven
  <1>3. Script[<<request.module, request.controller>>] \in ScriptKinds
    BY <1>2, UserCodeAssumption
  <1> QED BY <1>1, <1>3 DEF LoadFailure, ScriptKinds, None

LEMMA LeaveFailover ==
  ASSUME TypeOK, CaughtInv, NEW e, NEW req \in Request, NEW h \in History, Leave(e, req, h),
         Busy, ctx = "loop", h.caught = hist.caught
  PROVE  FailoverInv'
  <1>1. CASE EntersHandler(e)
    <2>1. pc' = "handle" /\ ctx' = "error" /\ request' = ErrorRequest(req, e)
      BY <1>1 DEF Leave
    <2>2. request'.controller = ErrorController
      BY <2>1 DEF ErrorRequest, Request
    <2> QED BY <2>1, <2>2 DEF FailoverInv, Busy
  <1>2. CASE ~EntersHandler(e)
    <2>1. pc' = "idle" /\ hist' = h /\ hist.caught = None
      BY <1>2 DEF Leave, CaughtInv
    <2> QED BY <2>1 DEF FailoverInv, Busy
  <1> QED BY <1>1, <1>2

LEMMA HandleFailover ==
  ASSUME TypeOK, CaughtInv, FailoverInv, HandleFails
  PROVE  FailoverInv'
  <1>0. hist \in History /\ request \in Request
    BY DEF TypeOK
  <1>1. /\ pc = "handle" /\ pc' = "handled" /\ handled' = FALSE /\ ctx' = ctx
        /\ request' = [request EXCEPT !.dispatched = TRUE]
        /\ hist' = [hist EXCEPT !.excused = @ \/ ~options.throwException]
    BY DEF HandleFails, HandleReturns
  <1>2. request'.controller = request.controller /\ hist'.errorRan = hist.errorRan
    BY <1>0, <1>1 DEF History, Request
  <1>3. exc' = "LoadFailed_Controller" => HandleFailure = "LoadFailed_Controller"
    <2>1. PICK e \in TriggerError(HandleFailure) : exc' = e
      BY DEF HandleFails, HandleReturns
    <2>2. options.throwException \in BOOLEAN /\ options.directory \in BOOLEAN
      BY DEF TypeOK, OptionNames, Switches
    <2> QED BY <2>1, <2>2 DEF TriggerError, None
  <1>4. exc' = "LoadFailed_Controller" =>
          Script[<<request.module, request.controller>>] /= "controller"
    BY <1>3, MissingController
  <1> QED BY <1>1, <1>2, <1>4 DEF FailoverInv, Busy

LEMMA FailoverStep ==
  ASSUME TypeOK, CaughtInv, FailoverInv, [Next]_vars
  PROVE  FailoverInv'
  <1>0. hist \in History /\ request \in Request
    BY DEF TypeOK
  <1>1. CASE HookThrew
    <2>1. Busy /\ ctx = "loop" /\ Leave(exc, request, hist)
      BY <1>1 DEF HookThrew, CaughtInv, Busy, Hooks
    <2> QED BY <1>0, <2>1, LeaveFailover
  <1>2. CASE RoundFailed
    <2>1. Busy /\ ctx = "loop" /\ Leave(exc, request, hist)
      BY <1>2 DEF RoundFailed, Busy
    <2> QED BY <1>0, <2>1, LeaveFailover
  <1>3. CASE NestingExhausted
    <2> DEFINE h == [hist EXCEPT !.excused = @ \/ ~options.throwException]
    <2>1. PICK e \in TriggerError("DispatchFailed") : Leave(e, request, h)
      BY <1>3 DEF NestingExhausted
    <2>2. Busy /\ ctx = "loop"
      BY <1>3 DEF NestingExhausted, HookDone, CaughtInv, Busy, Hooks
    <2>3. h \in History /\ h.caught = hist.caught
      BY <1>0 DEF History
    <2> HIDE DEF h
    <2> QED BY <1>0, <2>1, <2>2, <2>3, LeaveFailover
  <1>4. CASE HandleFails
    BY <1>4, HandleFailover
  <1>5. CASE HandleLoads
    <2>1. ctx' = ctx /\ pc' = "init" /\ hist' = [hist EXCEPT !.errorRan = @ \/ ctx /= "loop"]
      BY <1>5 DEF HandleLoads
    <2>2. hist'.errorRan = (hist.errorRan \/ ctx /= "loop")
      BY <1>0, <2>1 DEF History
    <2> QED BY <2>1, <2>2 DEF FailoverInv, Busy
  <1>6. CASE ErrorFailover
    <2>1. /\ pc = "handled" /\ ctx = "error" /\ pc' = "handle" /\ ctx' = "failover" /\ hist' = hist
          /\ request' = [request EXCEPT !.module = DefaultModule]
      BY <1>6 DEF ErrorFailover, FailsOver
    <2>2. request'.module = DefaultModule /\ request'.controller = request.controller
      BY <1>0, <2>1 DEF Request
    <2> QED BY <2>1, <2>2 DEF FailoverInv, Busy
  <1>7. CASE ErrorSent
    BY <1>7 DEF ErrorSent, FailsOver, FailoverInv, Busy, TypeOK
  <1>8. CASE PluginReturns \/ PluginThrows \/ RouterStartupDone \/ RouteMatches \/ RouteUnmatched
             \/ RouteThrows \/ RouterShutdownDone \/ LoopStartupDone \/ PreDispatchDone
             \/ RoundDone \/ PostDispatchDone
    <2>1. ctx = "loop" /\ ctx' = "loop" /\ pc' /= "idle"
      BY <1>8 DEF PluginReturns, PluginThrows, RouterStartupDone, RouteMatches, RouteUnmatched,
           RouteThrows, RouterShutdownDone, LoopStartupDone, PreDispatchDone, RoundDone,
           PostDispatchDone, HookDone, EnterHook, CaughtInv, Hooks
    <2> QED BY <2>1 DEF FailoverInv, Busy
  <1>9. CASE InitForwarded \/ InitThrows \/ InitReturns \/ ActionNotFound \/ ActionThrows
             \/ ActionReturns \/ ActionAutoRenders \/ RenderReturns \/ RenderReturnsFalse
             \/ RenderThrows
    <2>1. pc \in {"init", "action", "render", "display"} /\ Busy /\ ctx' = ctx /\ pc' /= "idle"
      BY <1>9 DEF InitForwarded, InitThrows, InitReturns, ActionNotFound, ActionThrows,
           ActionReturns, ActionAutoRenders, RenderReturns, RenderReturnsFalse, RenderThrows,
           SetUpAction, HandleReturns, Busy
    <2>2. hist'.errorRan = hist.errorRan
      BY <1>0, <1>9 DEF InitForwarded, InitThrows, InitReturns, ActionNotFound, ActionThrows,
           ActionReturns, ActionAutoRenders, RenderReturns, RenderReturnsFalse, RenderThrows,
           History
    <2> QED BY <2>1, <2>2 DEF FailoverInv, Busy
  <1>10. CASE Forward \/ SetRequest
    <2>1. pc' = pc /\ ctx' = ctx /\ pc \in Hooks \cup {"init", "action", "render", "display"}
      BY <1>10 DEF Forward, SetRequest, UserCodeRuns, PluginRuns
    <2>2. hist'.errorRan = hist.errorRan
      BY <1>0, <1>10 DEF Forward, SetRequest, History
    <2> QED BY <2>1, <2>2 DEF FailoverInv, Busy, Hooks
  <1>11. CASE DispatchDone
    <2>1. ctx = "loop" /\ Busy /\ hist' = hist /\ pc' = "idle"
      BY <1>11 DEF DispatchDone, HookDone, CaughtInv, Busy, Hooks
    <2> QED BY <2>1 DEF FailoverInv, CaughtInv, Busy
  <1>12. CASE SetOption \/ UNCHANGED vars
    BY <1>12 DEF SetOption, vars, FailoverInv, Busy
  <1>13. CASE CallerCatches \/ Bailout
    BY <1>13 DEF CallerCatches, Bailout, FailoverInv, Busy, None
  <1>14. CASE Dispatch \/ DispatchNew \/ NextHttpRequest
    <2>1. Begins
      BY <1>14, StartShape DEF Dispatch, DispatchNew, NextHttpRequest, Begins, NewHistory
    <2> QED BY <2>1 DEF Begins, FailoverInv, Busy
  <1> QED BY <1>1, <1>2, <1>3, <1>4, <1>5, <1>6, <1>7, <1>8, <1>9, <1>10, <1>11, <1>12, <1>13,
             <1>14 DEF Next, Step, UserCode

\* Whatever module the failed request named: if the default module's directory
\* has an ErrorController, the exception handler finds one, and the failure to
\* load the module's own does not escape from dispatch.
THEOREM FailoverFinds == Spec => []FailoverFindsErrorController
  <1>1. Init => CaughtInv /\ FailoverInv
    BY DEF Init, CaughtInv, FailoverInv, Busy, Hooks, NewHistory
  <1>2. TypeOK /\ CaughtInv /\ FailoverInv /\ [Next]_vars => (CaughtInv /\ FailoverInv)'
    BY CaughtStep, FailoverStep
  <1>3. FailoverInv => FailoverFindsErrorController
    BY DEF FailoverInv, FailoverFindsErrorController
  <1> QED BY <1>1, <1>2, <1>3, TypeCorrect, PTL DEF Spec
=============================================================================
