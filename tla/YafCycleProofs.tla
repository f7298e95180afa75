--------------------------- MODULE YafCycleProofs ---------------------------
(***************************************************************************)
(* YafDispatcher implements YafCycle, for every application and every      *)
(* forward limit, 0 and its wrapped counter included.                      *)
(***************************************************************************)
EXTENDS YafDispatcherProofs

\* The rounds that the uint counter still allows, this one included.
Left(n) == IF n = 0 THEN UintMax + 1 ELSE n

\* Where dispatch stands in its loop.  Hooks are never called by the exception
\* handler, and rounds made and rounds left add up.
CycleInv ==
  /\ pc \in Hooks \cup {"route"} => ctx = "loop"
  /\ pc \in BeforeLoop => nesting = ForwardLimit /\ hist.rounds = 0
  /\ InRound => hist.rounds >= 1 /\ hist.rounds + Left(nesting) = LoopLimit + 1
  /\ pc = "dispatchLoopShutdown" => hist.rounds >= 1

\* What CycleInv needs to know of the types.
LEMMA Numbers ==
  ASSUME TypeOK
  PROVE  /\ nesting \in Nat /\ nesting <= UintMax /\ hist.rounds \in Nat
         /\ UintMax \in Nat /\ UintMax >= 1
         /\ ForwardLimit \in Nat /\ ForwardLimit <= UintMax
         /\ LoopLimit \in Nat /\ LoopLimit >= 1
BY NumbersAssumption DEF TypeOK, History, LoopLimit

\* Leaving dispatch keeps CycleInv: it ends, or the handler starts.
LEMMA LeaveCycle ==
  ASSUME TypeOK, NEW e, NEW req, NEW h, Leave(e, req, h)
  PROVE  CycleInv'
<1>1. (pc' = "handle" /\ ctx' = "error") \/ pc' = "idle"
  BY DEF Leave
<1> QED
  BY <1>1 DEF CycleInv, Hooks, BeforeLoop, InRound

\* A step that stays inside yaf_dispatcher_handle.
LEMMA InsideHandle ==
  ASSUME TypeOK, CycleInv,
         pc \in {"handle", "init", "action", "render", "display"},
         pc' \in {"handle", "init", "action", "render", "display", "handled"},
         UNCHANGED <<ctx, nesting>>, hist'.rounds = hist.rounds
  PROVE  CycleInv'
BY DEF CycleInv, Hooks, BeforeLoop, InRound, Left

\* A step of PHP code, or of a plugin, that leaves dispatch where it is.
LEMMA SamePlace ==
  ASSUME CycleInv, UNCHANGED <<pc, ctx, nesting>>, hist'.rounds = hist.rounds
  PROVE  CycleInv'
BY DEF CycleInv, InRound, Left

\* A dispatch begins.
LEMMA BeginCycle ==
  ASSUME NEW req, NEW n, StartDispatch(req, n)
  PROVE  CycleInv'
<1>1. pc' \in {"routerStartup", "dispatchLoopStartup"} /\ nesting' = ForwardLimit
      /\ hist'.rounds = 0 /\ ctx' = "loop"
  BY StartDispatchFacts DEF StartDispatch
<1> QED
  BY <1>1 DEF CycleInv, Hooks, BeforeLoop, InRound

\* The loop's own steps.
LEMMA LoopCycle ==
  ASSUME TypeOK, CycleInv,
         \/ LoopStartupDone \/ PreDispatchDone \/ RoundDone \/ PostDispatchDone
  PROVE  CycleInv'
<1>1. CASE LoopStartupDone
  <2>1. nesting = ForwardLimit /\ ctx = "loop"
    BY <1>1 DEF LoopStartupDone, HookDone, CycleInv, BeforeLoop, Hooks
  <2>2. pc' = "preDispatch" /\ hist'.rounds = 1 /\ ctx' = ctx /\ nesting' = nesting
    BY <1>1 DEF LoopStartupDone, EnterHook, TypeOK, History
  <2>3. Left(nesting) = LoopLimit
    BY <2>1 DEF Left, LoopLimit
  <2> QED
    BY <2>1, <2>2, <2>3, Numbers DEF CycleInv, BeforeLoop, InRound, Left
<1>2. CASE PreDispatchDone
  BY <1>2 DEF PreDispatchDone, HookDone, CycleInv, Hooks, BeforeLoop, InRound, Left
<1>3. CASE RoundDone
  BY <1>3 DEF RoundDone, EnterHook, CycleInv, Hooks, BeforeLoop, InRound, Left
<1>4. CASE PostDispatchDone
  <2>1. /\ ctx = "loop" /\ ctx' = ctx /\ nesting' = Decrement(nesting)
        /\ hist.rounds >= 1 /\ hist.rounds + Left(nesting) = LoopLimit + 1
    BY <1>4 DEF PostDispatchDone, HookDone, CycleInv, Hooks, InRound
  <2>2. CASE LoopAgain
    <3>1. pc' = "preDispatch" /\ hist'.rounds = hist.rounds + 1 /\ nesting' > 0
      BY <1>4, <2>1, <2>2 DEF PostDispatchDone, EnterHook, LoopAgain, TypeOK, History
    <3>2. Left(nesting') = Left(nesting) - 1
      BY <2>1, <3>1, Numbers DEF Left, Decrement
    <3> QED
      BY <2>1, <3>1, <3>2, Numbers DEF CycleInv, BeforeLoop, InRound, Left
  <2>3. CASE ~LoopAgain
    BY <1>4, <2>1, <2>3 DEF PostDispatchDone, EnterHook, CycleInv, BeforeLoop, InRound
  <2> QED
    BY <2>2, <2>3
<1> QED
  BY <1>1, <1>2, <1>3, <1>4

\* CycleInv is inductive: every step of Next preserves it.
LEMMA CycleStep ==
  ASSUME TypeOK, CycleInv, [Next]_vars
  PROVE  CycleInv'
<1>1. CASE Dispatch \/ DispatchNew
  BY <1>1, BeginCycle DEF Dispatch, DispatchNew
<1>2. CASE PluginReturns \/ PluginThrows \/ SetRequest \/ SetOption
  BY <1>2, SamePlace DEF PluginReturns, PluginThrows, SetRequest, SetOption
<1>3. CASE HookThrew \/ RoundFailed \/ NestingExhausted
  BY <1>3, LeaveCycle DEF HookThrew, RoundFailed, NestingExhausted
<1>4. CASE RouterStartupDone \/ RouteUnmatched \/ RouteThrows \/ RouterShutdownDone
  BY <1>4 DEF RouterStartupDone, RouteUnmatched, RouteThrows, RouterShutdownDone,
     HookDone, EnterHook, CycleInv, Hooks, BeforeLoop, InRound
<1>5. CASE RouteMatches
  <2>1. hist'.rounds = hist.rounds /\ pc' = "routerShutdown" /\ pc = "route"
        /\ UNCHANGED <<ctx, nesting>>
    BY <1>5 DEF RouteMatches, EnterHook, TypeOK, History
  <2> QED
    BY <2>1 DEF CycleInv, Hooks, BeforeLoop, InRound
<1>6. CASE LoopStartupDone \/ PreDispatchDone \/ RoundDone \/ PostDispatchDone
  BY <1>6, LoopCycle
<1>7. CASE HandleFails \/ HandleLoads \/ InitForwarded \/ InitThrows \/ InitReturns \/ ActionNotFound
  <2>1. /\ pc \in {"handle", "init"} /\ pc' \in {"handle", "init", "action", "handled"}
        /\ UNCHANGED <<ctx, nesting>> /\ hist'.rounds = hist.rounds
    BY <1>7 DEF HandleFails, HandleLoads, InitForwarded, InitThrows, InitReturns,
       ActionNotFound, SetUpAction, HandleReturns, TypeOK, History
  <2> QED
    BY <2>1, InsideHandle
<1>8. CASE ActionThrows \/ ActionReturns \/ ActionAutoRenders
           \/ RenderReturns \/ RenderReturnsFalse \/ RenderThrows
  <2>1. /\ pc \in {"action", "render", "display"} /\ pc' \in {"render", "display", "handled"}
        /\ UNCHANGED <<ctx, nesting>> /\ hist'.rounds = hist.rounds
    BY <1>8 DEF ActionThrows, ActionReturns, ActionAutoRenders, RenderReturns,
       RenderReturnsFalse, RenderThrows, HandleReturns, TypeOK, History
  <2> QED
    BY <2>1, InsideHandle
<1>9. CASE Forward
  <2>1. UNCHANGED <<pc, ctx, nesting>> /\ hist'.rounds = hist.rounds
    BY <1>9 DEF Forward, TypeOK, History
  <2> QED
    BY <2>1, SamePlace
<1>10. CASE ErrorFailover
  BY <1>10 DEF ErrorFailover, CycleInv, Hooks, BeforeLoop, InRound
<1>11. CASE DispatchDone \/ ErrorSent \/ CallerCatches \/ Bailout \/ NextHttpRequest
  <2>1. pc' \in {"idle", "dead"}
    BY <1>11 DEF DispatchDone, ErrorSent, CallerCatches, Bailout, NextHttpRequest
  <2> QED
    BY <2>1 DEF CycleInv, Hooks, BeforeLoop, InRound
<1>12. CASE UNCHANGED vars
  BY <1>12, SamePlace DEF vars
<1> QED
  BY <1>1, <1>2, <1>3, <1>4, <1>5, <1>6, <1>7, <1>8, <1>9, <1>10, <1>11, <1>12
     DEF Next, Step, UserCode

-----------------------------------------------------------------------------
(* Steps of dispatch are steps of the cycle *)

\* What the cycle shows of the state of a dispatch.
LEMMA PhaseOf ==
  ASSUME TypeOK, CycleInv
  PROVE  /\ pc \in {"idle", "dead"} => Phase = pc
         /\ pc \notin {"idle", "dead"} /\ ctx # "loop" => Phase = "rescuing"
         /\ pc \in {"routerStartup", "route", "routerShutdown"} => Phase = "routing"
         /\ pc \in {"dispatchLoopStartup", "preDispatch", "postDispatch",
                    "dispatchLoopShutdown"} => Phase = "serving"
         /\ pc \in {"handle", "init", "action", "render", "display", "handled"} /\ ctx = "loop"
              => Phase = "serving"
BY DEF Phase, CycleInv, Hooks

\* The same after a step.
LEMMA NextPhaseOf ==
  ASSUME TypeOK', CycleInv'
  PROVE  /\ pc' \in {"idle", "dead"} => Phase' = pc'
         /\ pc' \notin {"idle", "dead"} /\ ctx' # "loop" => Phase' = "rescuing"
         /\ pc' \in {"routerStartup", "route", "routerShutdown"} => Phase' = "routing"
         /\ pc' \in {"dispatchLoopStartup", "preDispatch", "postDispatch",
                     "dispatchLoopShutdown"} => Phase' = "serving"
         /\ pc' \in {"handle", "init", "action", "render", "display", "handled"} /\ ctx' = "loop"
              => Phase' = "serving"
BY DEF Phase, CycleInv, Hooks

\* A step that the cycle does not see.
LEMMA Unseen ==
  ASSUME Phase' = Phase, hist'.rounds = hist.rounds,
         UNCHANGED <<inException, result>>
  PROVE  UNCHANGED Cycle!vars
BY DEF Cycle!vars

\* Leaving dispatch is giving up, or calling the error controller.
LEMMA LeaveSeen ==
  ASSUME Phase \in {"routing", "serving"}, NEW e, NEW req, NEW h \in History,
         h.rounds = hist.rounds, Leave(e, req, h)
  PROVE  Cycle!Next
<1>1. CASE EntersHandler(e)
  <2>1. /\ pc' = "handle" /\ ctx' = "error" /\ inException' = TRUE /\ ~inException
        /\ result' = result /\ hist'.rounds = hist.rounds
    BY <1>1 DEF Leave, EntersHandler, History
  <2>2. Phase' = "rescuing"
    BY <2>1 DEF Phase
  <2> QED
    BY <2>1, <2>2 DEF Cycle!Rescue, Cycle!Next
<1>2. CASE ~EntersHandler(e)
  <2>1. pc' = "idle" /\ result' = "null" /\ inException' = inException /\ hist' = h
    BY <1>2 DEF Leave
  <2>2. Phase' = "idle"
    BY <2>1 DEF Phase
  <2> QED
    BY <2>1, <2>2 DEF Cycle!GiveUp, Cycle!Next
<1> QED
  BY <1>1, <1>2

\* Every step of YafDispatcher is a step of YafCycle or one that it does not see.
LEMMA StepSeen ==
  ASSUME TypeOK, CycleInv, TypeOK', CycleInv', [Next]_vars
  PROVE  [Cycle!Next]_(Cycle!vars)
<1>1. CASE Dispatch \/ DispatchNew
  <2>1. PICK req, n : StartDispatch(req, n)
    BY <1>1 DEF Dispatch, DispatchNew
  <2>2. /\ pc = "idle" /\ pc' \in {"routerStartup", "dispatchLoopStartup"}
        /\ result' = "none" /\ hist'.rounds = 0 /\ inException' = inException
    BY <2>1, StartDispatchFacts DEF StartDispatch
  <2>3. Phase = "idle" /\ Phase' \in {"routing", "serving"}
    BY <2>2, PhaseOf, NextPhaseOf
  <2> QED
    BY <2>2, <2>3 DEF Cycle!Begin, Cycle!Next
<1>2. CASE PluginReturns \/ PluginThrows \/ SetRequest \/ SetOption
  <2>1. UNCHANGED <<pc, ctx, hist, inException, result>>
    BY <1>2 DEF PluginReturns, PluginThrows, SetRequest, SetOption
  <2> QED
    BY <2>1, Unseen DEF Phase
<1>3. CASE HookThrew
  <2>1. Leave(exc, request, hist) /\ pc \in Hooks
    BY <1>3 DEF HookThrew
  <2>2. Phase \in {"routing", "serving"}
    BY <2>1, PhaseOf DEF Hooks
  <2> QED
    BY <2>1, <2>2, LeaveSeen DEF TypeOK
<1>4. CASE RoundFailed
  <2>1. Leave(exc, request, hist) /\ pc = "handled" /\ ctx = "loop"
    BY <1>4 DEF RoundFailed
  <2>2. Phase = "serving"
    BY <2>1, PhaseOf
  <2> QED
    BY <2>1, <2>2, LeaveSeen DEF TypeOK
<1>5. CASE NestingExhausted
  <2> DEFINE h == [hist EXCEPT !.excused = @ \/ ~options.throwException]
  <2>1. PICK e \in TriggerError("DispatchFailed") : Leave(e, request, h)
    BY <1>5 DEF NestingExhausted
  <2>2. (~options.throwException) \in BOOLEAN
    BY DEF TypeOK, OptionNames, Switches
  <2>3. h \in History /\ h.rounds = hist.rounds
    BY <2>2 DEF TypeOK, History
  <2>4. Phase = "serving"
    BY <1>5, PhaseOf DEF NestingExhausted, HookDone
  <2> QED
    BY <2>1, <2>3, <2>4, LeaveSeen
<1>6. CASE RouterStartupDone \/ RouteUnmatched \/ RouteThrows \/ RouteMatches
  <2>1. /\ pc \in {"routerStartup", "route"} /\ pc' \in {"route", "routerShutdown"}
        /\ hist'.rounds = hist.rounds /\ UNCHANGED <<inException, result>>
    BY <1>6 DEF RouterStartupDone, RouteUnmatched, RouteThrows, RouteMatches, HookDone,
       EnterHook, TypeOK, History
  <2> QED
    BY <2>1, PhaseOf, NextPhaseOf, Unseen
<1>7. CASE RouterShutdownDone
  <2>1. /\ pc = "routerShutdown" /\ pc' = "dispatchLoopStartup"
        /\ UNCHANGED <<hist, inException, result>>
    BY <1>7 DEF RouterShutdownDone, HookDone, EnterHook
  <2>2. Phase = "routing" /\ Phase' = "serving"
    BY <2>1, PhaseOf, NextPhaseOf
  <2> QED
    BY <2>1, <2>2 DEF Cycle!Routed, Cycle!Next
<1>8. CASE LoopStartupDone
  <2>1. /\ pc = "dispatchLoopStartup" /\ pc' = "preDispatch"
        /\ hist'.rounds = 1 /\ UNCHANGED <<inException, result>>
    BY <1>8 DEF LoopStartupDone, HookDone, EnterHook, TypeOK, History
  <2>2. hist.rounds = 0 /\ Phase = "serving" /\ Phase' = "serving"
    BY <2>1, PhaseOf, NextPhaseOf DEF CycleInv, BeforeLoop
  <2> QED
    BY <2>1, <2>2, Numbers DEF Cycle!Round, Cycle!Next
<1>9. CASE PreDispatchDone \/ RoundDone
  <2>1. /\ ctx = "loop" /\ ctx' = "loop"
        /\ pc \in {"preDispatch", "handled"} /\ pc' \in {"handle", "postDispatch"}
        /\ UNCHANGED <<hist, inException, result>>
    BY <1>9 DEF PreDispatchDone, RoundDone, HookDone, EnterHook, CycleInv, Hooks
  <2> QED
    BY <2>1, PhaseOf, NextPhaseOf, Unseen
<1>10. CASE PostDispatchDone
  <2>1. pc = "postDispatch" /\ UNCHANGED <<inException, result>>
    BY <1>10 DEF PostDispatchDone, HookDone
  <2>2. Phase = "serving"
    BY <2>1, PhaseOf
  <2>3. CASE LoopAgain
    <3>1. pc' = "preDispatch" /\ hist'.rounds = hist.rounds + 1
          /\ nesting' = Decrement(nesting) /\ nesting' > 0
      BY <1>10, <2>3 DEF PostDispatchDone, EnterHook, LoopAgain, TypeOK, History
    <3>2. Phase' = "serving"
      BY <3>1, NextPhaseOf
    <3>3. hist.rounds < LoopLimit
      BY <2>1, <3>1, Numbers DEF CycleInv, InRound, Left, Decrement
    <3> QED
      BY <2>1, <2>2, <3>1, <3>2, <3>3 DEF Cycle!Round, Cycle!Next
  <2>4. CASE ~LoopAgain
    <3>1. pc' = "dispatchLoopShutdown" /\ hist' = hist
      BY <1>10, <2>4 DEF PostDispatchDone, EnterHook
    <3>2. Phase' = "serving"
      BY <3>1, NextPhaseOf
    <3> QED
      BY <2>1, <2>2, <3>1, <3>2, Unseen
  <2> QED
    BY <2>3, <2>4
<1>11. CASE HandleFails \/ HandleLoads \/ InitForwarded \/ InitThrows \/ InitReturns \/ ActionNotFound
  <2>1. /\ pc \in {"handle", "init"} /\ pc' \in {"handle", "init", "action", "handled"}
        /\ UNCHANGED <<ctx, inException, result>> /\ hist'.rounds = hist.rounds
    BY <1>11 DEF HandleFails, HandleLoads, InitForwarded, InitThrows, InitReturns,
       ActionNotFound, SetUpAction, HandleReturns, TypeOK, History
  <2> QED
    BY <2>1, PhaseOf, NextPhaseOf, Unseen
<1>12. CASE ActionThrows \/ ActionReturns \/ ActionAutoRenders
            \/ RenderReturns \/ RenderReturnsFalse \/ RenderThrows
  <2>1. /\ pc \in {"action", "render", "display"} /\ pc' \in {"render", "display", "handled"}
        /\ UNCHANGED <<ctx, inException, result>> /\ hist'.rounds = hist.rounds
    BY <1>12 DEF ActionThrows, ActionReturns, ActionAutoRenders, RenderReturns,
       RenderReturnsFalse, RenderThrows, HandleReturns, TypeOK, History
  <2> QED
    BY <2>1, PhaseOf, NextPhaseOf, Unseen
<1>13. CASE Forward
  <2>1. UNCHANGED <<pc, ctx, inException, result>> /\ hist'.rounds = hist.rounds
    BY <1>13 DEF Forward, TypeOK, History
  <2> QED
    BY <2>1, Unseen DEF Phase
<1>14. CASE ErrorFailover
  <2>1. /\ pc = "handled" /\ ctx = "error" /\ pc' = "handle" /\ ctx' = "failover"
        /\ UNCHANGED <<hist, inException, result>>
    BY <1>14 DEF ErrorFailover, FailsOver
  <2> QED
    BY <2>1, PhaseOf, NextPhaseOf, Unseen
<1>15. CASE DispatchDone
  <2>1. /\ pc = "dispatchLoopShutdown" /\ pc' = "idle" /\ result' = "response"
        /\ UNCHANGED <<hist, inException>>
    BY <1>15 DEF DispatchDone, HookDone
  <2>2. hist.rounds >= 1 /\ Phase = "serving" /\ Phase' = "idle"
    BY <2>1, PhaseOf, NextPhaseOf DEF CycleInv
  <2> QED
    BY <2>1, <2>2 DEF Cycle!Complete, Cycle!Next
<1>16. CASE ErrorSent
  <2>1. /\ pc = "handled" /\ ctx # "loop" /\ pc' = "idle" /\ result' = "null"
        /\ UNCHANGED <<hist, inException>>
    BY <1>16 DEF ErrorSent
  <2>2. Phase = "rescuing" /\ Phase' = "idle"
    BY <2>1, PhaseOf, NextPhaseOf
  <2> QED
    BY <2>1, <2>2 DEF Cycle!GiveUp, Cycle!Next
<1>17. CASE CallerCatches
  <2>1. pc = "idle" /\ pc' = "idle" /\ result' = "none" /\ UNCHANGED <<hist, inException>>
    BY <1>17 DEF CallerCatches
  <2>2. Phase = "idle" /\ Phase' = "idle"
    BY <2>1, PhaseOf, NextPhaseOf
  <2> QED
    BY <2>1, <2>2 DEF Cycle!Taken, Cycle!Next
<1>18. CASE Bailout
  <2>1. pc \notin {"idle", "dead"} /\ pc' = "dead" /\ UNCHANGED <<hist, inException, result>>
    BY <1>18 DEF Bailout
  <2>2. Phase \notin {"idle", "dead"} /\ Phase' = "dead"
    BY <2>1, NextPhaseOf DEF Phase
  <2> QED
    BY <2>1, <2>2 DEF Cycle!Die, Cycle!Next
<1>19. CASE NextHttpRequest
  <2>1. /\ pc \in {"idle", "dead"} /\ pc' = "idle" /\ result' = "none"
        /\ inException' = FALSE /\ hist'.rounds = 0
    BY <1>19 DEF NextHttpRequest, RequestShutdown, NewHistory
  <2>2. Phase \in {"idle", "dead"} /\ Phase' = "idle"
    BY <2>1, PhaseOf, NextPhaseOf
  <2> QED
    BY <2>1, <2>2 DEF Cycle!NextRequest, Cycle!Next
<1>20. CASE UNCHANGED vars
  BY <1>20, Unseen DEF vars, Phase
<1> QED
  BY <1>1, <1>2, <1>3, <1>4, <1>5, <1>6, <1>7, <1>8, <1>9, <1>10, <1>11, <1>12,
     <1>13, <1>14, <1>15, <1>16, <1>17, <1>18, <1>19, <1>20 DEF Next, Step, UserCode

\* yaf_dispatcher_dispatch keeps the promise of YafCycle, for every application and
\* every forward limit.
THEOREM DispatchRefinesCycle == Spec => RefinesCycle
<1>1. Init => CycleInv /\ Cycle!Init
  <2> SUFFICES ASSUME Init PROVE CycleInv /\ Cycle!Init
    OBVIOUS
  <2>1. pc = "idle" /\ hist.rounds = 0 /\ inException = FALSE /\ result = "none"
    BY DEF Init, NewHistory
  <2>2. CycleInv
    BY <2>1 DEF CycleInv, Hooks, BeforeLoop, InRound
  <2>3. Cycle!Init
    BY <2>1 DEF Cycle!Init, Phase
  <2> QED
    BY <2>2, <2>3
<1> QED
  BY <1>1, TypeCorrect, CycleStep, StepSeen, PTL DEF Spec, RefinesCycle, Cycle!Spec

=============================================================================
