----------------------------- MODULE YafNested -----------------------------
(***************************************************************************)
(* A dispatch inside a dispatch.  PHP code that a dispatch calls back may   *)
(* call Yaf_Dispatcher::dispatch() itself.  The two then share what         *)
(* yaf_dispatcher.c keeps outside its locals: the property that holds the   *)
(* request, to which both have a pointer, YAF_G(view_directory) and         *)
(* YAF_G(in_exception).  This module has the stack of dispatches and that   *)
(* shared state; what one dispatch does by itself is YafDispatcher.         *)
(*                                                                         *)
(* A template that render() runs writes to an output buffer of its own      *)
(* (yaf_view_simple.c:178-207), and so does the response of a dispatch that *)
(* it starts.  A page is written in two pieces, one before the code that    *)
(* the template runs and one after it.                                      *)
(*                                                                         *)
(* catchException and throwException are on, responses are not returned,    *)
(* every module has the controllers it is asked for, and PHP code opens no  *)
(* output buffer and renders no template by itself.                         *)
(***************************************************************************)
EXTENDS Integers, Sequences

CONSTANTS
  Requests,       \* request objects
  Modules,
  DefaultModule,
  ForwardLimit,   \* yaf.forward_limit
  MaxDispatches,  \* bound: calls of dispatch()
  MaxForwards,    \* bound: calls of forward() and setModuleName()
  MaxShown        \* bound: pages by display()

ASSUME NestedAssumption ==
  /\ DefaultModule \in Modules
  /\ ForwardLimit \in Nat \ {0} /\ MaxDispatches \in Nat /\ MaxForwards \in Nat
  /\ MaxShown \in Nat

VARIABLES
  slot,         \* the request in the dispatcher's property
  req,          \* the request objects: [module, routed, dispatched]
  view,         \* YAF_G(view_directory), by the module it belongs to
  exc,          \* an exception is pending
  inException,  \* YAF_G(in_exception)
  stack,        \* the dispatches that run, the innermost first
  out,          \* the pieces of pages that the client has
  hist          \* history, read by the properties only

vars == <<slot, req, view, exc, inException, stack, out, hist>>

Hooks == {"routerStartup", "routerShutdown", "dispatchLoopStartup", "preDispatch",
          "postDispatch", "dispatchLoopShutdown"}

\* A piece of a page; last: what the template writes at its end; kept: it goes by
\* the body of the response; quiet: no other dispatch began while the controller of
\* the page was at work, and its init() did not rename the module.
Piece == [by : 1 .. MaxDispatches, number : Nat, last : BOOLEAN, kept : BOOLEAN,
          module : Modules, dir : Modules, quiet : BOOLEAN]

\* The locals of yaf_dispatcher_dispatch and yaf_dispatcher_handle.  pc is the
\* callback that runs, or "failed"; owner the request that the controller has; default is
\* is_def_module; dir where the template came from; text the output buffer of the
\* template, <<>> when none is open (display() opens none); id, given, rounds, module,
\* quiet, alone and served are history (alone: no dispatch has begun inside this
\* one; served: its request was dispatched when the loop ended).
Frame == [pc : Hooks \cup {"init", "action", "render", "failed"}, error : BOOLEAN,
          nesting : 0 .. ForwardLimit, owner : Requests, default : BOOLEAN,
          dir : Modules, body : Seq(Piece), text : Seq(Piece), id : 1 .. MaxDispatches,
          given : Requests, rounds : Nat, module : Modules, quiet : BOOLEAN,
          alone : BOOLEAN, served : BOOLEAN]

TypeOK ==
  /\ slot \in Requests /\ view \in Modules
  /\ req \in [Requests -> [module : Modules, routed : BOOLEAN, dispatched : BOOLEAN]]
  /\ exc \in BOOLEAN /\ inException \in BOOLEAN
  /\ stack \in Seq(Frame) /\ out \in Seq(Piece)
  /\ hist \in [started : 0 .. MaxDispatches, forwards : 0 .. MaxForwards, pieces : Nat,
               shown : 0 .. MaxShown, handlers : Nat,
               dropped : SUBSET [given : Requests, alone : BOOLEAN]]

-----------------------------------------------------------------------------
(* PHP code: outside every dispatch, or in the callback of the innermost one *)

Running == stack # <<>> /\ ~exc

At(pc) == Running /\ stack[1].pc = pc

\* Yaf_Dispatcher::dispatch($request) up to the first hook.
Enter(r) ==
  /\ ~exc /\ hist.started < MaxDispatches
  /\ slot' = r
  /\ hist' = [hist EXCEPT !.started = @ + 1]
  /\ stack' = <<[pc |-> IF req[r].routed THEN "dispatchLoopStartup" ELSE "routerStartup",
                 error |-> FALSE, nesting |-> ForwardLimit, owner |-> r, default |-> FALSE,
                 dir |-> view, body |-> <<>>, text |-> <<>>, id |-> hist'.started, given |-> r,
                 rounds |-> 0, module |-> req[r].module, quiet |-> TRUE, alone |-> TRUE,
                 served |-> FALSE]>>
              \o [i \in DOMAIN stack |-> [stack[i] EXCEPT !.quiet = FALSE, !.alone = FALSE]]
  /\ UNCHANGED <<req, view, exc, inException, out>>

\* A controller has its own request; a plugin is given the one in the slot.
RequestAtHand == IF stack[1].pc \in Hooks THEN slot ELSE stack[1].owner

\* forward() of a controller; a plugin may do the same to its request.
Forward ==
  /\ Running /\ hist.forwards < MaxForwards
  /\ stack[1].pc \in Hooks \cup {"init", "action"}
  /\ \E m \in Modules :
       req' = [req EXCEPT ![RequestAtHand].module = m, ![RequestAtHand].dispatched = FALSE]
  /\ hist' = [hist EXCEPT !.forwards = @ + 1]
  /\ UNCHANGED <<slot, view, exc, inException, stack, out>>

\* setModuleName() renames the module only.
SetModule ==
  /\ Running /\ hist.forwards < MaxForwards
  /\ stack[1].pc \in Hooks \cup {"init", "action"}
  /\ \E m \in Modules : req' = [req EXCEPT ![RequestAtHand].module = m]
  /\ stack' = [stack EXCEPT ![1].quiet = @ /\ stack[1].pc # "init"]
  /\ hist' = [hist EXCEPT !.forwards = @ + 1]
  /\ UNCHANGED <<slot, view, exc, inException, out>>

Throw ==
  /\ Running
  /\ exc' = TRUE
  /\ UNCHANGED <<slot, req, view, inException, stack, out, hist>>

\* also of what an inner dispatch did not handle
Catch ==
  /\ exc /\ (stack # <<>> => stack[1].pc # "failed")
  /\ exc' = FALSE
  /\ UNCHANGED <<slot, req, view, inException, stack, out, hist>>

-----------------------------------------------------------------------------
(* The output buffers *)

\* The dispatches of s whose template writes to a buffer.
Buffered(s) == {i \in DOMAIN s : s[i].text # <<>>}

\* The stack becomes s, and php_write takes t to the innermost buffer of it, or to
\* the client.
Writes(s, t) ==
  \/ Buffered(s) = {} /\ stack' = s /\ out' = out \o t
  \/ \E i \in Buffered(s) :
       /\ \A j \in Buffered(s) : i <= j
       /\ stack' = [s EXCEPT ![i].text = @ \o t] /\ UNCHANGED out

-----------------------------------------------------------------------------
(* yaf_dispatcher_handle *)

\* Up to init(), with the request that the property holds now.  An exception that
\* has left a template has discarded its buffer.
Handles(error, rounds) ==
  /\ req' = [req EXCEPT ![slot].dispatched = TRUE]
  /\ stack' = [stack EXCEPT ![1] =
                 [@ EXCEPT !.pc = "init", !.error = error, !.owner = slot,
                           !.default = (req[slot].module = DefaultModule), !.text = <<>>,
                           !.rounds = rounds, !.module = req[slot].module,
                           !.quiet = TRUE]]

\* Mutant: the directory of the default module for every module.
ViewDirDefault(f) == DefaultModule

\* module still points into the request that the controller has, while
\* is_def_module was computed before init().
ViewDir(f) == IF f.default THEN DefaultModule ELSE req[f.owner].module

\* forward() in init() starts over, and outside the loop.
InitReturns ==
  /\ At("init")
  /\ IF ~req[slot].dispatched
     THEN Handles(stack[1].error, stack[1].rounds) /\ UNCHANGED view
     ELSE /\ view' = ViewDir(stack[1])
          /\ stack' = [stack EXCEPT ![1].pc = "action"]
          /\ UNCHANGED req
  /\ UNCHANGED <<slot, exc, inException, out, hist>>

\* What the template of f writes next, and whether it will be in the response.
NewPiece(f, last, kept) ==
  [by |-> f.id, number |-> hist.pieces + 1, last |-> last, kept |-> kept,
   module |-> f.module, dir |-> f.dir, quiet |-> f.quiet]

\* Auto-rendering, with the directory as it is now: by render(), or by display(),
\* which opens no buffer, when flushInstantly is on; any callback may have switched it.
ActionRenders(flush) ==
  /\ At("action") /\ (flush => hist.shown < MaxShown)
  /\ LET f == [stack[1] EXCEPT !.pc = "render", !.dir = view]
         head == <<NewPiece(f, FALSE, ~flush)>>
     IN IF flush THEN Writes([stack EXCEPT ![1] = f], head)
        ELSE stack' = [stack EXCEPT ![1] = [f EXCEPT !.text = head]] /\ UNCHANGED out
  /\ hist' = [hist EXCEPT !.pieces = @ + 1, !.shown = IF flush THEN @ + 1 ELSE @]
  /\ UNCHANGED <<slot, req, view, exc, inException>>

\* Mutant: the response is sent after every round.
HandleDoneSends(f, shown) ==
  Writes(IF f.error THEN Tail(stack)
         ELSE [stack EXCEPT ![1] = [f EXCEPT !.body = <<>>, !.pc = "postDispatch"]],
         shown \o f.body)

\* handle returned 1 to the loop, or to the exception handler, which sends the
\* response and lets dispatch return NULL; shown is what display() wrote last.
HandleDone(f, shown) ==
  IF f.error THEN Writes(Tail(stack), shown \o f.body)
  ELSE Writes([stack EXCEPT ![1] = [f EXCEPT !.pc = "postDispatch"]], shown)

ActionReturnsFalse ==
  /\ At("action")
  /\ HandleDone(stack[1], <<>>)
  /\ UNCHANGED <<slot, req, view, exc, inException, hist>>

\* render() takes the text from the buffer into the response.
RenderReturns ==
  /\ At("render") /\ stack[1].text # <<>>
  /\ LET f == stack[1]
         page == Append(f.text, NewPiece(f, TRUE, TRUE))
     IN HandleDone([f EXCEPT !.body = @ \o page, !.text = <<>>], <<>>)
  /\ hist' = [hist EXCEPT !.pieces = @ + 1]
  /\ UNCHANGED <<slot, req, view, exc, inException>>

DisplayReturns ==
  /\ At("render") /\ stack[1].text = <<>>
  /\ HandleDone(stack[1], <<NewPiece(stack[1], TRUE, FALSE)>>)
  /\ hist' = [hist EXCEPT !.pieces = @ + 1]
  /\ UNCHANGED <<slot, req, view, exc, inException>>

\* render() or display() returns FALSE: the response is dropped, by the exception
\* handler it is sent.
RenderFails ==
  /\ At("render")
  /\ Writes(Tail(stack), IF stack[1].error THEN stack[1].body ELSE <<>>)
  /\ UNCHANGED <<slot, req, view, exc, inException, hist>>

-----------------------------------------------------------------------------
(* yaf_dispatcher_dispatch *)

RouterStartupReturns ==
  /\ At("routerStartup")
  /\ \E m \in Modules : req' = [req EXCEPT ![slot].module = m, ![slot].routed = TRUE]
  /\ stack' = [stack EXCEPT ![1].pc = "routerShutdown"]
  /\ UNCHANGED <<slot, view, exc, inException, out, hist>>

RouterShutdownReturns ==
  /\ At("routerShutdown")
  /\ req' = [req EXCEPT ![slot].routed = TRUE]
  /\ stack' = [stack EXCEPT ![1].pc = "dispatchLoopStartup"]
  /\ UNCHANGED <<slot, view, exc, inException, out, hist>>

LoopStartupReturns ==
  /\ At("dispatchLoopStartup")
  /\ stack' = [stack EXCEPT ![1].pc = "preDispatch"]
  /\ UNCHANGED <<slot, req, view, exc, inException, out, hist>>

PreDispatchReturns ==
  /\ At("preDispatch")
  /\ Handles(FALSE, stack[1].rounds + 1)
  /\ UNCHANGED <<slot, view, exc, inException, out, hist>>

\* Mutant: the counter is tested before it is decremented.
NextRoundLate(nesting) == nesting > 0 /\ ~req[slot].dispatched

\* The condition of the loop, after --nesting.
NextRound(nesting) == nesting - 1 > 0 /\ ~req[slot].dispatched

PostDispatchReturns ==
  /\ At("postDispatch")
  /\ LET n == stack[1].nesting
     IN stack' = [stack EXCEPT ![1].nesting = n - 1,
                               ![1].served = req[stack[1].given].dispatched,
                               ![1].pc = IF NextRound(n) THEN "preDispatch"
                                         ELSE "dispatchLoopShutdown"]
  /\ UNCHANGED <<slot, req, view, exc, inException, out, hist>>

\* Mutant: a forward that is left over at the limit is not reported.
LeftOverIgnored == FALSE

LeftOver == stack[1].nesting = 0 /\ ~req[slot].dispatched

\* The limit was reached: "The max dispatch nesting ... was reached".
LoopFails ==
  /\ At("dispatchLoopShutdown") /\ LeftOver
  /\ exc' = TRUE
  /\ stack' = [stack EXCEPT ![1].pc = "failed"]
  /\ UNCHANGED <<slot, req, view, inException, out, hist>>

DispatchReturns ==
  /\ At("dispatchLoopShutdown") /\ ~LeftOver
  /\ LET f == stack[1]
     IN /\ Writes(Tail(stack), f.body)
        /\ hist' = IF f.served THEN hist
                   ELSE [hist EXCEPT !.dropped = @ \cup {[given |-> f.given, alone |-> f.alone]}]
  /\ UNCHANGED <<slot, req, view, exc, inException>>

-----------------------------------------------------------------------------
(* yaf_dispatcher_exception_handler *)

\* Mutant: each dispatch has a handler of its own.
HandlerFreeOfOwn == TRUE

HandlerFree == ~inException

\* YAF_EXCEPTION_HANDLE after a callback of the loop
HandlerRuns ==
  /\ exc /\ stack # <<>> /\ ~stack[1].error
  /\ HandlerFree
  /\ inException' = TRUE /\ exc' = FALSE
  /\ Handles(TRUE, stack[1].rounds)
  /\ hist' = [hist EXCEPT !.handlers = @ + 1]
  /\ UNCHANGED <<slot, view, out>>

\* The handler is taken: dispatch returns NULL into the callback that called it,
\* where the exception goes on.
ExceptionLeaves ==
  /\ exc /\ stack # <<>> /\ ~stack[1].error
  /\ ~HandlerFree
  /\ stack' = Tail(stack)
  /\ UNCHANGED <<slot, req, view, exc, inException, out, hist>>

\* The error controller threw: what there is of the response is sent.
ErrorControllerThrew ==
  /\ exc /\ stack # <<>> /\ stack[1].error
  /\ Writes(Tail(stack), stack[1].body)
  /\ UNCHANGED <<slot, req, view, exc, inException, hist>>

-----------------------------------------------------------------------------

Init ==
  /\ slot \in Requests
  /\ req = [r \in Requests |-> [module |-> DefaultModule, routed |-> FALSE, dispatched |-> FALSE]]
  /\ view = DefaultModule
  /\ exc = FALSE /\ inException = FALSE /\ stack = <<>> /\ out = <<>>
  /\ hist = [started |-> 0, forwards |-> 0, pieces |-> 0, shown |-> 0, handlers |-> 0, dropped |-> {}]

Next ==
  \/ \E r \in Requests : Enter(r)
  \/ Forward \/ SetModule \/ Throw \/ Catch
  \/ RouterStartupReturns \/ RouterShutdownReturns \/ LoopStartupReturns
  \/ PreDispatchReturns \/ PostDispatchReturns \/ LoopFails \/ DispatchReturns
  \/ InitReturns \/ (\E flush \in BOOLEAN : ActionRenders(flush)) \/ ActionReturnsFalse
  \/ RenderReturns \/ DisplayReturns \/ RenderFails
  \/ HandlerRuns \/ ExceptionLeaves \/ ErrorControllerThrew

Spec == Init /\ [][Next]_vars

-----------------------------------------------------------------------------
(* Properties *)

Texts == {out} \cup {stack[i].body : i \in DOMAIN stack} \cup {stack[i].text : i \in DOMAIN stack}

Pieces == UNION {{t[k] : k \in DOMAIN t} : t \in Texts}

\* Every dispatch, the inner ones too, makes at most forward_limit rounds, although
\* the request that its loop looks at may have become another one.
RoundsPerDispatch == \A i \in DOMAIN stack : stack[i].rounds <= ForwardLimit

\* One handler for the whole stack: it runs at most once, however many dispatches
\* fail inside each other, and an exception reaches the code outside only after that.
HandlerOnceForAll ==
  /\ hist.handlers <= 1
  /\ exc /\ stack = <<>> => hist.handlers = 1

\* What is kept of one dispatch is in the order in which it was made, and a page of
\* it begins where the one before ended.
Together(t) ==
  \A i, j \in DOMAIN t :
    i < j /\ t[i].kept /\ t[j].kept /\ t[i].by = t[j].by =>
      /\ t[i].number < t[j].number
      /\ ~t[j].last => t[j - 1].kept /\ t[j - 1].last /\ t[j - 1].by = t[j].by

\* The pages that a dispatch collects in its response stay together, in the output
\* and in every buffer: what an inner dispatch sends lies inside the page whose
\* template started it, before all of these pages or behind them.
PagesTogether == \A t \in Texts : Together(t)

\* A page comes from the views of the module whose controller ran, if no other dispatch
\* began meanwhile and init() has not called setModuleName().
QuietPageFromItsModule == \A p \in Pieces : p.quiet => p.dir = p.module

\* No page, whatever the controller did, comes from the views of another module.
PageFromItsModule == \A p \in Pieces : p.dir = p.module

\* A dispatch in which no other one began, wherever in the stack it runs, returns
\* a response only when its loop has followed every forward of its own request.
LoneForwardFollowed == \A d \in hist.dropped : ~d.alone

=============================================================================
