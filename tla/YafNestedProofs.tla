-------------------------- MODULE YafNestedProofs --------------------------
(***************************************************************************)
(* Proofs about YafNested, for stacks of dispatches of any depth.          *)
(***************************************************************************)
EXTENDS YafNested, SequenceTheorems, TLAPS

Request == [module : Modules, routed : BOOLEAN, dispatched : BOOLEAN]

\* What the loop's counter has to do with the rounds, in every frame: they add
\* up, except where the frame is in the exception handler, from which it does
\* not return to its loop.  Only a template has a buffer.
LoopFrame(f) ==
  /\ f.rounds <= ForwardLimit
  /\ f.error => f.pc \in {"init", "action", "render"}
  /\ f.pc \in {"routerStartup", "routerShutdown", "dispatchLoopStartup"} =>
       f.rounds = 0 /\ f.nesting = ForwardLimit
  /\ f.pc = "preDispatch" => f.nesting > 0 /\ f.rounds + f.nesting = ForwardLimit
  /\ f.pc \in {"init", "action", "render", "postDispatch"} /\ ~f.error =>
       f.nesting > 0 /\ f.rounds + f.nesting = ForwardLimit + 1
  /\ f.text /= <<>> => f.pc = "render"

LoopInv == \A i \in DOMAIN stack : LoopFrame(stack[i])

\* A frame in the exception handler has claimed it, and the claim is counted.
HandlerInv ==
  /\ hist.handlers = IF inException THEN 1 ELSE 0
  /\ \A i \in DOMAIN stack : stack[i].error => inException
  /\ exc /\ stack = <<>> => inException

\* What a dispatch has collected, and what its template has written since.
Whole(f) == f.body \o f.text

\* The dispatches of which t holds a kept piece.
KeptOf(t) == {t[k].by : k \in {l \in DOMAIN t : t[l].kept}}

\* Texts of which the last n pieces and the first m dispatches are made.
Made(t, n, m) ==
  /\ \A k \in DOMAIN t : t[k].number <= n
  /\ KeptOf(t) \subseteq 0 .. m

\* A response is empty or ends with the end of a page of its own dispatch.
Ended(f) ==
  f.body = <<>> \/ LET p == f.body[Len(f.body)] IN p.kept /\ p.last /\ p.by = f.id

FrameTidy(f, n, m) ==
  f.id <= m /\ Together(Whole(f)) /\ Made(Whole(f), n, m) /\ Ended(f)

\* The dispatches that a frame answers for: its own, and those that have ended in
\* its templates.
Own(f) == {f.id} \cup KeptOf(Whole(f))

\* The kept pieces of one dispatch are all in one place.
Apart(s, o) ==
  /\ \A i, j \in DOMAIN s : i /= j => Own(s[i]) \cap Own(s[j]) = {}
  /\ \A i \in DOMAIN s : Own(s[i]) \cap KeptOf(o) = {}

Tidy(s, o, n, m) ==
  /\ \A i \in DOMAIN s : FrameTidy(s[i], n, m)
  /\ Together(o) /\ Made(o, n, m)
  /\ Apart(s, o)

PagesInv == Tidy(stack, out, hist.pieces, hist.started)

\* Only the innermost dispatch can be quiet or alone.
InnerInv == \A i \in DOMAIN stack : i > 1 => ~stack[i].quiet /\ ~stack[i].alone

\* While it is quiet, the controller's request is the one in the slot, and a
\* forward shows in its flag; then the view directory is that of its module.
QuietFrame(f) ==
  /\ f.pc = "init" => /\ f.owner = slot
                      /\ f.default = (f.module = DefaultModule)
                      /\ req[slot].dispatched => req[slot].module = f.module
  /\ f.pc = "action" => view = f.module
  /\ f.pc = "render" => f.dir = f.module

QuietInv ==
  /\ stack /= <<>> /\ stack[1].quiet => QuietFrame(stack[1])
  /\ QuietPageFromItsModule

\* A dispatch that is alone looks at its own request, and a forward that its
\* loop has left over is still to be seen when the loop is over.
LoneInv ==
  /\ stack /= <<>> /\ stack[1].alone => stack[1].given = slot
  /\ stack /= <<>> /\ stack[1].alone /\ stack[1].pc = "dispatchLoopShutdown" =>
       stack[1].served \/ (stack[1].nesting = 0 /\ ~req[slot].dispatched)
  /\ LoneForwardFollowed

-----------------------------------------------------------------------------
(* The stack *)

LEMMA Types ==
  ASSUME TypeOK
  PROVE  /\ stack \in Seq(Frame) /\ out \in Seq(Piece)
         /\ stack /= <<>> => stack[1] \in Frame /\ 1 \in DOMAIN stack
         /\ slot \in Requests /\ view \in Modules /\ req \in [Requests -> Request]
         /\ ForwardLimit \in Nat /\ MaxDispatches \in Nat /\ DefaultModule \in Modules
  BY NestedAssumption DEF TypeOK, Request

\* The innermost dispatch changes.
LEMMA Changed ==
  ASSUME NEW s \in Seq(Frame), s /= <<>>, NEW f \in Frame, NEW t, t = [s EXCEPT ![1] = f]
  PROVE  /\ t \in Seq(Frame) /\ t /= <<>> /\ t[1] = f
         /\ DOMAIN t = DOMAIN s /\ 1 \in DOMAIN t
         /\ \A i \in DOMAIN t : i /= 1 => t[i] = s[i]
  OBVIOUS

\* The innermost dispatch returns.
LEMMA Popped ==
  ASSUME NEW s \in Seq(Frame), s /= <<>>, NEW t, t = Tail(s)
  PROVE  /\ t \in Seq(Frame)
         /\ \A i \in DOMAIN t : i + 1 \in DOMAIN s /\ t[i] = s[i + 1] /\ i \in Nat \ {0}
         /\ t /= <<>> => 2 \in DOMAIN s /\ t[1] = s[2]
  <1>1. /\ t \in Seq(Frame) /\ Len(t) = Len(s) - 1
        /\ \A i \in 1 .. Len(t) : t[i] = s[i + 1]
    BY HeadTailProperties
  <1>2. DOMAIN t = 1 .. Len(t) /\ DOMAIN s = 1 .. Len(s) /\ Len(t) \in Nat /\ Len(s) \in Nat
    BY <1>1, LenProperties
  <1>3. t /= <<>> => Len(t) >= 1
    BY <1>1, EmptySeq
  <1> QED BY <1>1, <1>2, <1>3

\* What becomes of the dispatches outside the one that begins.
Outer(f) == [f EXCEPT !.quiet = FALSE, !.alone = FALSE]
Outers(s) == [i \in DOMAIN s |-> Outer(s[i])]

LEMMA OuterFrame ==
  ASSUME NEW f \in Frame
  PROVE  /\ Outer(f) \in Frame /\ ~Outer(f).quiet /\ ~Outer(f).alone
         /\ Outer(f).pc = f.pc /\ Outer(f).error = f.error /\ Outer(f).nesting = f.nesting
         /\ Outer(f).body = f.body /\ Outer(f).text = f.text /\ Outer(f).id = f.id /\ Outer(f).rounds = f.rounds
  BY DEF Outer, Frame

\* A dispatch begins.
LEMMA Pushed ==
  ASSUME NEW s \in Seq(Frame), NEW f \in Frame, NEW t, t = <<f>> \o Outers(s)
  PROVE  t \in Seq(Frame) /\ t /= <<>> /\ t[1] = f /\ DOMAIN t = 1 .. 1 + Len(s)
  <1>1. DOMAIN s = 1 .. Len(s) /\ Len(s) \in Nat
    BY LenProperties
  <1>2. \A i \in DOMAIN s : Outer(s[i]) \in Frame
    BY OuterFrame, <1>1
  <1>3. Outers(s) \in Seq(Frame) /\ Len(Outers(s)) = Len(s)
    BY <1>1, <1>2 DEF Outers
  <1> QED BY <1>1, <1>3

LEMMA PushedBelow ==
  ASSUME NEW s \in Seq(Frame), NEW f \in Frame, NEW t, t = <<f>> \o Outers(s)
  PROVE  \A i \in DOMAIN t : i /= 1 => i - 1 \in DOMAIN s /\ t[i] = Outer(s[i - 1])
  <1>1. DOMAIN s = 1 .. Len(s) /\ Len(s) \in Nat /\ DOMAIN t = 1 .. 1 + Len(s)
    BY LenProperties, Pushed
  <1>2. \A i \in DOMAIN s : Outers(s)[i] = Outer(s[i])
    BY DEF Outers
  <1>3. Outers(s) \in Seq(Frame) /\ Len(Outers(s)) = Len(s)
    BY <1>1, OuterFrame DEF Outers
  <1> QED BY <1>1, <1>2, <1>3

-----------------------------------------------------------------------------
(* The output buffers *)

\* Also of a step that writes nothing.
Wrote(s, t) == (stack' = s /\ out' = out /\ t = <<>>) \/ Writes(s, t)

\* Frames that differ in their buffers only.
Like(f, g) ==
  /\ f \in Frame /\ g \in Frame
  /\ f.pc = g.pc /\ f.error = g.error /\ f.nesting = g.nesting /\ f.owner = g.owner
  /\ f.default = g.default /\ f.dir = g.dir /\ f.body = g.body /\ f.id = g.id
  /\ f.given = g.given /\ f.rounds = g.rounds /\ f.module = g.module /\ f.quiet = g.quiet
  /\ f.alone = g.alone /\ f.served = g.served

\* What writing t does to the buffer of a frame.
Buffers(f, g, t) == f.text = g.text \/ (g.text /= <<>> /\ f.text = g.text \o t)

LEMMA LikeText ==
  ASSUME NEW f \in Frame, NEW c \in Seq(Piece), NEW g, g = [f EXCEPT !.text = c]
  PROVE  Like(g, f) /\ g.text = c
  BY DEF Like, Frame

LEMMA LikeItself ==
  ASSUME NEW f \in Frame
  PROVE  Like(f, f) /\ \A t : Buffers(f, f, t)
  BY DEF Like, Buffers

\* The frames stay what they are but for the buffer that is written to.
LEMMA Written ==
  ASSUME NEW s \in Seq(Frame), NEW t \in Seq(Piece), out \in Seq(Piece), Wrote(s, t)
  PROVE  /\ stack' \in Seq(Frame) /\ out' \in Seq(Piece) /\ DOMAIN stack' = DOMAIN s
         /\ \A i \in DOMAIN s : Like(stack'[i], s[i]) /\ Buffers(stack'[i], s[i], t)
  <1>0. \A i \in DOMAIN s : s[i] \in Frame
    OBVIOUS
  <1>1. CASE stack' = s /\ out' \in {out, out \o t}
    <2>1. out' \in Seq(Piece)
      BY <1>1, ConcatProperties
    <2> QED BY <1>0, <1>1, <2>1, LikeItself
  <1>2. ASSUME NEW n \in Buffered(s), stack' = [s EXCEPT ![n].text = @ \o t], out' = out
        PROVE  /\ stack' \in Seq(Frame) /\ out' \in Seq(Piece) /\ DOMAIN stack' = DOMAIN s
               /\ \A i \in DOMAIN s : Like(stack'[i], s[i]) /\ Buffers(stack'[i], s[i], t)
    <2> DEFINE c == s[n].text \o t
               g == [s[n] EXCEPT !.text = c]
    <2>1. n \in DOMAIN s /\ s[n] \in Frame /\ s[n].text \in Seq(Piece) /\ s[n].text /= <<>>
      BY <1>0, <1>2 DEF Buffered, Frame
    <2>2. c \in Seq(Piece)
      BY <2>1, ConcatProperties
    <2>3. g \in Frame /\ Like(g, s[n]) /\ g.text = c
      <3> HIDE DEF c
      <3>1. Like(g, s[n]) /\ g.text = c
        BY <2>1, <2>2, LikeText
      <3> QED BY <3>1 DEF Like
    <2>4. Buffers(g, s[n], t)
      BY <2>1, <2>3 DEF Buffers
    <2>5. stack' = [s EXCEPT ![n] = g]
      BY <1>2
    <2> HIDE DEF g
    <2>6. /\ stack' \in Seq(Frame) /\ DOMAIN stack' = DOMAIN s /\ stack'[n] = g
          /\ \A i \in DOMAIN s : i /= n => stack'[i] = s[i]
      BY <2>1, <2>3, <2>5
    <2> QED BY <1>0, <1>2, <2>3, <2>4, <2>6, LikeItself
  <1> QED BY <1>1, <1>2 DEF Wrote, Writes

LEMMA LoopLike ==
  ASSUME NEW f, NEW g, NEW t, Like(f, g), Buffers(f, g, t), LoopFrame(g)
  PROVE  LoopFrame(f)
  BY DEF Like, Buffers, LoopFrame

LEMMA LoopWritten ==
  ASSUME NEW s \in Seq(Frame), NEW t \in Seq(Piece), out \in Seq(Piece), Wrote(s, t),
         \A i \in DOMAIN s : LoopFrame(s[i])
  PROVE  LoopInv'
  BY Written, LoopLike DEF LoopInv

-----------------------------------------------------------------------------
(* The shape of a step *)

HistType == [started : 0 .. MaxDispatches, forwards : 0 .. MaxForwards, pieces : Nat,
             shown : 0 .. MaxShown, handlers : Nat,
             dropped : SUBSET [given : Requests, alone : BOOLEAN]]

LEMMA VariableTypes ==
  ASSUME TypeOK
  PROVE  exc \in BOOLEAN /\ inException \in BOOLEAN /\ hist \in HistType
  BY DEF TypeOK, HistType

SameCount == hist'.pieces = hist.pieces
Counted == hist'.pieces = hist.pieces + 1

\* A piece that the template of the innermost dispatch writes in this step.
Mine(p, last, kept) ==
  /\ p \in Piece /\ p.by = stack[1].id /\ p.number = hist.pieces + 1
  /\ p.last = last /\ p.kept = kept /\ p.module = stack[1].module /\ p.quiet = stack[1].quiet
  /\ \/ stack[1].pc = "action" /\ p.dir = view
     \/ stack[1].pc = "render" /\ p.dir = stack[1].dir

\* What a step writes when the innermost dispatch goes on with the frame g: nothing,
\* the head of a page of render(), its end, or a piece that display() shows.
TextStep(g, t) ==
  \/ g.body = stack[1].body /\ g.text \in {<<>>, stack[1].text} /\ t = <<>> /\ SameCount
  \/ /\ g.body = stack[1].body /\ stack[1].text = <<>> /\ t = <<>> /\ Counted
     /\ \E p : Mine(p, FALSE, TRUE) /\ g.text = <<p>>
  \/ /\ g.text = <<>> /\ t = <<>> /\ Counted
     /\ \E p : Mine(p, TRUE, TRUE) /\ g.body = stack[1].body \o Append(stack[1].text, p)
  \/ /\ g.body = stack[1].body /\ g.text = stack[1].text /\ Counted
     /\ \E p : Mine(p, p.last, FALSE) /\ t = <<p>>

\* What is sent when it ends: nothing, or the response, with a page that has just
\* been finished in it or shown before it.
SendStep(t) ==
  \/ t \in {<<>>, stack[1].body} /\ SameCount
  \/ Counted /\ \E p : Mine(p, TRUE, TRUE) /\ t = stack[1].body \o Append(stack[1].text, p)
  \/ Counted /\ \E p : Mine(p, TRUE, FALSE) /\ t = <<p>> \o stack[1].body

GoesOn(g, t) ==
  /\ stack /= <<>> /\ g \in Frame /\ t \in Seq(Piece)
  /\ Wrote([stack EXCEPT ![1] = g], t)
  /\ LoopFrame(g) /\ TextStep(g, t)
  /\ g.id = stack[1].id /\ g.given = stack[1].given /\ g.alone = stack[1].alone
  /\ g.error => stack[1].error \/ HandlerRuns
  /\ slot' = slot /\ hist'.started = hist.started

Leaves(t) ==
  /\ stack /= <<>> /\ t \in Seq(Piece) /\ Wrote(Tail(stack), t) /\ SendStep(t)
  /\ UNCHANGED <<slot, req, view>> /\ hist'.started = hist.started

\* PHP code does something that touches no dispatch.
Stays ==
  UNCHANGED <<slot, view, stack, out>> /\ hist'.started = hist.started /\ SameCount

LEMMA FrameFields ==
  ASSUME TypeOK, stack /= <<>>
  PROVE  /\ stack[1].body \in Seq(Piece) /\ stack[1].text \in Seq(Piece)
         /\ stack[1].id \in 1 .. MaxDispatches /\ stack[1].error \in BOOLEAN
         /\ stack[1].rounds \in Nat
         /\ hist.pieces \in Nat /\ hist.started \in Nat
  BY Types, VariableTypes, SMTT(30) DEF Frame, HistType

LEMMA PieceMade ==
  ASSUME TypeOK, stack /= <<>>, NEW f, NEW last \in BOOLEAN, NEW kept \in BOOLEAN,
         f = stack[1] \/ (f = [stack[1] EXCEPT !.pc = "render", !.dir = view]
                           /\ stack[1].pc = "action"),
         f.pc = "render"
  PROVE  Mine(NewPiece(f, last, kept), last, kept)
  <1> DEFINE p == NewPiece(f, last, kept)
  <1>1. stack[1] \in Frame /\ view \in Modules /\ hist.pieces \in Nat
    BY Types, FrameFields
  <1>2. /\ f.id = stack[1].id /\ f.module = stack[1].module /\ f.quiet = stack[1].quiet
        /\ \/ stack[1].pc = "action" /\ f.dir = view
           \/ stack[1].pc = "render" /\ f.dir = stack[1].dir
    BY <1>1 DEF Frame
  <1>3. /\ stack[1].id \in 1 .. MaxDispatches /\ stack[1].module \in Modules
        /\ stack[1].quiet \in BOOLEAN /\ stack[1].dir \in Modules /\ hist.pieces + 1 \in Nat
    BY <1>1 DEF Frame
  <1>4. /\ p.by = f.id /\ p.number = hist.pieces + 1 /\ p.last = last /\ p.kept = kept
        /\ p.module = f.module /\ p.dir = f.dir /\ p.quiet = f.quiet
    BY DEF NewPiece
  <1>5. p \in Piece
    BY <1>1, <1>2, <1>3 DEF NewPiece, Piece
  <1> QED BY <1>2, <1>4, <1>5 DEF Mine

\* Steps that move the innermost dispatch on and write nothing.
LEMMA MovesShape ==
  ASSUME TypeOK, stack /= <<>>, NEW g, g \in Frame, LoopFrame(g),
         stack' = [stack EXCEPT ![1] = g], out' = out,
         g.body = stack[1].body, g.text \in {<<>>, stack[1].text},
         g.id = stack[1].id, g.given = stack[1].given, g.alone = stack[1].alone,
         g.error => stack[1].error \/ HandlerRuns,
         slot' = slot, hist'.started = hist.started, SameCount
  PROVE  \E h, t : GoesOn(h, t)
  <1>1. <<>> \in Seq(Piece)
    BY EmptySeq
  <1>2. GoesOn(g, <<>>)
    BY <1>1 DEF GoesOn, Wrote, TextStep
  <1> QED BY <1>2

\* yaf_dispatcher_handle begins, in the loop, after a forward or for an error.
LEMMA HandlesShape ==
  ASSUME TypeOK, stack /= <<>>, NEW e \in BOOLEAN, NEW n \in Nat, Handles(e, n),
         n <= ForwardLimit,
         e \/ (stack[1].nesting > 0 /\ n + stack[1].nesting = ForwardLimit + 1),
         e => stack[1].error \/ HandlerRuns,
         UNCHANGED <<slot, out>>, hist'.started = hist.started, SameCount
  PROVE  \E h, t : GoesOn(h, t)
  <1> DEFINE g == [stack[1] EXCEPT !.pc = "init", !.error = e, !.owner = slot,
                           !.default = (req[slot].module = DefaultModule), !.text = <<>>,
                           !.rounds = n, !.module = req[slot].module, !.quiet = TRUE]
  <1>0. <<>> \in Seq(Piece)
    BY EmptySeq
  <1>1. g \in Frame
    BY <1>0, Types DEF Frame, Request
  <1>2. /\ g.pc = "init" /\ g.rounds = n /\ g.nesting = stack[1].nesting /\ g.text = <<>>
        /\ g.id = stack[1].id /\ g.given = stack[1].given
        /\ g.alone = stack[1].alone /\ g.body = stack[1].body /\ g.error = e
    BY Types, ZenonT(40) DEF Frame
  <1>3. LoopFrame(g)
    BY <1>2 DEF LoopFrame
  <1>4. stack' = [stack EXCEPT ![1] = g]
    BY DEF Handles
  <1> HIDE DEF g
  <1> QED BY <1>1, <1>2, <1>3, <1>4, MovesShape

LEMMA Wrote1 ==
  ASSUME NEW s, NEW t, Writes(s, t)
  PROVE  Wrote(s, t)
  BY DEF Wrote

\* yaf_dispatcher_handle ends.
LEMMA HandleDoneShape ==
  ASSUME TypeOK, LoopInv, stack /= <<>>, NEW f, f \in Frame, NEW t, t \in Seq(Piece),
         stack[1].pc \in {"action", "render"},
         f.nesting = stack[1].nesting, f.rounds = stack[1].rounds, f.error = stack[1].error,
         f.id = stack[1].id, f.given = stack[1].given, f.alone = stack[1].alone,
         f.text = <<>>, TextStep(f, t), f.error => SendStep(t \o f.body),
         HandleDone(f, t),
         UNCHANGED <<slot, req, view>>, hist'.started = hist.started
  PROVE  \/ \E h, u : GoesOn(h, u) /\ h.pc = "postDispatch"
         \/ \E u : Leaves(u)
  <1>1. CASE f.error
    <2>1. f.body \in Seq(Piece)
      BY DEF Frame
    <2>2. t \o f.body \in Seq(Piece)
      BY <2>1, ConcatProperties
    <2>3. Wrote(Tail(stack), t \o f.body)
      BY <1>1, Wrote1 DEF HandleDone
    <2>4. Leaves(t \o f.body)
      BY <1>1, <2>2, <2>3 DEF Leaves
    <2> QED BY <2>4
  <1>2. CASE ~f.error
    <2> DEFINE g == [f EXCEPT !.pc = "postDispatch"]
    <2>1. g \in Frame
      BY DEF Frame, Hooks
    <2>2. /\ g.pc = "postDispatch" /\ g.nesting = f.nesting /\ g.rounds = f.rounds
          /\ g.error = f.error /\ g.id = f.id /\ g.given = f.given /\ g.alone = f.alone
          /\ g.text = f.text /\ g.body = f.body
      BY DEF Frame
    <2>3. Wrote([stack EXCEPT ![1] = g], t)
      BY <1>2, Wrote1 DEF HandleDone
    <2> HIDE DEF g
    <2>4. LoopFrame(g)
      <3>1. LoopFrame(stack[1])
        BY Types DEF LoopInv
      <3> QED BY <1>2, <2>2, <3>1 DEF LoopFrame
    <2>5. TextStep(g, t)
      BY <2>2 DEF TextStep
    <2>6. GoesOn(g, t)
      BY <1>2, <2>1, <2>2, <2>3, <2>4, <2>5 DEF GoesOn
    <2> QED BY <2>2, <2>6
  <1> QED BY <1>1, <1>2

\* Before its template runs a dispatch has no buffer.
LEMMA NoBuffer ==
  ASSUME TypeOK, LoopInv, stack /= <<>>, stack[1].pc /= "render"
  PROVE  stack[1].text = <<>>
  <1>1. LoopFrame(stack[1])
    BY Types DEF LoopInv
  <1> QED BY <1>1 DEF LoopFrame

LEMMA InitShape ==
  ASSUME TypeOK, LoopInv, InitReturns
  PROVE  \E h, t : GoesOn(h, t)
  <1> DEFINE f == stack[1]
  <1>0. /\ stack /= <<>> /\ f \in Frame /\ LoopFrame(f) /\ f.pc = "init"
        /\ UNCHANGED <<slot, exc, out, hist>>
    BY Types DEF InitReturns, At, Running, LoopInv
  <1>1. CASE ~req[slot].dispatched
    <2>1. Handles(f.error, f.rounds) /\ f.error \in BOOLEAN /\ f.rounds \in Nat
      BY <1>0, <1>1 DEF InitReturns, Frame
    <2>2. /\ f.rounds <= ForwardLimit
          /\ f.error \/ (f.nesting > 0 /\ f.rounds + f.nesting = ForwardLimit + 1)
      BY <1>0 DEF LoopFrame
    <2> QED BY <1>0, <2>1, <2>2, HandlesShape DEF SameCount
  <1>2. CASE req[slot].dispatched
    <2> DEFINE g == [f EXCEPT !.pc = "action"]
    <2>1. stack' = [stack EXCEPT ![1] = g]
      BY <1>2 DEF InitReturns
    <2>2. /\ g \in Frame /\ g.pc = "action" /\ g.nesting = f.nesting /\ g.rounds = f.rounds
          /\ g.error = f.error /\ g.id = f.id /\ g.given = f.given /\ g.alone = f.alone
          /\ g.text = f.text /\ g.body = f.body
      BY <1>0 DEF Frame
    <2> HIDE DEF g
    <2>3. LoopFrame(g)
      BY <1>0, <2>2, NoBuffer DEF LoopFrame
    <2> QED BY <1>0, <2>1, <2>2, <2>3, MovesShape DEF SameCount
  <1> QED BY <1>1, <1>2

\* The frame of a dispatch whose template begins.
BeginsPage(h) ==
  h.pc = "render" /\ h.dir = view /\ h.module = stack[1].module /\ h.quiet = stack[1].quiet

LEMMA ActionRendersShape ==
  ASSUME TypeOK, LoopInv, NEW flush \in BOOLEAN, ActionRenders(flush)
  PROVE  \E h, t : GoesOn(h, t) /\ BeginsPage(h)
  <1> DEFINE f == [stack[1] EXCEPT !.pc = "render", !.dir = view]
             p == NewPiece(f, FALSE, ~flush)
             g == [f EXCEPT !.text = <<p>>]
  <1>0. /\ stack /= <<>> /\ stack[1] \in Frame /\ LoopFrame(stack[1]) /\ stack[1].pc = "action"
        /\ UNCHANGED <<slot, req, view>> /\ stack[1].text = <<>>
    BY Types, NoBuffer DEF ActionRenders, At, Running, LoopInv
  <1>1. Counted /\ hist'.started = hist.started
    BY VariableTypes DEF ActionRenders, HistType, Counted
  <1>2. IF flush THEN Writes([stack EXCEPT ![1] = f], <<p>>)
        ELSE stack' = [stack EXCEPT ![1] = g] /\ out' = out
    BY DEF ActionRenders
  <1>3. f \in Frame
    BY <1>0, Types DEF Frame
  <1>4. /\ f.pc = "render" /\ f.nesting = stack[1].nesting /\ f.rounds = stack[1].rounds
        /\ f.error = stack[1].error /\ f.id = stack[1].id /\ f.given = stack[1].given
        /\ f.alone = stack[1].alone /\ f.text = stack[1].text /\ f.body = stack[1].body
        /\ BeginsPage(f)
    BY <1>0 DEF Frame, BeginsPage
  <1>5. Mine(p, FALSE, ~flush)
    BY <1>0, <1>4, PieceMade
  <1> HIDE DEF f, p
  <1>6. p \in Piece /\ <<p>> \in Seq(Piece)
    BY <1>5 DEF Mine
  <1>7. g \in Frame /\ Like(g, f) /\ g.text = <<p>>
    <2>1. Like(g, f) /\ g.text = <<p>>
      BY <1>3, <1>6, LikeText
    <2> QED BY <2>1 DEF Like
  <1> HIDE DEF g
  <1>8. LoopFrame(f) /\ LoopFrame(g)
    BY <1>0, <1>4, <1>7 DEF LoopFrame, Like
  <1>9. CASE flush
    <2>1. Wrote([stack EXCEPT ![1] = f], <<p>>)
      BY <1>2, <1>9, Wrote1
    <2>2. TextStep(f, <<p>>)
      <3>1. p.last = FALSE /\ Mine(p, p.last, FALSE)
        BY <1>5, <1>9 DEF Mine
      <3> QED BY <1>1, <1>4, <3>1 DEF TextStep
    <2>3. GoesOn(f, <<p>>)
      BY <1>0, <1>1, <1>3, <1>4, <1>6, <1>8, <2>1, <2>2 DEF GoesOn
    <2> QED BY <1>4, <2>3
  <1>10. CASE ~flush
    <2>0. <<>> \in Seq(Piece)
      BY EmptySeq
    <2>1. Wrote([stack EXCEPT ![1] = g], <<>>)
      BY <1>2, <1>10 DEF Wrote
    <2>2. TextStep(g, <<>>)
      BY <1>0, <1>1, <1>4, <1>5, <1>7, <1>10 DEF TextStep, Like
    <2>3. g.id = f.id /\ g.given = f.given /\ g.alone = f.alone /\ g.error = f.error
      BY <1>7 DEF Like
    <2>4. GoesOn(g, <<>>)
      BY <1>0, <1>1, <1>4, <1>7, <1>8, <2>0, <2>1, <2>2, <2>3 DEF GoesOn
    <2>5. BeginsPage(g)
      BY <1>4, <1>7 DEF BeginsPage, Like
    <2> QED BY <2>4, <2>5
  <1> QED BY <1>9, <1>10

LEMMA ReturnsShape ==
  ASSUME TypeOK, LoopInv, ActionReturnsFalse \/ RenderReturns \/ DisplayReturns \/ RenderFails
  PROVE  \/ \E h, t : GoesOn(h, t) /\ h.pc = "postDispatch"
         \/ \E t : Leaves(t)
  <1> DEFINE f == stack[1]
  <1>0. /\ stack /= <<>> /\ f \in Frame /\ UNCHANGED <<slot, req, view>>
        /\ hist'.started = hist.started
    BY Types, VariableTypes DEF ActionReturnsFalse, RenderReturns, DisplayReturns, RenderFails,
                                At, Running, HistType
  <1>1. f.body \in Seq(Piece) /\ f.text \in Seq(Piece) /\ <<>> \in Seq(Piece)
    BY <1>0, FrameFields, EmptySeq
  <1>2. CASE ActionReturnsFalse
    <2>1. f.pc = "action" /\ HandleDone(f, <<>>) /\ SameCount
      BY <1>2 DEF ActionReturnsFalse, At, SameCount
    <2>2. f.text = <<>>
      BY <1>0, <2>1, NoBuffer
    <2>3. <<>> \o f.body = f.body
      BY <1>1, ConcatEmptySeq
    <2>4. TextStep(f, <<>>) /\ SendStep(<<>> \o f.body)
      BY <2>1, <2>3 DEF TextStep, SendStep
    <2> QED BY <1>0, <1>1, <2>1, <2>2, <2>4, HandleDoneShape
  <1>3. CASE RenderReturns
    <2> DEFINE p == NewPiece(f, TRUE, TRUE)
               b == f.body \o Append(f.text, p)
               g == [f EXCEPT !.body = b, !.text = <<>>]
    <2>1. f.pc = "render" /\ HandleDone(g, <<>>) /\ Counted
      BY <1>3, VariableTypes DEF RenderReturns, At, Counted, HistType
    <2>2. Mine(p, TRUE, TRUE)
      BY <1>0, <2>1, PieceMade
    <2>3. b \in Seq(Piece)
      <3>1. p \in Piece
        BY <2>2 DEF Mine
      <3>2. Append(f.text, p) \in Seq(Piece)
        BY <1>1, <3>1, AppendProperties
      <3> QED BY <1>1, <3>2, ConcatProperties
    <2> HIDE DEF p
    <2>5. b = f.body \o Append(f.text, p)
      OBVIOUS
    <2> HIDE DEF b
    <2>4. /\ g \in Frame /\ g.body = b /\ g.text = <<>>
          /\ g.nesting = f.nesting /\ g.rounds = f.rounds /\ g.error = f.error
          /\ g.id = f.id /\ g.given = f.given /\ g.alone = f.alone
      BY <1>0, <1>1, <2>3 DEF Frame
    <2> HIDE DEF g
    <2>6. <<>> \o g.body = g.body
      BY <2>3, <2>4, ConcatEmptySeq
    <2>7. TextStep(g, <<>>)
      BY <2>1, <2>2, <2>4, <2>5 DEF TextStep
    <2>8. SendStep(<<>> \o g.body)
      BY <2>1, <2>2, <2>4, <2>5, <2>6 DEF SendStep
    <2> QED BY <1>0, <1>1, <2>1, <2>4, <2>7, <2>8, HandleDoneShape
  <1>4. CASE DisplayReturns
    <2> DEFINE p == NewPiece(f, TRUE, FALSE)
    <2>1. f.pc = "render" /\ f.text = <<>> /\ HandleDone(f, <<p>>) /\ Counted
      BY <1>4, VariableTypes DEF DisplayReturns, At, Counted, HistType
    <2>2. Mine(p, TRUE, FALSE)
      BY <1>0, <2>1, PieceMade
    <2> HIDE DEF p
    <2>3. <<p>> \in Seq(Piece) /\ Mine(p, p.last, FALSE)
      BY <2>2 DEF Mine
    <2>4. TextStep(f, <<p>>)
      BY <2>1, <2>3 DEF TextStep
    <2>5. SendStep(<<p>> \o f.body)
      BY <2>1, <2>2 DEF SendStep
    <2> QED BY <1>0, <1>1, <2>1, <2>3, <2>4, <2>5, HandleDoneShape
  <1>5. CASE RenderFails
    <2> DEFINE t == IF f.error THEN f.body ELSE <<>>
    <2>1. Writes(Tail(stack), t) /\ SameCount /\ t \in Seq(Piece) /\ t \in {<<>>, f.body}
      BY <1>1, <1>5 DEF RenderFails, SameCount
    <2>2. Leaves(t)
      BY <1>0, <2>1, Wrote1 DEF Leaves, SendStep
    <2> QED BY <2>2
  <1> QED BY <1>2, <1>3, <1>4, <1>5

LEMMA DispatchShapes ==
  ASSUME TypeOK, LoopInv,
         \/ RouterStartupReturns \/ RouterShutdownReturns \/ LoopStartupReturns
         \/ PreDispatchReturns \/ PostDispatchReturns \/ LoopFails
  PROVE  \E h, t : GoesOn(h, t)
  <1> DEFINE f == stack[1]
  <1>0. /\ stack /= <<>> /\ f \in Frame /\ LoopFrame(f) /\ f.text = <<>>
        /\ UNCHANGED <<slot, out, hist>>
    BY Types, NoBuffer DEF RouterStartupReturns, RouterShutdownReturns, LoopStartupReturns,
         PreDispatchReturns, PostDispatchReturns, LoopFails, At, Running, LoopInv
  <1>1. ASSUME NEW pc \in Hooks \cup {"failed"}, stack' = [stack EXCEPT ![1].pc = pc],
               \/ /\ f.pc \in {"routerStartup", "routerShutdown"}
                  /\ pc \in {"routerShutdown", "dispatchLoopStartup"}
               \/ f.pc = "dispatchLoopStartup" /\ pc = "preDispatch"
               \/ f.pc = "dispatchLoopShutdown" /\ pc = "failed"
        PROVE  \E h, t : GoesOn(h, t)
    <2> DEFINE g == [f EXCEPT !.pc = pc]
    <2>1. stack' = [stack EXCEPT ![1] = g]
      BY <1>1
    <2>2. /\ g \in Frame /\ g.pc = pc /\ g.nesting = f.nesting /\ g.rounds = f.rounds
          /\ g.error = f.error /\ g.id = f.id /\ g.given = f.given /\ g.alone = f.alone
          /\ g.text = f.text /\ g.body = f.body
      BY <1>0, <1>1 DEF Frame
    <2> HIDE DEF g
    <2>3. LoopFrame(g)
      BY <1>0, <1>1, <2>2, NestedAssumption DEF LoopFrame
    <2> QED BY <1>0, <2>1, <2>2, <2>3, MovesShape DEF SameCount
  <1>2. CASE RouterStartupReturns \/ RouterShutdownReturns
    <2>1. \E pc \in {"routerShutdown", "dispatchLoopStartup"} : stack' = [stack EXCEPT ![1].pc = pc]
      BY <1>2 DEF RouterStartupReturns, RouterShutdownReturns
    <2>2. f.pc \in {"routerStartup", "routerShutdown"}
      BY <1>2 DEF RouterStartupReturns, RouterShutdownReturns, At
    <2> QED BY <1>1, <2>1, <2>2 DEF Hooks
  <1>3. CASE LoopStartupReturns
    BY <1>1, <1>3 DEF LoopStartupReturns, At, Hooks
  <1>4. CASE LoopFails
    BY <1>1, <1>4 DEF LoopFails, At
  <1>5. CASE PreDispatchReturns
    <2>1. Handles(FALSE, f.rounds + 1) /\ f.pc = "preDispatch" /\ f.rounds \in Nat
      BY <1>0, <1>5 DEF PreDispatchReturns, At, Frame
    <2>3. f.nesting \in 0 .. ForwardLimit /\ f.nesting > 0 /\ f.rounds + f.nesting = ForwardLimit
      BY <1>0, <2>1 DEF LoopFrame, Frame
    <2>2. /\ f.rounds + 1 \in Nat /\ f.rounds + 1 <= ForwardLimit
          /\ (f.rounds + 1) + f.nesting = ForwardLimit + 1
      BY <2>1, <2>3, Types
    <2> QED BY <1>0, <2>1, <2>2, <2>3, HandlesShape DEF SameCount
  <1>6. CASE PostDispatchReturns
    <2> DEFINE g == [f EXCEPT !.nesting = f.nesting - 1, !.served = req[f.given].dispatched,
                              !.pc = IF NextRound(f.nesting) THEN "preDispatch"
                                     ELSE "dispatchLoopShutdown"]
    <2>1. stack' = [stack EXCEPT ![1] = g] /\ f.pc = "postDispatch"
      BY <1>6 DEF PostDispatchReturns, At
    <2>2. /\ f.nesting > 0 /\ f.rounds + f.nesting = ForwardLimit + 1 /\ ~f.error
          /\ f.nesting \in 0 .. ForwardLimit /\ f.rounds \in Nat /\ f.rounds <= ForwardLimit
      BY <1>0, <2>1 DEF LoopFrame, Frame
    <2>3. f.nesting - 1 \in 0 .. ForwardLimit /\ req[f.given].dispatched \in BOOLEAN
      <3>1. f.nesting - 1 \in 0 .. ForwardLimit
        BY <2>2, Types
      <3>2. f.given \in Requests
        BY <1>0 DEF Frame
      <3> QED BY <3>1, <3>2, Types DEF Request
    <2>4. g \in Frame
      BY <1>0, <2>3 DEF Frame, Hooks
    <2>5. /\ g.nesting = f.nesting - 1 /\ g.rounds = f.rounds
          /\ g.error = f.error /\ g.id = f.id /\ g.given = f.given /\ g.alone = f.alone
          /\ g.text = f.text /\ g.body = f.body
          /\ g.pc = IF NextRound(f.nesting) THEN "preDispatch" ELSE "dispatchLoopShutdown"
      BY <1>0 DEF Frame
    <2> HIDE DEF g
    <2>6. g.nesting > 0 \/ g.pc = "dispatchLoopShutdown"
      BY <2>2, <2>5 DEF NextRound
    <2>7. LoopFrame(g)
      BY <1>0, <2>2, <2>5, <2>6, Types, SMTT(30) DEF LoopFrame
    <2> QED BY <1>0, <2>1, <2>2, <2>4, <2>5, <2>7, MovesShape DEF SameCount
  <1> QED BY <1>2, <1>3, <1>4, <1>5, <1>6

LEMMA EndShapes ==
  ASSUME TypeOK, LoopInv, DispatchReturns \/ ExceptionLeaves \/ ErrorControllerThrew
  PROVE  \E t : Leaves(t)
  <1>0. /\ stack /= <<>> /\ UNCHANGED <<slot, req, view>> /\ hist'.started = hist.started
        /\ SameCount
    BY VariableTypes DEF DispatchReturns, ExceptionLeaves, ErrorControllerThrew, At, Running,
                         HistType, SameCount
  <1>1. stack[1].body \in Seq(Piece) /\ <<>> \in Seq(Piece)
    BY <1>0, FrameFields, EmptySeq
  <1>2. CASE DispatchReturns \/ ErrorControllerThrew
    <2>1. Wrote(Tail(stack), stack[1].body)
      BY <1>2, Wrote1 DEF DispatchReturns, ErrorControllerThrew
    <2>2. Leaves(stack[1].body)
      BY <1>0, <1>1, <2>1 DEF Leaves, SendStep
    <2> QED BY <2>2
  <1>3. CASE ExceptionLeaves
    <2>1. Wrote(Tail(stack), <<>>)
      BY <1>3 DEF ExceptionLeaves, Wrote
    <2>2. Leaves(<<>>)
      BY <1>0, <1>1, <2>1 DEF Leaves, SendStep
    <2> QED BY <2>2
  <1> QED BY <1>2, <1>3

LEMMA HandlerShape ==
  ASSUME TypeOK, LoopInv, HandlerRuns
  PROVE  \E h, t : GoesOn(h, t)
  <1>1. /\ stack /= <<>> /\ Handles(TRUE, stack[1].rounds) /\ UNCHANGED <<slot, out>>
        /\ hist'.started = hist.started /\ SameCount
    BY VariableTypes DEF HandlerRuns, HistType, SameCount
  <1>2. stack[1].rounds \in Nat /\ stack[1].rounds <= ForwardLimit
    BY <1>1, FrameFields, Types DEF LoopInv, LoopFrame
  <1> QED BY <1>1, <1>2, HandlesShape

\* setModuleName() leaves a mark in the history only.
LEMMA SetModuleShape ==
  ASSUME TypeOK, LoopInv, SetModule
  PROVE  \E h, t : GoesOn(h, t)
  <1> DEFINE f == stack[1]
             g == [f EXCEPT !.quiet = f.quiet /\ f.pc /= "init"]
  <1>0. /\ stack /= <<>> /\ f \in Frame /\ LoopFrame(f) /\ UNCHANGED <<slot, out>>
        /\ hist'.started = hist.started /\ SameCount
    BY Types, VariableTypes DEF SetModule, Running, LoopInv, HistType, SameCount
  <1>1. stack' = [stack EXCEPT ![1] = g]
    BY DEF SetModule
  <1>2. (f.quiet /\ f.pc /= "init") \in BOOLEAN
    OBVIOUS
  <1>3. /\ g \in Frame /\ g.pc = f.pc /\ g.nesting = f.nesting /\ g.rounds = f.rounds
        /\ g.error = f.error /\ g.id = f.id /\ g.given = f.given /\ g.alone = f.alone
        /\ g.text = f.text /\ g.body = f.body
    BY <1>0, <1>2, Zenon DEF Frame
  <1> HIDE DEF g
  <1>4. LoopFrame(g)
    BY <1>0, <1>3 DEF LoopFrame
  <1> QED BY <1>0, <1>1, <1>3, <1>4, MovesShape

\* Every step is of one of the four shapes.
LEMMA Shapes ==
  ASSUME TypeOK, LoopInv, [Next]_vars
  PROVE  (\E r \in Requests : Enter(r)) \/ Stays \/ (\E g, t : GoesOn(g, t)) \/ (\E t : Leaves(t))
  <1>1. CASE Forward \/ Throw \/ Catch \/ UNCHANGED vars
    <2>1. hist'.started = hist.started /\ SameCount
      BY <1>1, VariableTypes DEF Forward, Throw, Catch, vars, HistType, SameCount
    <2> QED BY <1>1, <2>1 DEF Forward, Throw, Catch, vars, Stays
  <1> QED BY <1>1, InitShape, ActionRendersShape, ReturnsShape, DispatchShapes, EndShapes,
             HandlerShape, SetModuleShape DEF Next

-----------------------------------------------------------------------------
(* Types, and the counter of the loop *)

\* The frame of a dispatch that begins.
FirstFrame(r) ==
  [pc |-> IF req[r].routed THEN "dispatchLoopStartup" ELSE "routerStartup",
   error |-> FALSE, nesting |-> ForwardLimit, owner |-> r, default |-> FALSE,
   dir |-> view, body |-> <<>>, text |-> <<>>, id |-> hist.started + 1, given |-> r,
   rounds |-> 0, module |-> req[r].module, quiet |-> TRUE, alone |-> TRUE,
   served |-> FALSE]

LEMMA Entered ==
  ASSUME TypeOK, NEW r \in Requests, Enter(r)
  PROVE  /\ FirstFrame(r) \in Frame
         /\ stack' = <<FirstFrame(r)>> \o Outers(stack)
         /\ stack' \in Seq(Frame) /\ stack' /= <<>> /\ stack'[1] = FirstFrame(r)
         /\ hist' \in HistType /\ hist' = [hist EXCEPT !.started = hist.started + 1]
         /\ hist'.started = hist.started + 1 /\ hist.started \in Nat
  <1>1. hist.started < MaxDispatches /\ hist' = [hist EXCEPT !.started = hist.started + 1]
    BY DEF Enter
  <1>2. hist \in HistType /\ MaxDispatches \in Nat
    BY VariableTypes, NestedAssumption
  <1>3. /\ hist.started + 1 \in 0 .. MaxDispatches /\ hist.started + 1 \in 1 .. MaxDispatches
        /\ hist.started \in Nat
    BY <1>1, <1>2 DEF HistType
  <1>4. hist' \in HistType /\ hist'.started = hist.started + 1
    BY <1>1, <1>2, <1>3 DEF HistType
  <1>5. FirstFrame(r) \in Frame
    BY <1>3, Types, EmptySeq DEF Frame, FirstFrame, Request, Hooks
  <1>6. stack' = <<FirstFrame(r)>> \o Outers(stack)
    BY <1>4 DEF Enter, Outers, Outer, FirstFrame
  <1>7. stack \in Seq(Frame)
    BY Types
  <1>8. stack' \in Seq(Frame) /\ stack' /= <<>> /\ stack'[1] = FirstFrame(r)
    BY <1>5, <1>6, <1>7, Pushed
  <1> QED BY <1>1, <1>3, <1>4, <1>5, <1>6, <1>8

LEMMA EnteredBelow ==
  ASSUME TypeOK, NEW r \in Requests, Enter(r)
  PROVE  \A i \in DOMAIN stack' : i /= 1 =>
           i - 1 \in DOMAIN stack /\ stack'[i] = Outer(stack[i - 1])
  <1>1. stack \in Seq(Frame)
    BY Types
  <1>2. FirstFrame(r) \in Frame /\ stack' = <<FirstFrame(r)>> \o Outers(stack)
    BY Entered
  <1> QED BY <1>1, <1>2, PushedBelow

\* The innermost dispatch goes on: the frames as they are before the step writes.
LEMMA Going ==
  ASSUME TypeOK, NEW g, NEW t, GoesOn(g, t), NEW s, s = [stack EXCEPT ![1] = g]
  PROVE  /\ s \in Seq(Frame) /\ s /= <<>> /\ s[1] = g /\ DOMAIN s = DOMAIN stack /\ 1 \in DOMAIN s
         /\ \A i \in DOMAIN s : i /= 1 => s[i] = stack[i]
         /\ t \in Seq(Piece) /\ Wrote(s, t)
  <1>1. stack \in Seq(Frame) /\ stack /= <<>> /\ g \in Frame
    BY Types DEF GoesOn
  <1> QED BY <1>1, Changed DEF GoesOn

\* The innermost frame after a step that keeps it.
LEMMA Gone ==
  ASSUME TypeOK, NEW g, NEW t, GoesOn(g, t)
  PROVE  /\ stack' \in Seq(Frame) /\ out' \in Seq(Piece) /\ DOMAIN stack' = DOMAIN stack
         /\ stack' /= <<>> /\ 1 \in DOMAIN stack'
         /\ Like(stack'[1], g) /\ Buffers(stack'[1], g, t)
         /\ \A i \in DOMAIN stack : i /= 1 => Like(stack'[i], stack[i]) /\ Buffers(stack'[i], stack[i], t)
  <1> DEFINE s == [stack EXCEPT ![1] = g]
  <1>1. /\ s \in Seq(Frame) /\ s[1] = g /\ DOMAIN s = DOMAIN stack /\ 1 \in DOMAIN s
        /\ \A i \in DOMAIN s : i /= 1 => s[i] = stack[i]
        /\ t \in Seq(Piece) /\ Wrote(s, t) /\ out \in Seq(Piece)
    BY Going, Types
  <1> HIDE DEF s
  <1>2. /\ stack' \in Seq(Frame) /\ out' \in Seq(Piece) /\ DOMAIN stack' = DOMAIN s
        /\ \A i \in DOMAIN s : Like(stack'[i], s[i]) /\ Buffers(stack'[i], s[i], t)
    BY <1>1, Written
  <1>3. stack' /= <<>>
    BY <1>1, <1>2
  <1> QED BY <1>1, <1>2, <1>3

\* The frames after a step that ends the innermost dispatch.
LEMMA Left ==
  ASSUME TypeOK, NEW t, Leaves(t)
  PROVE  /\ stack' \in Seq(Frame) /\ out' \in Seq(Piece)
         /\ \A i \in DOMAIN stack' : /\ i + 1 \in DOMAIN stack /\ i \in Nat \ {0}
                                     /\ Like(stack'[i], stack[i + 1])
                                     /\ Buffers(stack'[i], stack[i + 1], t)
         /\ stack' /= <<>> => 2 \in DOMAIN stack /\ Like(stack'[1], stack[2])
  <1> DEFINE s == Tail(stack)
  <1>0. stack \in Seq(Frame) /\ stack /= <<>>
    BY Types DEF Leaves
  <1>1. /\ s \in Seq(Frame)
        /\ \A i \in DOMAIN s : i + 1 \in DOMAIN stack /\ s[i] = stack[i + 1] /\ i \in Nat \ {0}
        /\ t \in Seq(Piece) /\ Wrote(s, t) /\ out \in Seq(Piece)
    BY <1>0, Popped, Types DEF Leaves
  <1> HIDE DEF s
  <1>2. /\ stack' \in Seq(Frame) /\ out' \in Seq(Piece) /\ DOMAIN stack' = DOMAIN s
        /\ \A i \in DOMAIN s : Like(stack'[i], s[i]) /\ Buffers(stack'[i], s[i], t)
    BY <1>1, Written
  <1>3. \A i \in DOMAIN stack' : /\ i + 1 \in DOMAIN stack /\ i \in Nat \ {0}
                                 /\ Like(stack'[i], stack[i + 1])
                                 /\ Buffers(stack'[i], stack[i + 1], t)
    BY <1>1, <1>2
  <1>4. stack' /= <<>> => 1 \in DOMAIN stack'
    BY <1>2
  <1> QED BY <1>2, <1>3, <1>4

LEMMA StackTypes ==
  ASSUME TypeOK, LoopInv, [Next]_vars
  PROVE  stack' \in Seq(Frame) /\ out' \in Seq(Piece) /\ LoopInv'
  <1>0. stack \in Seq(Frame) /\ out \in Seq(Piece)
    BY Types
  <1>1. ASSUME NEW r \in Requests, Enter(r)
        PROVE  stack' \in Seq(Frame) /\ out' \in Seq(Piece) /\ LoopInv'
    <2>1. LoopFrame(FirstFrame(r))
      BY Types DEF LoopFrame, FirstFrame
    <2>2. ASSUME NEW j \in DOMAIN stack
          PROVE  LoopFrame(Outer(stack[j]))
      <3>1. stack[j] \in Frame /\ LoopFrame(stack[j])
        BY Types DEF LoopInv
      <3> QED BY <3>1, OuterFrame DEF LoopFrame
    <2>3. LoopInv'
      BY <1>1, <2>1, <2>2, Entered, EnteredBelow DEF LoopInv
    <2>4. out' = out
      BY <1>1 DEF Enter
    <2> QED BY <1>0, <1>1, <2>3, <2>4, Entered
  <1>2. CASE Stays
    BY <1>0, <1>2 DEF Stays, LoopInv
  <1>3. ASSUME NEW g, NEW t, GoesOn(g, t)
        PROVE  stack' \in Seq(Frame) /\ out' \in Seq(Piece) /\ LoopInv'
    <2>1. \A i \in DOMAIN stack' : LoopFrame(stack'[i])
      <3>1. LoopFrame(g) /\ \A i \in DOMAIN stack : LoopFrame(stack[i])
        BY <1>3 DEF GoesOn, LoopInv
      <3> QED BY <1>3, <3>1, Gone, LoopLike
    <2> QED BY <1>3, <2>1, Gone DEF LoopInv
  <1>4. ASSUME NEW t, Leaves(t)
        PROVE  stack' \in Seq(Frame) /\ out' \in Seq(Piece) /\ LoopInv'
    <2>1. \A i \in DOMAIN stack' : LoopFrame(stack'[i])
      <3>1. \A i \in DOMAIN stack : LoopFrame(stack[i])
        BY DEF LoopInv
      <3> QED BY <1>4, <3>1, Left, LoopLike
    <2> QED BY <1>4, <2>1, Left DEF LoopInv
  <1> QED BY <1>1, <1>2, <1>3, <1>4, Shapes

\* What has to be shown of the other variables.
RestTypes ==
  /\ slot' \in Requests /\ view' \in Modules /\ req' \in [Requests -> Request]
  /\ exc' \in BOOLEAN /\ inException' \in BOOLEAN /\ hist' \in HistType

LEMMA HandlesRequests ==
  ASSUME TypeOK, NEW e, NEW n, Handles(e, n)
  PROVE  req' \in [Requests -> Request]
  BY Types DEF Handles, Request

LEMMA PhpTypes ==
  ASSUME TypeOK, Forward \/ SetModule \/ Throw \/ Catch \/ UNCHANGED vars
  PROVE  RestTypes
  <1>1. UNCHANGED <<slot, view, inException>> /\ exc' \in BOOLEAN
    BY VariableTypes DEF Forward, SetModule, Throw, Catch, vars
  <1>2. CASE Forward \/ SetModule
    <2>1. \E m \in Modules :
            \/ req' = [req EXCEPT ![RequestAtHand].module = m, ![RequestAtHand].dispatched = FALSE]
            \/ req' = [req EXCEPT ![RequestAtHand].module = m]
      BY <1>2 DEF Forward, SetModule
    <2>2. req' \in [Requests -> Request]
      BY <2>1, Types DEF Request
    <2>3. hist' \in HistType
      <3>1. hist' = [hist EXCEPT !.forwards = hist.forwards + 1] /\ hist.forwards < MaxForwards
        BY <1>2 DEF Forward, SetModule
      <3>2. hist \in HistType /\ hist.forwards + 1 \in 0 .. MaxForwards
        BY <3>1, VariableTypes, NestedAssumption DEF HistType
      <3> QED BY <3>1, <3>2 DEF HistType
    <2> QED BY <1>1, <2>2, <2>3, Types, VariableTypes DEF RestTypes
  <1>3. CASE Throw \/ Catch \/ UNCHANGED vars
    BY <1>1, <1>3, Types, VariableTypes DEF Throw, Catch, vars, RestTypes
  <1> QED BY <1>2, <1>3

LEMMA HandleTypes ==
  ASSUME TypeOK,
         \/ InitReturns \/ (\E flush \in BOOLEAN : ActionRenders(flush)) \/ ActionReturnsFalse
         \/ RenderReturns \/ DisplayReturns \/ RenderFails
  PROVE  RestTypes
  <1>0. hist \in HistType /\ hist.pieces + 1 \in Nat /\ MaxShown \in Nat
    BY VariableTypes, NestedAssumption DEF HistType
  <1>1. CASE InitReturns
    <2>1. UNCHANGED <<slot, exc, inException, hist>>
      BY <1>1 DEF InitReturns
    <2>2. req' \in [Requests -> Request] /\ view' \in Modules
      <3>1. CASE ~req[slot].dispatched
        BY <1>1, <3>1, HandlesRequests, Types DEF InitReturns
      <3>2. CASE req[slot].dispatched
        <4>1. stack[1] \in Frame
          BY <1>1, Types DEF InitReturns, At, Running
        <4>2. ViewDir(stack[1]) \in Modules
          BY <4>1, Types DEF ViewDir, Frame, Request
        <4> QED BY <1>1, <3>2, <4>2, Types DEF InitReturns
      <3> QED BY <3>1, <3>2
    <2> QED BY <2>1, <2>2, Types, VariableTypes DEF RestTypes
  <1>2. ASSUME NEW flush \in BOOLEAN, ActionRenders(flush)
        PROVE  RestTypes
    <2>1. /\ hist' = [hist EXCEPT !.pieces = hist.pieces + 1,
                                  !.shown = IF flush THEN hist.shown + 1 ELSE hist.shown]
          /\ flush => hist.shown < MaxShown
          /\ UNCHANGED <<slot, req, view, exc, inException>>
      BY <1>2 DEF ActionRenders
    <2>2. (IF flush THEN hist.shown + 1 ELSE hist.shown) \in 0 .. MaxShown
      BY <1>0, <2>1 DEF HistType
    <2>3. hist' \in HistType
      BY <1>0, <2>1, <2>2 DEF HistType
    <2> QED BY <2>1, <2>3, Types, VariableTypes DEF RestTypes
  <1>3. CASE ActionReturnsFalse \/ RenderFails
    BY <1>3, Types, VariableTypes DEF ActionReturnsFalse, RenderFails, RestTypes
  <1>4. CASE RenderReturns \/ DisplayReturns
    <2>1. hist' \in HistType
      BY <1>0, <1>4 DEF RenderReturns, DisplayReturns, HistType
    <2> QED BY <1>4, <2>1, Types, VariableTypes DEF RenderReturns, DisplayReturns, RestTypes
  <1> QED BY <1>1, <1>2, <1>3, <1>4

LEMMA DispatchTypes ==
  ASSUME TypeOK,
         \/ RouterStartupReturns \/ RouterShutdownReturns \/ LoopStartupReturns
         \/ PreDispatchReturns \/ PostDispatchReturns \/ LoopFails \/ DispatchReturns
         \/ HandlerRuns \/ ExceptionLeaves \/ ErrorControllerThrew
  PROVE  RestTypes
  <1>1. CASE RouterStartupReturns \/ RouterShutdownReturns
    <2>0. PICK m \in Modules :
            \/ req' = [req EXCEPT ![slot].module = m, ![slot].routed = TRUE]
            \/ req' = [req EXCEPT ![slot].routed = TRUE]
      BY <1>1, Types DEF RouterStartupReturns, RouterShutdownReturns
    <2>1. req' \in [Requests -> Request]
      BY <2>0, Types DEF Request
    <2> QED BY <1>1, <2>1, Types, VariableTypes
            DEF RouterStartupReturns, RouterShutdownReturns, RestTypes
  <1>2. CASE PreDispatchReturns
    <2>1. req' \in [Requests -> Request]
      BY <1>2, HandlesRequests DEF PreDispatchReturns
    <2> QED BY <1>2, <2>1, Types, VariableTypes DEF PreDispatchReturns, RestTypes
  <1>3. CASE HandlerRuns
    <2>1. req' \in [Requests -> Request]
      BY <1>3, HandlesRequests DEF HandlerRuns
    <2>2. hist' \in HistType
      BY <1>3, VariableTypes DEF HandlerRuns, HistType
    <2> QED BY <1>3, <2>1, <2>2, Types, VariableTypes DEF HandlerRuns, RestTypes
  <1>4. CASE DispatchReturns
    <2>1. hist' \in HistType
      <3>1. stack[1] \in Frame
        BY <1>4, Types DEF DispatchReturns, At, Running
      <3>2. [given |-> stack[1].given, alone |-> stack[1].alone] \in [given : Requests, alone : BOOLEAN]
        BY <3>1 DEF Frame
      <3> QED BY <1>4, <3>2, VariableTypes DEF DispatchReturns, HistType
    <2> QED BY <1>4, <2>1, Types, VariableTypes DEF DispatchReturns, RestTypes
  <1>5. CASE LoopStartupReturns \/ PostDispatchReturns \/ LoopFails \/ ExceptionLeaves
              \/ ErrorControllerThrew
    BY <1>5, Types, VariableTypes DEF LoopStartupReturns, PostDispatchReturns, LoopFails,
         ExceptionLeaves, ErrorControllerThrew, RestTypes
  <1> QED BY <1>1, <1>2, <1>3, <1>4, <1>5

LEMMA TypeStep ==
  ASSUME TypeOK, LoopInv, [Next]_vars
  PROVE  TypeOK' /\ LoopInv'
  <1>1. ASSUME NEW r \in Requests, Enter(r)
        PROVE  RestTypes
    <2>1. slot' = r /\ UNCHANGED <<req, view, exc, inException>>
      BY <1>1 DEF Enter
    <2> QED BY <1>1, <2>1, Entered, Types, VariableTypes DEF RestTypes
  <1>2. RestTypes
    BY <1>1, PhpTypes, HandleTypes, DispatchTypes DEF Next
  <1>3. stack' \in Seq(Frame) /\ out' \in Seq(Piece) /\ LoopInv'
    BY StackTypes
  <1> QED BY <1>2, <1>3 DEF RestTypes, TypeOK, HistType, Request

LEMMA TypeInit ==
  ASSUME Init
  PROVE  TypeOK /\ LoopInv
  <1>1. stack = <<>> /\ out = <<>> /\ <<>> \in Seq(Frame) /\ <<>> \in Seq(Piece)
    BY EmptySeq DEF Init
  <1>2. req \in [Requests -> [module : Modules, routed : BOOLEAN, dispatched : BOOLEAN]]
    BY NestedAssumption DEF Init
  <1>3. hist \in HistType
    BY NestedAssumption DEF Init, HistType
  <1>4. slot \in Requests /\ view \in Modules /\ exc = FALSE /\ inException = FALSE
    BY NestedAssumption DEF Init
  <1>5. LoopInv
    BY <1>1 DEF LoopInv
  <1> QED BY <1>1, <1>2, <1>3, <1>4, <1>5 DEF TypeOK, HistType

\* Every variable of the stack of dispatches keeps its type, and in every frame
\* the counter of the loop and the rounds made add up.
THEOREM NestedTypes == Spec => [](TypeOK /\ LoopInv)
  BY TypeInit, TypeStep, PTL DEF Spec

-----------------------------------------------------------------------------
(* The exception handler *)

\* A frame that is in the handler after a step was there before, or has just
\* claimed it.
LEMMA ErrorFrames ==
  ASSUME TypeOK, LoopInv, [Next]_vars, ~HandlerRuns, NEW i \in DOMAIN stack', stack'[i].error
  PROVE  \E j \in DOMAIN stack : stack[j].error
  <1>0. stack \in Seq(Frame)
    BY Types
  <1>1. ASSUME NEW r \in Requests, Enter(r)
        PROVE  \E j \in DOMAIN stack : stack[j].error
    <2>0. stack'[1] = FirstFrame(r) /\ FirstFrame(r).error = FALSE
      BY <1>1, Entered DEF FirstFrame
    <2>1. i /= 1
      BY <2>0
    <2>2. i - 1 \in DOMAIN stack /\ stack'[i] = Outer(stack[i - 1])
      BY <1>1, <2>1, EnteredBelow
    <2>3. stack[i - 1].error
      BY <1>0, <2>2, OuterFrame
    <2> QED BY <2>2, <2>3
  <1>2. CASE Stays
    BY <1>2 DEF Stays
  <1>3. ASSUME NEW g, NEW t, GoesOn(g, t)
        PROVE  \E j \in DOMAIN stack : stack[j].error
    <2>1. stack /= <<>> /\ (g.error => stack[1].error) /\ 1 \in DOMAIN stack
      BY <1>3, Types DEF GoesOn
    <2>2. i \in DOMAIN stack /\ IF i = 1 THEN Like(stack'[i], g) ELSE Like(stack'[i], stack[i])
      BY <1>3, Gone
    <2> QED BY <2>1, <2>2 DEF Like
  <1>4. ASSUME NEW t, Leaves(t)
        PROVE  \E j \in DOMAIN stack : stack[j].error
    <2>1. i + 1 \in DOMAIN stack /\ Like(stack'[i], stack[i + 1])
      BY <1>4, Left
    <2> QED BY <2>1 DEF Like
  <1> QED BY <1>1, <1>2, <1>3, <1>4, Shapes

\* The stack gets empty by a dispatch that ends.
LEMMA LastLeaves ==
  ASSUME TypeOK, LoopInv, [Next]_vars, stack' = <<>>
  PROVE  stack' = stack \/ DispatchReturns \/ ExceptionLeaves \/ ErrorControllerThrew
           \/ ActionReturnsFalse \/ RenderReturns \/ DisplayReturns \/ RenderFails
  <1>1. ASSUME NEW r \in Requests, Enter(r)
        PROVE  FALSE
    BY <1>1, Entered
  <1>2. ASSUME NEW h, NEW t, GoesOn(h, t)
        PROVE  FALSE
    BY <1>2, Gone
  <1>3. CASE InitReturns \/ (\E flush \in BOOLEAN : ActionRenders(flush))
             \/ RouterStartupReturns \/ RouterShutdownReturns \/ LoopStartupReturns
             \/ PreDispatchReturns \/ PostDispatchReturns \/ LoopFails \/ HandlerRuns \/ SetModule
    BY <1>2, <1>3, InitShape, ActionRendersShape, DispatchShapes, HandlerShape, SetModuleShape
  <1>4. CASE Forward \/ Throw \/ Catch \/ UNCHANGED vars
    BY <1>4 DEF Forward, Throw, Catch, vars
  <1> QED BY <1>1, <1>3, <1>4 DEF Next

LEMMA HandlerStep ==
  ASSUME TypeOK, LoopInv, HandlerInv, [Next]_vars
  PROVE  HandlerInv'
  <1>0. exc \in BOOLEAN /\ inException \in BOOLEAN /\ hist \in HistType
    BY VariableTypes
  <1>1. CASE HandlerRuns
    <2>1. inException' = TRUE /\ inException = FALSE /\ hist' = [hist EXCEPT !.handlers = @ + 1]
      BY <1>0, <1>1 DEF HandlerRuns, HandlerFree
    <2>2. hist'.handlers = 1
      BY <1>0, <2>1 DEF HandlerInv, HistType
    <2> QED BY <2>1, <2>2 DEF HandlerInv
  <1>2. CASE ~HandlerRuns
    <2>1. inException' = inException /\ hist'.handlers = hist.handlers
      BY <1>0, <1>2 DEF Next, vars, HistType, Enter, Forward, SetModule, Throw, Catch,
        RouterStartupReturns, RouterShutdownReturns, LoopStartupReturns, PreDispatchReturns,
        PostDispatchReturns, LoopFails, DispatchReturns, InitReturns, ActionRenders,
        ActionReturnsFalse, RenderReturns, DisplayReturns, RenderFails, ExceptionLeaves,
        ErrorControllerThrew
    <2>2. \A i \in DOMAIN stack' : stack'[i].error => inException'
      BY <1>2, <2>1, ErrorFrames DEF HandlerInv
    <2>3. exc' /\ stack' = <<>> => inException'
      <3> SUFFICES ASSUME exc', stack' = <<>>
                   PROVE  inException'
        OBVIOUS
      <3>1. CASE ExceptionLeaves
        BY <2>1, <3>1 DEF ExceptionLeaves, HandlerFree
      <3>2. CASE ErrorControllerThrew
        <4>1. 1 \in DOMAIN stack /\ stack[1].error
          BY <3>2, Types DEF ErrorControllerThrew
        <4> QED BY <2>1, <4>1 DEF HandlerInv
      <3>3. CASE DispatchReturns \/ ActionReturnsFalse \/ RenderReturns \/ DisplayReturns \/ RenderFails
        BY <3>3 DEF DispatchReturns, ActionReturnsFalse, RenderReturns, DisplayReturns,
                    RenderFails, At, Running
      <3>4. CASE stack' = stack
        <4>1. stack = <<>>
          BY <3>4
        <4>2. exc
          BY <1>2, <4>1 DEF Next, vars, Enter, Forward, SetModule, Throw, Catch,
            RouterStartupReturns, RouterShutdownReturns, LoopStartupReturns, PreDispatchReturns,
            PostDispatchReturns, LoopFails, DispatchReturns, InitReturns, ActionRenders,
            ActionReturnsFalse, RenderReturns, DisplayReturns, RenderFails, ExceptionLeaves,
            ErrorControllerThrew, At, Running
        <4> QED BY <2>1, <4>1, <4>2 DEF HandlerInv
      <3> QED BY <3>1, <3>2, <3>3, <3>4, LastLeaves
    <2> QED BY <2>1, <2>2, <2>3, SMTT(30) DEF HandlerInv
  <1> QED BY <1>1, <1>2

LEMMA HandlerInit ==
  ASSUME Init
  PROVE  HandlerInv
  BY DEF Init, HandlerInv

LEMMA HandlerInvImplies ==
  ASSUME HandlerInv
  PROVE  HandlerOnceForAll
  BY DEF HandlerInv, HandlerOnceForAll

-----------------------------------------------------------------------------
(* Texts *)

LEMMA Joined ==
  ASSUME NEW s \in Seq(Piece), NEW t \in Seq(Piece), NEW u, u = s \o t
  PROVE  /\ u \in Seq(Piece) /\ DOMAIN u = 1 .. Len(s) + Len(t)
         /\ DOMAIN s = 1 .. Len(s) /\ DOMAIN t = 1 .. Len(t) /\ Len(s) \in Nat /\ Len(t) \in Nat
         /\ \A k \in DOMAIN s : k \in DOMAIN u /\ u[k] = s[k]
         /\ \A k \in DOMAIN t : Len(s) + k \in DOMAIN u /\ u[Len(s) + k] = t[k]
         /\ \A k \in DOMAIN u :
              \/ k \in DOMAIN s /\ u[k] = s[k]
              \/ k - Len(s) \in DOMAIN t /\ k > Len(s) /\ u[k] = t[k - Len(s)]
  <1>1. /\ u \in Seq(Piece) /\ Len(u) = Len(s) + Len(t)
        /\ \A k \in 1 .. Len(s) + Len(t) : u[k] = IF k <= Len(s) THEN s[k] ELSE t[k - Len(s)]
    BY ConcatProperties
  <1>2. /\ DOMAIN u = 1 .. Len(s) + Len(t) /\ DOMAIN s = 1 .. Len(s) /\ DOMAIN t = 1 .. Len(t)
        /\ Len(s) \in Nat /\ Len(t) \in Nat
    BY <1>1, LenProperties
  <1>3. \A k \in DOMAIN s : k \in DOMAIN u /\ u[k] = s[k]
    BY <1>1, <1>2
  <1>4. ASSUME NEW k \in DOMAIN t
        PROVE  Len(s) + k \in DOMAIN u /\ u[Len(s) + k] = t[k]
    <2>1. Len(s) + k \in 1 .. Len(s) + Len(t) /\ ~(Len(s) + k <= Len(s)) /\ (Len(s) + k) - Len(s) = k
      BY <1>2
    <2> QED BY <1>1, <1>2, <2>1
  <1>5. ASSUME NEW k \in DOMAIN u
        PROVE  \/ k \in DOMAIN s /\ u[k] = s[k]
               \/ k - Len(s) \in DOMAIN t /\ k > Len(s) /\ u[k] = t[k - Len(s)]
    <2>1. CASE k <= Len(s)
      BY <1>1, <1>2, <2>1
    <2>2. CASE ~(k <= Len(s))
      <3>1. k - Len(s) \in DOMAIN t /\ k > Len(s)
        BY <1>2, <2>2
      <3> QED BY <1>1, <1>2, <2>2, <3>1
    <2> QED BY <2>1, <2>2
  <1> QED BY <1>1, <1>2, <1>3, <1>4, <1>5

LEMMA KeptJoined ==
  ASSUME NEW s \in Seq(Piece), NEW t \in Seq(Piece)
  PROVE  KeptOf(s \o t) = KeptOf(s) \cup KeptOf(t)
  <1> DEFINE u == s \o t
  <1>0. /\ \A k \in DOMAIN s : k \in DOMAIN u /\ u[k] = s[k]
        /\ \A k \in DOMAIN t : Len(s) + k \in DOMAIN u /\ u[Len(s) + k] = t[k]
        /\ \A k \in DOMAIN u :
              \/ k \in DOMAIN s /\ u[k] = s[k]
              \/ k - Len(s) \in DOMAIN t /\ k > Len(s) /\ u[k] = t[k - Len(s)]
    BY Joined
  <1> HIDE DEF u
  <1>1. KeptOf(u) \subseteq KeptOf(s) \cup KeptOf(t)
    BY <1>0 DEF KeptOf
  <1>2. KeptOf(s) \subseteq KeptOf(u)
    BY <1>0 DEF KeptOf
  <1>3. KeptOf(t) \subseteq KeptOf(u)
    BY <1>0 DEF KeptOf
  <1>4. KeptOf(u) = KeptOf(s) \cup KeptOf(t)
    BY <1>1, <1>2, <1>3
  <1> QED BY <1>4 DEF u

LEMMA KeptHere ==
  ASSUME NEW t, NEW k \in DOMAIN t, t[k].kept
  PROVE  t[k].by \in KeptOf(t)
  BY DEF KeptOf

LEMMA MadeJoined ==
  ASSUME NEW s \in Seq(Piece), NEW t \in Seq(Piece), NEW n, NEW m
  PROVE  Made(s \o t, n, m) <=> Made(s, n, m) /\ Made(t, n, m)
  <1> DEFINE u == s \o t
  <1>0. /\ \A k \in DOMAIN s : k \in DOMAIN u /\ u[k] = s[k]
        /\ \A k \in DOMAIN t : Len(s) + k \in DOMAIN u /\ u[Len(s) + k] = t[k]
        /\ \A k \in DOMAIN u :
              \/ k \in DOMAIN s /\ u[k] = s[k]
              \/ k - Len(s) \in DOMAIN t /\ k > Len(s) /\ u[k] = t[k - Len(s)]
    BY Joined
  <1>1. KeptOf(u) = KeptOf(s) \cup KeptOf(t)
    BY KeptJoined
  <1> HIDE DEF u
  <1>2. (\A k \in DOMAIN u : u[k].number <= n)
          <=> (\A k \in DOMAIN s : s[k].number <= n) /\ (\A k \in DOMAIN t : t[k].number <= n)
    BY <1>0
  <1>3. Made(u, n, m) <=> Made(s, n, m) /\ Made(t, n, m)
    BY <1>1, <1>2 DEF Made
  <1> QED BY <1>3 DEF u

LEMMA MadeLater ==
  ASSUME NEW t \in Seq(Piece), NEW n \in Nat, NEW m \in Nat, NEW n2 \in Nat, NEW m2 \in Nat,
         n <= n2, m <= m2, Made(t, n, m)
  PROVE  Made(t, n2, m2)
  <1>1. \A k \in DOMAIN t : t[k] \in Piece
    OBVIOUS
  <1>2. \A k \in DOMAIN t : t[k].number \in Nat
    BY <1>1 DEF Piece
  <1>3. \A k \in DOMAIN t : t[k].number <= n2
    BY <1>2 DEF Made
  <1> QED BY <1>3 DEF Made

\* What is taken from the front or the back of a text.
LEMMA TogetherParts ==
  ASSUME NEW s \in Seq(Piece), NEW t \in Seq(Piece), Together(s \o t)
  PROVE  Together(s) /\ Together(t)
  <1> DEFINE u == s \o t
  <1>0. /\ \A k \in DOMAIN s : k \in DOMAIN u /\ u[k] = s[k]
        /\ \A k \in DOMAIN t : Len(s) + k \in DOMAIN u /\ u[Len(s) + k] = t[k]
        /\ DOMAIN s = 1 .. Len(s) /\ DOMAIN t = 1 .. Len(t) /\ Len(s) \in Nat /\ Len(t) \in Nat
    BY Joined
  <1>1. Together(u)
    OBVIOUS
  <1> HIDE DEF u
  <1>2. ASSUME NEW i \in DOMAIN s, NEW j \in DOMAIN s, i < j, s[i].kept, s[j].kept, s[i].by = s[j].by
        PROVE  /\ s[i].number < s[j].number
               /\ ~s[j].last => s[j - 1].kept /\ s[j - 1].last /\ s[j - 1].by = s[j].by
    <2>1. j - 1 \in DOMAIN s
      BY <1>0, <1>2
    <2>2. /\ i \in DOMAIN u /\ j \in DOMAIN u /\ u[i] = s[i] /\ u[j] = s[j] /\ u[j - 1] = s[j - 1]
      BY <1>0, <1>2, <2>1
    <2> QED BY <1>1, <1>2, <2>2 DEF Together
  <1>3. ASSUME NEW i \in DOMAIN t, NEW j \in DOMAIN t, i < j, t[i].kept, t[j].kept, t[i].by = t[j].by
        PROVE  /\ t[i].number < t[j].number
               /\ ~t[j].last => t[j - 1].kept /\ t[j - 1].last /\ t[j - 1].by = t[j].by
    <2>1. j - 1 \in DOMAIN t /\ Len(s) + (j - 1) = (Len(s) + j) - 1 /\ Len(s) + i < Len(s) + j
      BY <1>0, <1>3
    <2>2. /\ Len(s) + i \in DOMAIN u /\ Len(s) + j \in DOMAIN u
          /\ u[Len(s) + i] = t[i] /\ u[Len(s) + j] = t[j] /\ u[(Len(s) + j) - 1] = t[j - 1]
      BY <1>0, <1>3, <2>1
    <2> QED BY <1>1, <1>3, <2>1, <2>2, SMTT(30) DEF Together
  <1> QED BY <1>2, <1>3 DEF Together

\* Two texts that have no dispatch in common.
LEMMA TogetherJoined ==
  ASSUME NEW s \in Seq(Piece), NEW t \in Seq(Piece), Together(s), Together(t),
         KeptOf(s) \cap KeptOf(t) = {}
  PROVE  Together(s \o t)
  <1> DEFINE u == s \o t
  <1>0. /\ \A k \in DOMAIN s : k \in DOMAIN u /\ u[k] = s[k]
        /\ \A k \in DOMAIN t : Len(s) + k \in DOMAIN u /\ u[Len(s) + k] = t[k]
        /\ \A k \in DOMAIN u :
              \/ k \in DOMAIN s /\ u[k] = s[k]
              \/ k - Len(s) \in DOMAIN t /\ k > Len(s) /\ u[k] = t[k - Len(s)]
        /\ DOMAIN s = 1 .. Len(s) /\ DOMAIN t = 1 .. Len(t) /\ Len(s) \in Nat /\ Len(t) \in Nat
        /\ DOMAIN u = 1 .. Len(s) + Len(t)
    BY Joined
  <1> HIDE DEF u
  <1>1. ASSUME NEW i \in DOMAIN u, NEW j \in DOMAIN u, i < j, u[i].kept, u[j].kept, u[i].by = u[j].by
        PROVE  /\ u[i].number < u[j].number
               /\ ~u[j].last => u[j - 1].kept /\ u[j - 1].last /\ u[j - 1].by = u[j].by
    <2>1. CASE i \in DOMAIN s /\ u[i] = s[i] /\ j \in DOMAIN s /\ u[j] = s[j]
      <3>1. j - 1 \in DOMAIN s
        BY <1>0, <1>1, <2>1
      <3>2. u[j - 1] = s[j - 1]
        BY <1>0, <3>1
      <3> QED BY <1>1, <2>1, <3>2, SMTT(30) DEF Together
    <2>2. CASE /\ i - Len(s) \in DOMAIN t /\ i > Len(s) /\ u[i] = t[i - Len(s)]
               /\ j - Len(s) \in DOMAIN t /\ j > Len(s) /\ u[j] = t[j - Len(s)]
      <3>1. /\ i - Len(s) < j - Len(s) /\ (j - Len(s)) - 1 \in DOMAIN t
            /\ Len(s) + ((j - Len(s)) - 1) = j - 1
        BY <1>0, <1>1, <2>2, SMTT(30)
      <3>2. u[j - 1] = t[(j - Len(s)) - 1]
        BY <1>0, <3>1
      <3> QED BY <1>1, <2>2, <3>1, <3>2 DEF Together
    <2>3. CASE i \in DOMAIN s /\ u[i] = s[i] /\ j - Len(s) \in DOMAIN t /\ u[j] = t[j - Len(s)]
      <3>1. u[i].by \in KeptOf(s) /\ u[j].by \in KeptOf(t)
        BY <1>1, <2>3, KeptHere
      <3> QED BY <1>1, <3>1
    <2>4. CASE j \in DOMAIN s /\ i > Len(s)
      BY <1>0, <1>1, <2>4
    <2> QED BY <1>0, <2>1, <2>2, <2>3, <2>4
  <1>2. Together(u)
    BY <1>1 DEF Together
  <1> QED BY <1>2 DEF u

\* A kept piece goes behind what is there of its dispatch; the head of a page behind
\* the end of one.
LEMMA TogetherNext ==
  ASSUME NEW s \in Seq(Piece), NEW p \in Piece, NEW n \in Nat, NEW m, Together(s), Made(s, n, m),
         p.number = n + 1,
         p.last \/ s = <<>> \/ (s[Len(s)].kept /\ s[Len(s)].last /\ s[Len(s)].by = p.by)
  PROVE  Together(s \o <<p>>)
  <1> DEFINE u == s \o <<p>>
  <1>0. /\ u \in Seq(Piece) /\ DOMAIN u = 1 .. Len(s) + 1 /\ DOMAIN s = 1 .. Len(s)
        /\ Len(s) \in Nat /\ u[Len(s) + 1] = p
        /\ \A k \in DOMAIN s : u[k] = s[k]
    <2>1. <<p>> \in Seq(Piece) /\ Len(<<p>>) = 1 /\ <<p>>[1] = p
      OBVIOUS
    <2>2. /\ u \in Seq(Piece) /\ Len(u) = Len(s) + 1
          /\ \A k \in 1 .. Len(s) + 1 : u[k] = IF k <= Len(s) THEN s[k] ELSE <<p>>[k - Len(s)]
      BY <2>1, ConcatProperties
    <2>3. /\ DOMAIN u = 1 .. Len(s) + 1 /\ DOMAIN s = 1 .. Len(s) /\ Len(s) \in Nat
      BY <2>2, LenProperties
    <2> HIDE DEF u
    <2>4. u[Len(s) + 1] = <<p>>[(Len(s) + 1) - Len(s)]
      BY <2>2, <2>3
    <2>5. (Len(s) + 1) - Len(s) = 1
      BY <2>3
    <2>6. \A k \in DOMAIN s : u[k] = s[k]
      BY <2>2, <2>3
    <2> QED BY <2>1, <2>2, <2>3, <2>4, <2>5, <2>6
  <1> HIDE DEF u
  <1>1. ASSUME NEW i \in DOMAIN u, NEW j \in DOMAIN u, i < j, u[i].kept, u[j].kept, u[i].by = u[j].by
        PROVE  /\ u[i].number < u[j].number
               /\ ~u[j].last => u[j - 1].kept /\ u[j - 1].last /\ u[j - 1].by = u[j].by
    <2>1. i \in DOMAIN s /\ u[i] = s[i] /\ s[i] \in Piece
      BY <1>0, <1>1
    <2>2. CASE j \in DOMAIN s
      <3>1. j - 1 \in DOMAIN s /\ u[j] = s[j]
        BY <1>0, <1>1, <2>2
      <3>2. u[j - 1] = s[j - 1]
        BY <1>0, <3>1
      <3> QED BY <1>1, <2>1, <2>2, <3>1, <3>2 DEF Together
    <2>3. CASE j = Len(s) + 1
      <3>1. u[j] = p /\ j - 1 = Len(s) /\ Len(s) \in DOMAIN s /\ s /= <<>>
        BY <1>0, <1>1, <2>1, <2>3
      <3>2. s[i].number <= n /\ s[i].number \in Nat
        BY <2>1 DEF Made, Piece
      <3>3. u[i].number < u[j].number
        BY <2>1, <3>1, <3>2
      <3>4. u[j - 1] = s[Len(s)]
        BY <1>0, <3>1
      <3> QED BY <3>1, <3>3, <3>4
    <2> QED BY <1>0, <2>2, <2>3
  <1>2. Together(u)
    BY <1>1 DEF Together
  <1> QED BY <1>2 DEF u

LEMMA NoText ==
  ASSUME NEW n, NEW m
  PROVE  <<>> \in Seq(Piece) /\ Together(<<>>) /\ KeptOf(<<>>) = {} /\ Made(<<>>, n, m)
  BY EmptySeq DEF Together, KeptOf, Made

\* One piece.
LEMMA OnePiece ==
  ASSUME NEW p \in Piece, NEW n \in Nat, p.number <= n, NEW m \in Nat, p.by <= m
  PROVE  /\ <<p>> \in Seq(Piece) /\ Together(<<p>>) /\ Made(<<p>>, n, m)
         /\ KeptOf(<<p>>) = IF p.kept THEN {p.by} ELSE {}
  <1>1. <<p>> \in Seq(Piece) /\ DOMAIN <<p>> = {1} /\ <<p>>[1] = p
    OBVIOUS
  <1>2. KeptOf(<<p>>) = IF p.kept THEN {p.by} ELSE {}
    BY <1>1 DEF KeptOf
  <1>3. p.by \in 0 .. m
    BY NestedAssumption DEF Piece
  <1>4. Made(<<p>>, n, m)
    BY <1>1, <1>2, <1>3 DEF Made
  <1>5. Together(<<p>>)
    BY <1>1 DEF Together
  <1> QED BY <1>1, <1>2, <1>4, <1>5


-----------------------------------------------------------------------------
(* Pages *)

\* A text that grows by one piece of the innermost dispatch ends with that piece.
LEMMA LastOf ==
  ASSUME NEW s \in Seq(Piece), NEW p \in Piece, NEW u, u = s \o <<p>>
  PROVE  u \in Seq(Piece) /\ u /= <<>> /\ u[Len(u)] = p
  <1>1. <<p>> \in Seq(Piece) /\ Len(<<p>>) = 1 /\ <<p>>[1] = p
    OBVIOUS
  <1>2. /\ u \in Seq(Piece) /\ Len(u) = Len(s) + 1 /\ Len(s) \in Nat
        /\ \A k \in 1 .. Len(s) + 1 : u[k] = IF k <= Len(s) THEN s[k] ELSE <<p>>[k - Len(s)]
    BY <1>1, ConcatProperties, LenProperties
  <1>3. u[Len(u)] = <<p>>[(Len(s) + 1) - Len(s)] /\ (Len(s) + 1) - Len(s) = 1
    BY <1>2
  <1>4. u /= <<>>
    BY <1>2, EmptySeq
  <1> QED BY <1>1, <1>2, <1>3, <1>4

\* A piece that a dispatch finishes its page with, behind all that it has collected.
LEMMA PieceAdded ==
  ASSUME NEW b \in Seq(Piece), NEW c \in Seq(Piece), NEW p \in Piece
  PROVE  b \o Append(c, p) = (b \o c) \o <<p>>
  <1>1. <<p>> \in Seq(Piece)
    OBVIOUS
  <1>2. Append(c, p) = c \o <<p>>
    BY AppendIsConcat
  <1>3. (b \o c) \o <<p>> = b \o (c \o <<p>>)
    BY <1>1, ConcatAssociative
  <1> QED BY <1>2, <1>3

LEMMA WholeType ==
  ASSUME NEW f \in Frame
  PROVE  /\ f.body \in Seq(Piece) /\ f.text \in Seq(Piece) /\ Whole(f) \in Seq(Piece)
         /\ f.text = <<>> => Whole(f) = f.body
  <1>1. f.body \in Seq(Piece) /\ f.text \in Seq(Piece)
    BY DEF Frame
  <1> QED BY <1>1, ConcatProperties, ConcatEmptySeq DEF Whole

LEMMA FrameLater ==
  ASSUME NEW f \in Frame, NEW n \in Nat, NEW m \in Nat, NEW n2 \in Nat, NEW m2 \in Nat,
         n <= n2, m <= m2, FrameTidy(f, n, m)
  PROVE  FrameTidy(f, n2, m2)
  <1>1. Whole(f) \in Seq(Piece) /\ f.id \in Nat
    BY WholeType, NestedAssumption DEF Frame
  <1>2. Made(Whole(f), n2, m2)
    BY <1>1, MadeLater DEF FrameTidy
  <1> QED BY <1>1, <1>2 DEF FrameTidy

LEMMA PiecesGrow ==
  ASSUME TypeOK, SameCount \/ Counted
  PROVE  /\ hist'.pieces \in Nat /\ hist.pieces \in Nat /\ hist.started \in Nat
         /\ hist.pieces <= hist'.pieces
  BY VariableTypes DEF HistType, SameCount, Counted

\* A frame that has grown by a kept piece of its own.
LEMMA FrameGrown ==
  ASSUME TypeOK, stack /= <<>>, NEW p, NEW last \in BOOLEAN, Mine(p, last, TRUE), Counted,
         FrameTidy(stack[1], hist.pieces, hist.started),
         last \/ stack[1].text = <<>>,
         NEW w, w = Whole(stack[1]) \o <<p>>
  PROVE  /\ Together(w) /\ Made(w, hist'.pieces, hist.started)
         /\ KeptOf(w) \subseteq Own(stack[1])
  <1> DEFINE f == stack[1]
             v == Whole(stack[1])
  <1>1. /\ f \in Frame /\ v \in Seq(Piece) /\ (f.text = <<>> => v = f.body)
    BY Types, WholeType
  <1>2. /\ p \in Piece /\ p.by = f.id /\ p.number = hist.pieces + 1 /\ p.last = last
        /\ p.kept = TRUE
    BY DEF Mine
  <1>3. /\ hist.pieces \in Nat /\ hist'.pieces = hist.pieces + 1 /\ hist'.pieces \in Nat
        /\ hist.started \in Nat /\ hist.pieces <= hist'.pieces
    BY FrameFields DEF Counted
  <1>4. f.id <= hist.started /\ Together(v) /\ Made(v, hist.pieces, hist.started) /\ Ended(f)
    BY DEF FrameTidy
  <1>5. p.last \/ v = <<>> \/ (v[Len(v)].kept /\ v[Len(v)].last /\ v[Len(v)].by = p.by)
    BY <1>1, <1>2, <1>4 DEF Ended
  <1>6. Own(f) = {f.id} \cup KeptOf(v)
    BY DEF Own
  <1> HIDE DEF v
  <1>7. Together(v \o <<p>>)
    BY <1>1, <1>2, <1>3, <1>4, <1>5, TogetherNext
  <1>8. <<p>> \in Seq(Piece) /\ Made(<<p>>, hist'.pieces, hist.started) /\ KeptOf(<<p>>) = {f.id}
    <2>1. p.number <= hist'.pieces /\ p.by <= hist.started
      BY <1>2, <1>3, <1>4
    <2> QED BY <1>2, <1>3, <2>1, OnePiece
  <1>9. Made(v, hist'.pieces, hist.started)
    BY <1>1, <1>3, <1>4, MadeLater
  <1>10. Made(v \o <<p>>, hist'.pieces, hist.started)
    BY <1>1, <1>8, <1>9, MadeJoined
  <1>11. KeptOf(v \o <<p>>) \subseteq Own(f)
    BY <1>1, <1>6, <1>8, KeptJoined
  <1> QED BY <1>7, <1>10, <1>11 DEF v

\* What a dispatch that goes on keeps, and what it writes.
LEMMA TextTidy ==
  ASSUME TypeOK, LoopInv, NEW g, NEW t, GoesOn(g, t),
         FrameTidy(stack[1], hist.pieces, hist.started)
  PROVE  /\ FrameTidy(g, hist'.pieces, hist.started) /\ Own(g) \subseteq Own(stack[1])
         /\ Together(t) /\ Made(t, hist'.pieces, hist.started) /\ KeptOf(t) = {}
  <1> DEFINE f == stack[1]
             n2 == hist'.pieces
             m == hist.started
             Good == /\ FrameTidy(g, n2, m) /\ Own(g) \subseteq Own(f)
                     /\ Together(t) /\ Made(t, n2, m) /\ KeptOf(t) = {}
  <1>0. /\ stack /= <<>> /\ f \in Frame /\ g \in Frame /\ g.id = f.id /\ TextStep(g, t)
        /\ SameCount \/ Counted
    BY Types DEF GoesOn, TextStep
  <1>1. hist.pieces \in Nat /\ n2 \in Nat /\ m \in Nat /\ hist.pieces <= n2
    BY <1>0, PiecesGrow
  <1>2. FrameTidy(f, n2, m)
    BY <1>0, <1>1, FrameLater
  <1>3. f.body \in Seq(Piece) /\ f.text \in Seq(Piece) /\ Whole(f) \in Seq(Piece)
    BY <1>0, WholeType
  <1>4. f.id <= m /\ Together(Whole(f)) /\ Made(Whole(f), n2, m) /\ Ended(f)
    BY <1>2 DEF FrameTidy
  <1>5. Together(<<>>) /\ KeptOf(<<>>) = {} /\ Made(<<>>, n2, m)
    BY NoText
  <1>6. ASSUME g.body = f.body, g.text = f.text
        PROVE  FrameTidy(g, n2, m) /\ Own(g) \subseteq Own(f)
    <2>1. Whole(g) = Whole(f)
      BY <1>6 DEF Whole
    <2> QED BY <1>0, <1>4, <1>6, <2>1 DEF FrameTidy, Own, Ended
  <1>7. ASSUME g.body = f.body, g.text = <<>>
        PROVE  FrameTidy(g, n2, m) /\ Own(g) \subseteq Own(f)
    <2>1. Whole(g) = f.body
      BY <1>0, <1>7, WholeType
    <2>2. Together(f.body)
      BY <1>3, <1>4, TogetherParts DEF Whole
    <2>3. Made(f.body, n2, m) /\ KeptOf(f.body) \subseteq KeptOf(Whole(f))
      BY <1>3, <1>4, MadeJoined, KeptJoined DEF Whole
    <2> QED BY <1>0, <1>4, <1>7, <2>1, <2>2, <2>3 DEF FrameTidy, Own, Ended
  <1>8. CASE g.body = f.body /\ g.text \in {<<>>, f.text} /\ t = <<>> /\ SameCount
    BY <1>5, <1>6, <1>7, <1>8
  <1>9. ASSUME NEW p, Mine(p, FALSE, TRUE), g.text = <<p>>, g.body = f.body, f.text = <<>>, Counted
        PROVE  FrameTidy(g, n2, m) /\ Own(g) \subseteq Own(f)
    <2>1. Whole(g) = Whole(f) \o <<p>>
      BY <1>0, <1>9, WholeType DEF Whole
    <2>2. /\ Together(Whole(g)) /\ Made(Whole(g), n2, m) /\ KeptOf(Whole(g)) \subseteq Own(f)
      BY <1>0, <1>9, <2>1, FrameGrown
    <2> QED BY <1>0, <1>4, <1>9, <2>2 DEF FrameTidy, Own, Ended
  <1>10. ASSUME NEW p, Mine(p, TRUE, TRUE), g.text = <<>>, g.body = f.body \o Append(f.text, p), Counted
         PROVE  FrameTidy(g, n2, m) /\ Own(g) \subseteq Own(f)
    <2>1. p \in Piece /\ p.by = f.id /\ p.last /\ p.kept
      BY <1>10 DEF Mine
    <2>2. g.body = Whole(f) \o <<p>>
      BY <1>3, <1>10, <2>1, PieceAdded DEF Whole
    <2>3. Whole(g) = g.body
      BY <1>0, <1>10, WholeType
    <2>4. Together(g.body) /\ Made(g.body, n2, m) /\ KeptOf(g.body) \subseteq Own(f)
      BY <1>0, <1>10, <2>2, FrameGrown
    <2>5. g.body[Len(g.body)] = p
      BY <1>3, <2>1, <2>2, LastOf
    <2>6. Ended(g)
      BY <1>0, <2>1, <2>5 DEF Ended
    <2> QED BY <1>0, <1>4, <2>3, <2>4, <2>6 DEF FrameTidy, Own
  <1>11. ASSUME NEW p, Mine(p, p.last, FALSE), t = <<p>>, Counted
         PROVE  Together(t) /\ Made(t, n2, m) /\ KeptOf(t) = {}
    <2>1. p \in Piece /\ p.by = f.id /\ p.number = n2 /\ p.kept = FALSE
      BY <1>11 DEF Mine, Counted
    <2>2. p.number <= n2 /\ p.by <= m
      BY <1>1, <1>4, <2>1
    <2>3. Together(<<p>>) /\ Made(<<p>>, n2, m) /\ KeptOf(<<p>>) = {}
      BY <1>1, <2>1, <2>2, OnePiece
    <2> QED BY <1>11, <2>3
  <1>12. Good
    BY <1>0, <1>5, <1>6, <1>8, <1>9, <1>10, <1>11 DEF TextStep
  <1> QED BY <1>12

\* What a dispatch sends when it ends.
LEMMA SentTidy ==
  ASSUME TypeOK, LoopInv, NEW t, Leaves(t), FrameTidy(stack[1], hist.pieces, hist.started)
  PROVE  /\ Together(t) /\ Made(t, hist'.pieces, hist.started)
         /\ KeptOf(t) \subseteq Own(stack[1])
  <1> DEFINE f == stack[1]
             n2 == hist'.pieces
             m == hist.started
  <1>0. /\ stack /= <<>> /\ f \in Frame /\ t \in Seq(Piece) /\ SendStep(t)
        /\ SameCount \/ Counted
    BY Types DEF Leaves, SendStep
  <1>1. hist.pieces \in Nat /\ n2 \in Nat /\ m \in Nat /\ hist.pieces <= n2
    BY <1>0, PiecesGrow
  <1>2. FrameTidy(f, n2, m)
    BY <1>0, <1>1, FrameLater
  <1>3. f.body \in Seq(Piece) /\ f.text \in Seq(Piece) /\ Whole(f) \in Seq(Piece)
    BY <1>0, WholeType
  <1>4. f.id <= m /\ Together(Whole(f)) /\ Made(Whole(f), n2, m) /\ Ended(f)
    BY <1>2 DEF FrameTidy
  <1>5. Together(<<>>) /\ KeptOf(<<>>) = {} /\ Made(<<>>, n2, m)
    BY NoText
  <1>6. Together(f.body) /\ Made(f.body, n2, m) /\ KeptOf(f.body) \subseteq Own(f)
    BY <1>3, <1>4, TogetherParts, MadeJoined, KeptJoined DEF Whole, Own
  <1>7. CASE t \in {<<>>, f.body}
    BY <1>5, <1>6, <1>7
  <1>8. ASSUME NEW p, Mine(p, TRUE, TRUE), t = f.body \o Append(f.text, p), Counted
        PROVE  Together(t) /\ Made(t, n2, m) /\ KeptOf(t) \subseteq Own(f)
    <2>1. t = Whole(f) \o <<p>>
      BY <1>3, <1>8, PieceAdded DEF Whole, Mine
    <2> QED BY <1>0, <1>8, <2>1, FrameGrown
  <1>9. ASSUME NEW p, Mine(p, TRUE, FALSE), t = <<p>> \o f.body, Counted
        PROVE  Together(t) /\ Made(t, n2, m) /\ KeptOf(t) \subseteq Own(f)
    <2>1. p \in Piece /\ p.by = f.id /\ p.number = n2 /\ p.kept = FALSE
      BY <1>9 DEF Mine, Counted
    <2>2. <<p>> \in Seq(Piece) /\ Together(<<p>>) /\ Made(<<p>>, n2, m) /\ KeptOf(<<p>>) = {}
      <3>1. p.number <= n2 /\ p.by <= m
        BY <1>1, <1>4, <2>1
      <3> QED BY <1>1, <2>1, <3>1, OnePiece
    <2>3. Together(t)
      BY <1>3, <1>6, <1>9, <2>2, TogetherJoined
    <2>4. Made(t, n2, m)
      BY <1>3, <1>6, <1>9, <2>2, MadeJoined
    <2>5. KeptOf(t) = KeptOf(<<p>>) \cup KeptOf(f.body)
      BY <1>3, <1>9, <2>2, KeptJoined
    <2> QED BY <1>6, <2>2, <2>3, <2>4, <2>5
  <1> QED BY <1>0, <1>7, <1>8, <1>9 DEF SendStep

LEMMA TextAdded ==
  ASSUME NEW b \in Seq(Piece), NEW c \in Seq(Piece), NEW t \in Seq(Piece)
  PROVE  b \o (c \o t) = (b \o c) \o t
  BY ConcatAssociative, SMTT(30)

\* Writing t, whose dispatches are nowhere else, leaves everything tidy.
LEMMA TidyWritten ==
  ASSUME NEW s \in Seq(Frame), NEW t \in Seq(Piece), out \in Seq(Piece), Wrote(s, t),
         NEW n, NEW m, Tidy(s, out, n, m), Together(t), Made(t, n, m),
         KeptOf(out) \cap KeptOf(t) = {}, \A i \in DOMAIN s : Own(s[i]) \cap KeptOf(t) = {}
  PROVE  Tidy(stack', out', n, m)
  <1>0. \A i \in DOMAIN s : s[i] \in Frame
    OBVIOUS
  <1>1. /\ \A i \in DOMAIN s : FrameTidy(s[i], n, m)
        /\ Together(out) /\ Made(out, n, m)
        /\ \A i, j \in DOMAIN s : i /= j => Own(s[i]) \cap Own(s[j]) = {}
        /\ \A i \in DOMAIN s : Own(s[i]) \cap KeptOf(out) = {}
    BY DEF Tidy, Apart
  <1>2. CASE stack' = s /\ out' = out
    BY <1>2
  <1>3. CASE stack' = s /\ out' = out \o t
    <2>1. Together(out')
      BY <1>1, <1>3, TogetherJoined
    <2>2. Made(out', n, m)
      BY <1>1, <1>3, MadeJoined
    <2>3. KeptOf(out') = KeptOf(out) \cup KeptOf(t)
      BY <1>3, KeptJoined
    <2>4. \A i \in DOMAIN s : Own(s[i]) \cap KeptOf(out') = {}
      BY <1>1, <2>3
    <2> QED BY <1>1, <1>3, <2>1, <2>2, <2>4 DEF Tidy, Apart
  <1>4. ASSUME NEW b \in DOMAIN s, stack' = [s EXCEPT ![b].text = @ \o t], out' = out
        PROVE  Tidy(stack', out', n, m)
    <2> DEFINE c == s[b].text \o t
               g == [s[b] EXCEPT !.text = c]
    <2>1. /\ s[b] \in Frame /\ s[b].text \in Seq(Piece) /\ s[b].body \in Seq(Piece)
          /\ Whole(s[b]) \in Seq(Piece)
      BY <1>0, WholeType
    <2>2. c \in Seq(Piece)
      BY <2>1, ConcatProperties
    <2>3. s[b].body \o c = Whole(s[b]) \o t
      BY <2>1, TextAdded, ZenonT(60) DEF Whole
    <2>4. stack' = [s EXCEPT ![b] = g]
      BY <1>4
    <2> HIDE DEF c
    <2>5. g \in Frame /\ g.text = c /\ g.body = s[b].body /\ g.id = s[b].id
      <3>1. Like(g, s[b]) /\ g.text = c
        BY <2>1, <2>2, LikeText
      <3> QED BY <3>1 DEF Like
    <2> HIDE DEF g
    <2>6. Whole(g) = Whole(s[b]) \o t
      BY <2>3, <2>5 DEF Whole
    <2>7. FrameTidy(s[b], n, m) /\ Own(s[b]) \cap KeptOf(t) = {}
      BY <1>1
    <2>8. Together(Whole(g))
      BY <2>1, <2>6, <2>7, TogetherJoined DEF FrameTidy, Own
    <2>9. Made(Whole(g), n, m)
      BY <2>1, <2>6, <2>7, MadeJoined DEF FrameTidy
    <2>10. FrameTidy(g, n, m)
      BY <2>5, <2>7, <2>8, <2>9 DEF FrameTidy, Ended
    <2>11. KeptOf(Whole(g)) = KeptOf(Whole(s[b])) \cup KeptOf(t)
      BY <2>1, <2>6, KeptJoined
    <2>12. Own(g) = Own(s[b]) \cup KeptOf(t)
      BY <2>5, <2>11 DEF Own
    <2>13. /\ DOMAIN stack' = DOMAIN s /\ stack'[b] = g
           /\ \A i \in DOMAIN s : i /= b => stack'[i] = s[i]
      BY <2>4
    <2>14. \A i \in DOMAIN stack' : FrameTidy(stack'[i], n, m)
      BY <1>1, <2>10, <2>13
    <2>15. \A i \in DOMAIN s : Own(stack'[i]) \cap KeptOf(out) = {}
      BY <1>1, <2>12, <2>13
    <2>16. \A i, j \in DOMAIN s : i /= j => Own(stack'[i]) \cap Own(stack'[j]) = {}
      BY <1>1, <2>12, <2>13
    <2> QED BY <1>1, <1>4, <2>13, <2>14, <2>15, <2>16 DEF Tidy, Apart
  <1> QED BY <1>2, <1>3, <1>4 DEF Wrote, Writes, Buffered

\* Everything stays tidy when time goes on.
LEMMA TidyLater ==
  ASSUME NEW s \in Seq(Frame), out \in Seq(Piece), NEW n \in Nat, NEW m \in Nat,
         NEW n2 \in Nat, NEW m2 \in Nat, n <= n2, m <= m2, Tidy(s, out, n, m)
  PROVE  Tidy(s, out, n2, m2)
  <1>1. \A i \in DOMAIN s : s[i] \in Frame
    OBVIOUS
  <1>2. \A i \in DOMAIN s : FrameTidy(s[i], n2, m2)
    BY <1>1, FrameLater DEF Tidy
  <1>3. Made(out, n2, m2)
    BY MadeLater DEF Tidy
  <1> QED BY <1>2, <1>3 DEF Tidy

LEMMA PagesGoesOn ==
  ASSUME TypeOK, LoopInv, PagesInv, NEW g, NEW t, GoesOn(g, t)
  PROVE  PagesInv'
  <1> DEFINE s == [stack EXCEPT ![1] = g]
             n2 == hist'.pieces
             m == hist.started
  <1>0. /\ stack \in Seq(Frame) /\ out \in Seq(Piece) /\ 1 \in DOMAIN stack
        /\ hist'.started = m /\ (SameCount \/ Counted)
    BY Types DEF GoesOn, TextStep
  <1>1. hist.pieces \in Nat /\ n2 \in Nat /\ m \in Nat /\ hist.pieces <= n2
    BY <1>0, PiecesGrow
  <1>2. Tidy(stack, out, n2, m)
    BY <1>0, <1>1, TidyLater DEF PagesInv
  <1>3. FrameTidy(stack[1], hist.pieces, m)
    BY <1>0 DEF PagesInv, Tidy
  <1>4. /\ FrameTidy(g, n2, m) /\ Own(g) \subseteq Own(stack[1])
        /\ Together(t) /\ Made(t, n2, m) /\ KeptOf(t) = {}
    BY <1>3, TextTidy
  <1>5. /\ s \in Seq(Frame) /\ s[1] = g /\ DOMAIN s = DOMAIN stack
        /\ \A i \in DOMAIN s : i /= 1 => s[i] = stack[i]
        /\ t \in Seq(Piece) /\ Wrote(s, t)
    BY Going
  <1> HIDE DEF s
  <1>6. \A i \in DOMAIN s : FrameTidy(s[i], n2, m)
    BY <1>2, <1>4, <1>5 DEF Tidy
  <1>7. \A i \in DOMAIN s : Own(s[i]) \subseteq Own(stack[i])
    BY <1>4, <1>5
  <1>8. Apart(s, out)
    BY <1>2, <1>5, <1>7 DEF Tidy, Apart
  <1>9. Tidy(s, out, n2, m)
    BY <1>2, <1>6, <1>8 DEF Tidy
  <1>10. KeptOf(out) \cap KeptOf(t) = {} /\ \A i \in DOMAIN s : Own(s[i]) \cap KeptOf(t) = {}
    BY <1>4
  <1> HIDE DEF n2, m
  <1>11. Tidy(stack', out', n2, m)
    BY <1>0, <1>4, <1>5, <1>9, <1>10, TidyWritten
  <1> QED BY <1>0, <1>11 DEF PagesInv, n2, m

LEMMA PagesLeaves ==
  ASSUME TypeOK, LoopInv, PagesInv, NEW t, Leaves(t)
  PROVE  PagesInv'
  <1> DEFINE s == Tail(stack)
             n2 == hist'.pieces
             m == hist.started
  <1>0. /\ stack \in Seq(Frame) /\ stack /= <<>> /\ out \in Seq(Piece) /\ 1 \in DOMAIN stack
        /\ hist'.started = m /\ (SameCount \/ Counted)
        /\ t \in Seq(Piece) /\ Wrote(s, t)
    BY Types DEF Leaves, SendStep
  <1>1. hist.pieces \in Nat /\ n2 \in Nat /\ m \in Nat /\ hist.pieces <= n2
    BY <1>0, PiecesGrow
  <1>2. Tidy(stack, out, n2, m)
    BY <1>0, <1>1, TidyLater DEF PagesInv
  <1>3. FrameTidy(stack[1], hist.pieces, m)
    BY <1>0 DEF PagesInv, Tidy
  <1>4. Together(t) /\ Made(t, n2, m) /\ KeptOf(t) \subseteq Own(stack[1])
    BY <1>3, SentTidy
  <1>5. /\ s \in Seq(Frame)
        /\ \A i \in DOMAIN s : i + 1 \in DOMAIN stack /\ s[i] = stack[i + 1] /\ i \in Nat \ {0}
    BY <1>0, Popped
  <1> HIDE DEF s
  <1>6. \A i \in DOMAIN s : FrameTidy(s[i], n2, m)
    BY <1>2, <1>5 DEF Tidy
  <1>7. /\ \A i \in DOMAIN s : i + 1 /= 1
        /\ \A i, j \in DOMAIN s : i /= j => i + 1 /= j + 1
    BY <1>5
  <1>8. /\ \A i, j \in DOMAIN stack : i /= j => Own(stack[i]) \cap Own(stack[j]) = {}
        /\ \A i \in DOMAIN stack : Own(stack[i]) \cap KeptOf(out) = {}
    BY <1>2 DEF Tidy, Apart
  <1>9. Apart(s, out)
    BY <1>5, <1>7, <1>8 DEF Apart
  <1>10. Tidy(s, out, n2, m)
    BY <1>2, <1>6, <1>9 DEF Tidy
  <1>11. \A i \in DOMAIN s : Own(s[i]) \cap KeptOf(t) = {}
    BY <1>0, <1>4, <1>5, <1>7, <1>8
  <1>12. KeptOf(out) \cap KeptOf(t) = {}
    BY <1>0, <1>4, <1>8
  <1> HIDE DEF n2, m
  <1>13. Tidy(stack', out', n2, m)
    BY <1>0, <1>4, <1>5, <1>10, <1>11, <1>12, TidyWritten
  <1> QED BY <1>0, <1>13 DEF PagesInv, n2, m

\* A dispatch that begins has nothing, and a number that no other has.
LEMMA PagesEnter ==
  ASSUME TypeOK, PagesInv, NEW r \in Requests, Enter(r)
  PROVE  PagesInv'
  <1> DEFINE n == hist.pieces
             m == hist.started
             f == FirstFrame(r)
  <1>0. /\ stack \in Seq(Frame) /\ out \in Seq(Piece) /\ n \in Nat /\ m \in Nat
        /\ m + 1 \in Nat /\ m <= m + 1 /\ n <= n
    BY Types, VariableTypes DEF HistType
  <1>1. stack'[1] = f /\ hist'.started = m + 1 /\ hist'.pieces = n /\ out' = out
    BY VariableTypes, Entered DEF Enter, HistType
  <1>2. Tidy(stack, out, n, m)
    BY DEF PagesInv
  <1>3. Tidy(stack, out, n, m + 1)
    BY <1>0, <1>2, TidyLater
  <1>4. f.id = m + 1 /\ f.body = <<>> /\ f.text = <<>>
    BY DEF FirstFrame
  <1>5. Whole(f) = <<>>
    BY <1>4, EmptySeq, ConcatEmptySeq DEF Whole
  <1>6. FrameTidy(f, n, m + 1) /\ Own(f) = {m + 1}
    BY <1>0, <1>4, <1>5, NoText DEF FrameTidy, Ended, Own
  <1>7. \A i \in DOMAIN stack' : i /= 1 => i - 1 \in DOMAIN stack /\ stack'[i] = Outer(stack[i - 1])
    BY EnteredBelow
  <1>8. \A i \in DOMAIN stack : /\ Outer(stack[i]).body = stack[i].body
                                /\ Outer(stack[i]).text = stack[i].text
                                /\ Outer(stack[i]).id = stack[i].id
    BY <1>0, OuterFrame
  <1>9. \A i \in DOMAIN stack : /\ Own(Outer(stack[i])) = Own(stack[i])
                                /\ FrameTidy(stack[i], n, m + 1) =>
                                     FrameTidy(Outer(stack[i]), n, m + 1)
    BY <1>8 DEF Own, Whole, FrameTidy, Ended
  <1> HIDE DEF f
  <1>10. \A i \in DOMAIN stack' : FrameTidy(stack'[i], n, m + 1)
    BY <1>1, <1>3, <1>6, <1>7, <1>9 DEF Tidy
  <1>11. m + 1 \notin KeptOf(out) /\ \A i \in DOMAIN stack : m + 1 \notin Own(stack[i])
    <2>1. m + 1 \notin 0 .. m
      BY <1>0
    <2>2. \A i \in DOMAIN stack : stack[i].id /= m + 1
      <3>1. \A i \in DOMAIN stack : stack[i].id <= m
        BY <1>2 DEF Tidy, FrameTidy
      <3> QED BY <1>0, <3>1
    <2> QED BY <1>2, <2>1, <2>2 DEF Tidy, FrameTidy, Made, Own
  <1>12. \A i \in DOMAIN stack' : i /= 1 => Own(stack'[i]) = Own(stack[i - 1])
    BY <1>7, <1>9
  <1>13. \A i, j \in DOMAIN stack' : i /= 1 /\ j /= 1 /\ i /= j => i - 1 /= j - 1
    <2>1. stack' \in Seq(Frame)
      BY Entered
    <2> QED BY <2>1
  <1>14. \A i, j \in DOMAIN stack' : i /= j => Own(stack'[i]) \cap Own(stack'[j]) = {}
    <2>1. ASSUME NEW i \in DOMAIN stack', NEW j \in DOMAIN stack', i /= 1, j /= 1, i /= j
          PROVE  Own(stack'[i]) \cap Own(stack'[j]) = {}
      BY <1>2, <1>7, <1>12, <1>13, <2>1 DEF Tidy, Apart
    <2>2. ASSUME NEW j \in DOMAIN stack', j /= 1
          PROVE  m + 1 \notin Own(stack'[j])
      BY <1>7, <1>11, <1>12, <2>2
    <2> QED BY <1>1, <1>6, <2>1, <2>2
  <1>15. \A i \in DOMAIN stack' : Own(stack'[i]) \cap KeptOf(out') = {}
    BY <1>1, <1>2, <1>6, <1>7, <1>11, <1>12 DEF Tidy, Apart
  <1>16. Apart(stack', out')
    BY <1>14, <1>15 DEF Apart
  <1>17. Tidy(stack', out', n, m + 1)
    BY <1>1, <1>3, <1>10, <1>16 DEF Tidy
  <1> QED BY <1>1, <1>17 DEF PagesInv

LEMMA PagesStep ==
  ASSUME TypeOK, LoopInv, PagesInv, [Next]_vars
  PROVE  PagesInv'
  <1>1. CASE Stays
    BY <1>1 DEF Stays, SameCount, PagesInv
  <1> QED BY <1>1, PagesEnter, PagesGoesOn, PagesLeaves, Shapes

LEMMA PagesInit ==
  ASSUME Init
  PROVE  PagesInv
  <1>1. stack = <<>> /\ out = <<>> /\ DOMAIN stack = {}
    BY DEF Init
  <1> QED BY <1>1, NoText DEF PagesInv, Tidy, Apart

LEMMA PagesInvImplies ==
  ASSUME TypeOK, PagesInv
  PROVE  PagesTogether
  <1>0. stack \in Seq(Frame) /\ \A i \in DOMAIN stack : stack[i] \in Frame
    BY Types
  <1>1. ASSUME NEW i \in DOMAIN stack
        PROVE  Together(stack[i].body) /\ Together(stack[i].text)
    <2>1. /\ stack[i].body \in Seq(Piece) /\ stack[i].text \in Seq(Piece)
          /\ Together(stack[i].body \o stack[i].text)
      BY <1>0, WholeType DEF PagesInv, Tidy, FrameTidy, Whole
    <2> QED BY <2>1, TogetherParts
  <1>2. Together(out)
    BY DEF PagesInv, Tidy
  <1> QED BY <1>1, <1>2 DEF PagesTogether, Texts

-----------------------------------------------------------------------------
(* Dispatches in which no other one began *)

LEMMA InnerStep ==
  ASSUME TypeOK, LoopInv, InnerInv, [Next]_vars
  PROVE  InnerInv'
  <1>0. stack \in Seq(Frame) /\ \A i \in DOMAIN stack : stack[i] \in Frame
    BY Types
  <1>1. CASE Stays
    BY <1>1 DEF Stays, InnerInv
  <1>2. ASSUME NEW r \in Requests, Enter(r)
        PROVE  InnerInv'
    BY <1>0, <1>2, EnteredBelow, OuterFrame DEF InnerInv
  <1>3. ASSUME NEW g, NEW t, GoesOn(g, t)
        PROVE  InnerInv'
    <2>1. DOMAIN stack' = DOMAIN stack /\ \A i \in DOMAIN stack : i > 1 => Like(stack'[i], stack[i])
      BY <1>0, <1>3, Gone
    <2> QED BY <2>1 DEF InnerInv, Like
  <1>4. ASSUME NEW t, Leaves(t)
        PROVE  InnerInv'
    <2>1. \A i \in DOMAIN stack' :
            i + 1 \in DOMAIN stack /\ i \in Nat \ {0} /\ Like(stack'[i], stack[i + 1])
      BY <1>4, Left
    <2> QED BY <2>1 DEF InnerInv, Like
  <1> QED BY <1>1, <1>2, <1>3, <1>4, Shapes

\* When a dispatch ends, the one around it is neither quiet nor alone.
LEMMA UncoveredFrame ==
  ASSUME TypeOK, InnerInv, NEW t, Leaves(t), stack' /= <<>>
  PROVE  ~stack'[1].quiet /\ ~stack'[1].alone
  <1>1. 2 \in DOMAIN stack /\ Like(stack'[1], stack[2])
    BY Left
  <1> QED BY <1>1 DEF InnerInv, Like

\* A dispatch returns from its template, or ends.
LEMMA ReturnedFrame ==
  ASSUME TypeOK, LoopInv, InnerInv, stack' /= <<>>,
         \/ ActionReturnsFalse \/ RenderReturns \/ DisplayReturns \/ RenderFails
         \/ DispatchReturns \/ ExceptionLeaves \/ ErrorControllerThrew
  PROVE  stack'[1].pc = "postDispatch" \/ (~stack'[1].quiet /\ ~stack'[1].alone)
  <1>1. ASSUME NEW h, NEW t, GoesOn(h, t), h.pc = "postDispatch"
        PROVE  stack'[1].pc = "postDispatch"
    <2>1. Like(stack'[1], h)
      BY <1>1, Gone
    <2> QED BY <1>1, <2>1 DEF Like
  <1> QED BY <1>1, UncoveredFrame, ReturnsShape, EndShapes

\* A template begins.
LEMMA RenderedFrame ==
  ASSUME TypeOK, LoopInv, NEW flush \in BOOLEAN, ActionRenders(flush)
  PROVE  BeginsPage(stack'[1])
  <1>1. PICK h, t : GoesOn(h, t) /\ BeginsPage(h)
    BY ActionRendersShape
  <1>2. Like(stack'[1], h)
    BY <1>1, Gone
  <1> QED BY <1>1, <1>2 DEF BeginsPage, Like

\* What yaf_dispatcher_handle makes of the innermost frame.
LEMMA HandledFrame ==
  ASSUME TypeOK, stack /= <<>>, NEW e \in BOOLEAN, NEW n \in Nat, Handles(e, n)
  PROVE  /\ stack'[1].pc = "init" /\ stack'[1].owner = slot
         /\ stack'[1].default = (req[slot].module = DefaultModule)
         /\ stack'[1].module = req[slot].module
         /\ stack'[1].alone = stack[1].alone /\ stack'[1].given = stack[1].given
         /\ req' \in [Requests -> Request]
         /\ req'[slot].module = req[slot].module
  <1> DEFINE g == [stack[1] EXCEPT !.pc = "init", !.error = e, !.owner = slot,
                           !.default = (req[slot].module = DefaultModule), !.text = <<>>,
                           !.rounds = n, !.module = req[slot].module, !.quiet = TRUE]
  <1>0. <<>> \in Seq(Piece)
    BY EmptySeq
  <1>1. g \in Frame
    BY <1>0, Types DEF Frame, Request
  <1>2. /\ g.pc = "init" /\ g.owner = slot
        /\ g.default = (req[slot].module = DefaultModule)
        /\ g.module = req[slot].module
        /\ g.alone = stack[1].alone /\ g.given = stack[1].given
    BY Types, ZenonT(40) DEF Frame
  <1>3. stack' = [stack EXCEPT ![1] = g]
    BY DEF Handles
  <1>4. req' = [req EXCEPT ![slot].dispatched = TRUE]
    BY DEF Handles
  <1>5. req' \in [Requests -> Request] /\ req'[slot].module = req[slot].module
    BY <1>4, Types DEF Request
  <1> HIDE DEF g
  <1>6. stack'[1] = g
    BY <1>1, <1>3, Types, Changed
  <1> QED BY <1>2, <1>5, <1>6

\* setModuleName() leaves the frame what it is, but in init() it is not quiet any more.
LEMMA RenamedFrame ==
  ASSUME TypeOK, SetModule
  PROVE  /\ stack /= <<>> /\ stack[1].pc \in Hooks \cup {"init", "action"}
         /\ stack' /= <<>> /\ stack'[1].pc = stack[1].pc
         /\ stack'[1].quiet = (stack[1].quiet /\ stack[1].pc /= "init")
         /\ stack'[1].module = stack[1].module /\ stack'[1].alone = stack[1].alone
         /\ stack'[1].nesting = stack[1].nesting /\ stack'[1].served = stack[1].served
         /\ UNCHANGED <<slot, view>>
         /\ \E m \in Modules : req' = [req EXCEPT ![RequestAtHand].module = m]
  <1> DEFINE f == stack[1]
             g == [f EXCEPT !.quiet = f.quiet /\ f.pc /= "init"]
  <1>1. /\ stack /= <<>> /\ f \in Frame /\ f.pc \in Hooks \cup {"init", "action"}
        /\ UNCHANGED <<slot, view>>
        /\ \E m \in Modules : req' = [req EXCEPT ![RequestAtHand].module = m]
    BY Types DEF SetModule, Running
  <1>2. stack' = [stack EXCEPT ![1] = g]
    BY DEF SetModule
  <1>3. (f.quiet /\ f.pc /= "init") \in BOOLEAN
    OBVIOUS
  <1>4. /\ g \in Frame /\ g.pc = f.pc /\ g.quiet = (f.quiet /\ f.pc /= "init")
        /\ g.module = f.module /\ g.alone = f.alone /\ g.nesting = f.nesting
        /\ g.served = f.served
    BY <1>1, <1>3, Zenon DEF Frame
  <1> HIDE DEF g
  <1>5. stack' /= <<>> /\ stack'[1] = g
    BY <1>1, <1>2, <1>4, Types, Changed
  <1> QED BY <1>1, <1>4, <1>5

\* A hook or a loop's end is no business of QuietFrame.
LEMMA NextFrame ==
  ASSUME TypeOK, stack /= <<>>, NEW pc \in Hooks \cup {"failed", "action"},
         stack' = [stack EXCEPT ![1].pc = pc]
  PROVE  /\ stack'[1].pc = pc /\ stack'[1].module = stack[1].module
         /\ stack'[1].quiet = stack[1].quiet
  <1> DEFINE g == [stack[1] EXCEPT !.pc = pc]
  <1>1. /\ g \in Frame /\ g.pc = pc /\ g.module = stack[1].module /\ g.quiet = stack[1].quiet
    BY Types, ZenonT(40) DEF Frame
  <1> HIDE DEF g
  <1>2. stack'[1] = g
    BY <1>1, Types, Changed DEF g
  <1> QED BY <1>1, <1>2

LEMMA LoopedFrame ==
  ASSUME TypeOK, PostDispatchReturns
  PROVE  /\ stack'[1].pc = IF NextRound(stack[1].nesting) THEN "preDispatch"
                           ELSE "dispatchLoopShutdown"
         /\ stack'[1].nesting = stack[1].nesting - 1
         /\ stack'[1].served = req[stack[1].given].dispatched
         /\ stack'[1].alone = stack[1].alone
  <1> DEFINE f == stack[1]
             h == [f EXCEPT !.nesting = f.nesting - 1, !.served = req[f.given].dispatched,
                            !.pc = IF NextRound(f.nesting) THEN "preDispatch"
                                   ELSE "dispatchLoopShutdown"]
  <1>1. /\ stack /= <<>> /\ f \in Frame /\ 1 \in DOMAIN stack
        /\ stack' = [stack EXCEPT ![1] = h] /\ stack \in Seq(Frame)
    BY Types DEF PostDispatchReturns, At, Running
  <1>2. /\ h.nesting = f.nesting - 1 /\ h.served = req[f.given].dispatched
        /\ h.pc = IF NextRound(f.nesting) THEN "preDispatch" ELSE "dispatchLoopShutdown"
        /\ h.alone = f.alone
    BY <1>1 DEF Frame
  <1> HIDE DEF h
  <1>3. stack'[1] = h
    BY <1>1
  <1> QED BY <1>2, <1>3

LEMMA QuietFrameStep ==
  ASSUME TypeOK, LoopInv, InnerInv, QuietInv, [Next]_vars, stack' /= <<>>, stack'[1].quiet
  PROVE  QuietFrame(stack[1])'
  <1> DEFINE f == stack[1]
             g == stack'[1]
  <1>0. stack \in Seq(Frame) /\ slot \in Requests
    BY Types
  <1>1. ASSUME NEW r \in Requests, Enter(r)
        PROVE  QuietFrame(stack[1])'
    <2>1. g = FirstFrame(r)
      BY <1>1, Entered
    <2>2. g.pc \in {"dispatchLoopStartup", "routerStartup"}
      BY <2>1 DEF FirstFrame
    <2> QED BY <2>2 DEF QuietFrame
  <1>2. ASSUME NEW e \in BOOLEAN, NEW n \in Nat, Handles(e, n), stack /= <<>>, slot' = slot
        PROVE  QuietFrame(stack[1])'
    BY <1>2, HandledFrame DEF QuietFrame
  <1>3. ASSUME g.pc \in Hooks \cup {"failed"}
        PROVE  QuietFrame(stack[1])'
    BY <1>3 DEF QuietFrame, Hooks
  <1>4. CASE Forward
    <2>1. UNCHANGED <<slot, view, stack>> /\ stack /= <<>> /\ f.pc \in Hooks \cup {"init", "action"}
      BY <1>4 DEF Forward, Running
    <2>2. f.quiet /\ QuietFrame(f) /\ f \in Frame
      BY <2>1, Types DEF QuietInv
    <2>3. CASE f.pc = "init"
      <3>1. f.owner = slot
        BY <2>2, <2>3 DEF QuietFrame
      <3>2. PICK m \in Modules : req' = [req EXCEPT ![slot].module = m, ![slot].dispatched = FALSE]
        BY <1>4, <2>3, <3>1 DEF Forward, RequestAtHand, Hooks
      <3>3. req'[slot].dispatched = FALSE
        BY <1>0, <3>2, Types DEF Request
      <3> QED BY <2>1, <2>2, <2>3, <3>3 DEF QuietFrame
    <2>4. CASE f.pc /= "init"
      BY <2>1, <2>2, <2>4 DEF QuietFrame
    <2> QED BY <2>3, <2>4
  <1>5. CASE SetModule
    <2>1. /\ stack /= <<>> /\ g.pc = f.pc /\ f.quiet /\ f.pc \in Hooks \cup {"action"}
          /\ g.module = f.module /\ view' = view
      BY <1>5, RenamedFrame
    <2>2. QuietFrame(f)
      BY <2>1 DEF QuietInv
    <2> QED BY <2>1, <2>2 DEF QuietFrame, Hooks
  <1>6. CASE Throw \/ Catch \/ UNCHANGED vars
    BY <1>6 DEF Throw, Catch, vars, QuietInv, QuietFrame
  <1>7. CASE InitReturns
    <2>0. f.pc = "init" /\ stack /= <<>> /\ f \in Frame /\ slot' = slot
      BY <1>7, Types DEF InitReturns, At, Running
    <2>1. CASE ~req[slot].dispatched
      <3>1. Handles(f.error, f.rounds) /\ f.error \in BOOLEAN /\ f.rounds \in Nat
        BY <1>7, <2>0, <2>1 DEF InitReturns, Frame
      <3> QED BY <1>2, <2>0, <3>1
    <2>2. CASE req[slot].dispatched
      <3>1. stack' = [stack EXCEPT ![1].pc = "action"] /\ view' = ViewDir(f) /\ req' = req
        BY <1>7, <2>2 DEF InitReturns
      <3>2. g.pc = "action" /\ g.module = f.module /\ g.quiet = f.quiet
        BY <2>0, <3>1, NextFrame
      <3>3. QuietFrame(f)
        BY <2>0, <3>2 DEF QuietInv
      <3>4. view' = f.module
        BY <2>0, <2>2, <3>1, <3>3 DEF QuietFrame, ViewDir
      <3> QED BY <3>2, <3>4 DEF QuietFrame
    <2> QED BY <2>1, <2>2
  <1>8. ASSUME NEW flush \in BOOLEAN, ActionRenders(flush)
        PROVE  QuietFrame(stack[1])'
    <2>1. g.pc = "render" /\ g.dir = view /\ g.module = f.module /\ g.quiet = f.quiet
      BY <1>8, RenderedFrame DEF BeginsPage
    <2>2. f.pc = "action" /\ stack /= <<>>
      BY <1>8 DEF ActionRenders, At, Running
    <2>3. view = f.module
      BY <2>1, <2>2 DEF QuietInv, QuietFrame
    <2> QED BY <2>1, <2>3 DEF QuietFrame
  <1>9. CASE PreDispatchReturns \/ HandlerRuns
    <2>1. stack /= <<>> /\ slot' = slot /\ f \in Frame
      BY <1>9, Types DEF PreDispatchReturns, HandlerRuns, At, Running
    <2>2. f.rounds \in Nat /\ f.rounds + 1 \in Nat
      BY <2>1 DEF Frame
    <2>3. Handles(FALSE, f.rounds + 1) \/ Handles(TRUE, f.rounds)
      BY <1>9 DEF PreDispatchReturns, HandlerRuns
    <2> QED BY <1>2, <2>1, <2>2, <2>3
  <1>10. CASE RouterStartupReturns \/ RouterShutdownReturns \/ LoopStartupReturns \/ LoopFails
    <2>1. stack /= <<>>
      BY <1>10 DEF RouterStartupReturns, RouterShutdownReturns, LoopStartupReturns,
                          LoopFails, At, Running
    <2>2. PICK p \in Hooks \cup {"failed"} : stack' = [stack EXCEPT ![1].pc = p]
      BY <1>10 DEF RouterStartupReturns, RouterShutdownReturns, LoopStartupReturns,
                   LoopFails, Hooks
    <2>3. g.pc = p
      BY <2>1, <2>2, NextFrame
    <2> QED BY <1>3, <2>3
  <1>11. CASE PostDispatchReturns
    BY <1>3, <1>11, LoopedFrame DEF Hooks
  <1>12. CASE \/ ActionReturnsFalse \/ RenderReturns \/ DisplayReturns \/ RenderFails
              \/ DispatchReturns \/ ExceptionLeaves \/ ErrorControllerThrew
    BY <1>3, <1>12, ReturnedFrame DEF Hooks
  <1> QED BY <1>1, <1>4, <1>5, <1>6, <1>7, <1>8, <1>9, <1>10, <1>11, <1>12 DEF Next

-----------------------------------------------------------------------------
(* Views *)

GoodText(t) == \A k \in DOMAIN t : t[k].quiet => t[k].dir = t[k].module

GoodTexts ==
  GoodText(out) /\ \A i \in DOMAIN stack : GoodText(stack[i].body) /\ GoodText(stack[i].text)

LEMMA GoodPages ==
  QuietPageFromItsModule <=> GoodTexts
  BY DEF QuietPageFromItsModule, Pieces, Texts, GoodTexts, GoodText

LEMMA GoodJoined ==
  ASSUME NEW s \in Seq(Piece), NEW t \in Seq(Piece), GoodText(s), GoodText(t)
  PROVE  GoodText(s \o t)
  <1> DEFINE u == s \o t
  <1>1. \A k \in DOMAIN u : \/ k \in DOMAIN s /\ u[k] = s[k]
                            \/ k - Len(s) \in DOMAIN t /\ u[k] = t[k - Len(s)]
    BY Joined
  <1> HIDE DEF u
  <1>2. GoodText(u)
    BY <1>1 DEF GoodText
  <1> QED BY <1>2 DEF u

LEMMA GoodMine ==
  ASSUME stack /= <<>>, QuietInv, NEW p, NEW last, NEW kept, Mine(p, last, kept)
  PROVE  <<p>> \in Seq(Piece) /\ GoodText(<<p>>) /\ GoodText(<<>>)
  <1>1. p \in Piece /\ (p.quiet => p.dir = p.module)
    BY DEF QuietInv, QuietFrame, Mine
  <1>2. <<p>> \in Seq(Piece) /\ DOMAIN <<p>> = {1} /\ <<p>>[1] = p /\ DOMAIN <<>> = {}
    BY <1>1
  <1> QED BY <1>1, <1>2 DEF GoodText

\* A page of render() as it will be in the response.
LEMMA GoodPage ==
  ASSUME TypeOK, stack /= <<>>, QuietInv, NEW p, Mine(p, TRUE, TRUE),
         NEW b, b = stack[1].body \o Append(stack[1].text, p)
  PROVE  GoodText(b)
  <1>1. stack[1].body \in Seq(Piece) /\ stack[1].text \in Seq(Piece) /\ 1 \in DOMAIN stack
    BY FrameFields, Types
  <1>2. GoodText(stack[1].body) /\ GoodText(stack[1].text)
    BY <1>1, GoodPages DEF QuietInv, GoodTexts
  <1>3. p \in Piece /\ <<p>> \in Seq(Piece) /\ GoodText(<<p>>)
    BY GoodMine DEF Mine
  <1>4. b = (stack[1].body \o stack[1].text) \o <<p>>
    BY <1>1, <1>3, PieceAdded
  <1>5. /\ stack[1].body \o stack[1].text \in Seq(Piece)
        /\ GoodText(stack[1].body \o stack[1].text)
    BY <1>1, <1>2, GoodJoined, ConcatProperties
  <1> QED BY <1>3, <1>4, <1>5, GoodJoined

\* What the innermost dispatch keeps and writes when it goes on, or sends at its end.
LEMMA GoodStep ==
  ASSUME TypeOK, QuietInv, NEW g, NEW t, GoesOn(g, t)
  PROVE  GoodText(g.body) /\ GoodText(g.text) /\ GoodText(t)
  <1>1. stack /= <<>> /\ 1 \in DOMAIN stack /\ TextStep(g, t)
    BY Types DEF GoesOn
  <1>2. GoodText(stack[1].body) /\ GoodText(stack[1].text) /\ GoodText(<<>>)
    BY <1>1, GoodPages DEF QuietInv, GoodTexts, GoodText
  <1>3. ASSUME NEW p, Mine(p, FALSE, TRUE), g.text = <<p>>
        PROVE  GoodText(g.text)
    BY <1>1, <1>3, GoodMine
  <1>4. ASSUME NEW p, Mine(p, TRUE, TRUE), g.body = stack[1].body \o Append(stack[1].text, p)
        PROVE  GoodText(g.body)
    BY <1>1, <1>4, GoodPage
  <1>5. ASSUME NEW p, Mine(p, p.last, FALSE), t = <<p>>
        PROVE  GoodText(t)
    BY <1>1, <1>5, GoodMine
  <1> QED BY <1>1, <1>2, <1>3, <1>4, <1>5 DEF TextStep

LEMMA GoodSent ==
  ASSUME TypeOK, QuietInv, NEW t, Leaves(t)
  PROVE  GoodText(t)
  <1>1. stack /= <<>> /\ 1 \in DOMAIN stack /\ SendStep(t) /\ stack[1].body \in Seq(Piece)
    BY Types, FrameFields DEF Leaves
  <1>2. GoodText(stack[1].body) /\ GoodText(<<>>)
    BY <1>1, GoodPages DEF QuietInv, GoodTexts, GoodText
  <1>3. ASSUME NEW p, Mine(p, TRUE, TRUE), t = stack[1].body \o Append(stack[1].text, p)
        PROVE  GoodText(t)
    BY <1>1, <1>3, GoodPage
  <1>4. ASSUME NEW p, Mine(p, TRUE, FALSE), t = <<p>> \o stack[1].body
        PROVE  GoodText(t)
    <2>1. <<p>> \in Seq(Piece) /\ GoodText(<<p>>)
      BY <1>1, <1>4, GoodMine
    <2> QED BY <1>1, <1>2, <1>4, <2>1, GoodJoined
  <1> QED BY <1>1, <1>2, <1>3, <1>4 DEF SendStep

LEMMA GoodWritten ==
  ASSUME NEW s \in Seq(Frame), NEW t \in Seq(Piece), out \in Seq(Piece), Wrote(s, t),
         GoodText(out), GoodText(t),
         \A i \in DOMAIN s : GoodText(s[i].body) /\ GoodText(s[i].text)
  PROVE  GoodTexts'
  <1>1. GoodText(out')
    BY GoodJoined DEF Wrote, Writes
  <1>2. DOMAIN stack' = DOMAIN s
    BY Written
  <1>3. ASSUME NEW i \in DOMAIN s
        PROVE  GoodText(stack'[i].body) /\ GoodText(stack'[i].text)
    <2>1. Like(stack'[i], s[i]) /\ Buffers(stack'[i], s[i], t) /\ s[i] \in Frame
      BY Written
    <2>2. stack'[i].body = s[i].body
      BY <2>1 DEF Like
    <2>3. s[i].text \in Seq(Piece)
      BY <2>1, WholeType
    <2>4. GoodText(s[i].text \o t)
      BY <2>3, GoodJoined
    <2> QED BY <2>1, <2>2, <2>4 DEF Buffers
  <1> QED BY <1>1, <1>2, <1>3 DEF GoodTexts, GoodText

LEMMA QuietPages ==
  ASSUME TypeOK, LoopInv, QuietInv, [Next]_vars
  PROVE  QuietPageFromItsModule'
  <1>0. stack \in Seq(Frame) /\ out \in Seq(Piece) /\ \A i \in DOMAIN stack : stack[i] \in Frame
    BY Types
  <1>1. GoodTexts
    BY GoodPages DEF QuietInv
  <1>2. ASSUME Stays
        PROVE  GoodTexts'
    BY <1>1, <1>2 DEF Stays, GoodTexts, GoodText
  <1>3. ASSUME NEW r \in Requests, Enter(r)
        PROVE  GoodTexts'
    <2>1. out' = out /\ stack'[1] = FirstFrame(r)
      BY <1>3, Entered DEF Enter
    <2>2. GoodText(FirstFrame(r).body) /\ GoodText(FirstFrame(r).text)
      BY DEF FirstFrame, GoodText
    <2>3. ASSUME NEW i \in DOMAIN stack', i /= 1
          PROVE  GoodText(stack'[i].body) /\ GoodText(stack'[i].text)
      <3>1. i - 1 \in DOMAIN stack /\ stack'[i] = Outer(stack[i - 1])
        BY <1>3, <2>3, EnteredBelow
      <3>2. stack'[i].body = stack[i - 1].body /\ stack'[i].text = stack[i - 1].text
        BY <1>0, <3>1, OuterFrame
      <3> QED BY <1>1, <3>1, <3>2 DEF GoodTexts
    <2>4. \A i \in DOMAIN stack' : GoodText(stack'[i].body) /\ GoodText(stack'[i].text)
      BY <2>1, <2>2, <2>3
    <2> QED BY <1>1, <2>1, <2>4 DEF GoodTexts, GoodText
  <1>4. ASSUME NEW g, NEW t, GoesOn(g, t)
        PROVE  GoodTexts'
    <2> DEFINE s == [stack EXCEPT ![1] = g]
    <2>1. /\ s \in Seq(Frame) /\ s[1] = g /\ DOMAIN s = DOMAIN stack
          /\ \A i \in DOMAIN s : i /= 1 => s[i] = stack[i]
          /\ t \in Seq(Piece) /\ Wrote(s, t)
      BY <1>4, Going
    <2>2. GoodText(g.body) /\ GoodText(g.text) /\ GoodText(t)
      BY <1>4, GoodStep
    <2> HIDE DEF s
    <2>3. \A i \in DOMAIN s : GoodText(s[i].body) /\ GoodText(s[i].text)
      BY <1>1, <2>1, <2>2 DEF GoodTexts
    <2>4. GoodText(out)
      BY <1>1 DEF GoodTexts
    <2> QED BY <1>0, <2>1, <2>2, <2>3, <2>4, GoodWritten
  <1>5. ASSUME NEW t, Leaves(t)
        PROVE  GoodTexts'
    <2> DEFINE s == Tail(stack)
    <2>1. stack /= <<>> /\ t \in Seq(Piece) /\ Wrote(s, t)
      BY <1>5 DEF Leaves
    <2>2. s \in Seq(Frame) /\ \A i \in DOMAIN s : i + 1 \in DOMAIN stack /\ s[i] = stack[i + 1]
      BY <1>0, <2>1, Popped
    <2> HIDE DEF s
    <2>3. \A i \in DOMAIN s : GoodText(s[i].body) /\ GoodText(s[i].text)
      BY <1>1, <2>2 DEF GoodTexts
    <2>4. GoodText(out) /\ GoodText(t)
      BY <1>1, <1>5, GoodSent DEF GoodTexts
    <2> QED BY <1>0, <2>1, <2>2, <2>3, <2>4, GoodWritten
  <1>6. GoodTexts'
    BY <1>2, <1>3, <1>4, <1>5, Shapes
  <1>7. (QuietPageFromItsModule <=> GoodTexts)'
    BY GoodPages, PTL
  <1> QED BY <1>6, <1>7

LEMMA QuietStep ==
  ASSUME TypeOK, LoopInv, InnerInv, QuietInv, [Next]_vars
  PROVE  QuietInv'
  BY QuietFrameStep, QuietPages DEF QuietInv

-----------------------------------------------------------------------------
(* A dispatch in which no other one began *)

\* The flag of the request that a dispatch alone looks at is, at the end of its
\* loop, the flag of its own request.
LEMMA LoneLoopEnd ==
  ASSUME TypeOK, LoopInv, LoneInv, PostDispatchReturns, stack'[1].alone,
         stack'[1].pc = "dispatchLoopShutdown"
  PROVE  stack'[1].served \/ (stack'[1].nesting = 0 /\ ~req'[slot].dispatched)
  <1> DEFINE f == stack[1]
  <1>1. stack /= <<>> /\ f \in Frame /\ 1 \in DOMAIN stack /\ f.pc = "postDispatch" /\ req' = req
    BY Types DEF PostDispatchReturns, At, Running
  <1>2. /\ f.nesting \in 0 .. ForwardLimit /\ f.nesting > 0 /\ ForwardLimit \in Nat
    BY <1>1, Types DEF LoopInv, LoopFrame, Frame
  <1>3. /\ stack'[1].nesting = f.nesting - 1 /\ stack'[1].served = req[f.given].dispatched
        /\ stack'[1].pc = IF NextRound(f.nesting) THEN "preDispatch" ELSE "dispatchLoopShutdown"
        /\ stack'[1].alone = f.alone
    BY LoopedFrame
  <1>4. ~NextRound(f.nesting) /\ f.given = slot
    BY <1>1, <1>3 DEF LoneInv
  <1>5. f.nesting - 1 > 0 => req[slot].dispatched
    BY <1>4 DEF NextRound
  <1>6. f.nesting - 1 = 0 \/ f.nesting - 1 > 0
    BY <1>2
  <1> QED BY <1>1, <1>3, <1>4, <1>5, <1>6

LEMMA LoneGiven ==
  ASSUME TypeOK, LoopInv, InnerInv, LoneInv, [Next]_vars, stack' /= <<>>, stack'[1].alone
  PROVE  stack'[1].given = slot'
  <1>1. ASSUME NEW r \in Requests, Enter(r)
        PROVE  stack'[1].given = slot'
    <2>1. stack'[1] = FirstFrame(r) /\ slot' = r
      BY <1>1, Entered DEF Enter
    <2>2. FirstFrame(r).given = r
      BY DEF FirstFrame
    <2> QED BY <2>1, <2>2
  <1>2. CASE Stays
    BY <1>2 DEF Stays, LoneInv
  <1>3. ASSUME NEW g, NEW t, GoesOn(g, t)
        PROVE  stack'[1].given = slot'
    <2>1. /\ stack /= <<>> /\ g.given = stack[1].given /\ g.alone = stack[1].alone /\ slot' = slot
      BY <1>3 DEF GoesOn
    <2>2. Like(stack'[1], g)
      BY <1>3, Gone
    <2> QED BY <2>1, <2>2 DEF LoneInv, Like
  <1>4. ASSUME NEW t, Leaves(t)
        PROVE  FALSE
    BY <1>4, UncoveredFrame
  <1> QED BY <1>1, <1>2, <1>3, <1>4, Shapes

\* The innermost dispatch comes to dispatchLoopShutdown from postDispatch only.
LEMMA LoneEnd ==
  ASSUME TypeOK, LoopInv, InnerInv, LoneInv, [Next]_vars, stack' /= <<>>, stack'[1].alone,
         stack'[1].pc = "dispatchLoopShutdown"
  PROVE  stack'[1].served \/ (stack'[1].nesting = 0 /\ ~req'[slot'].dispatched)
  <1> DEFINE f == stack[1]
             g == stack'[1]
  <1>0. stack \in Seq(Frame) /\ slot \in Requests
    BY Types
  <1>1. ASSUME NEW r \in Requests, Enter(r)
        PROVE  FALSE
    <2>1. g = FirstFrame(r)
      BY <1>1, Entered
    <2> QED BY <2>1 DEF FirstFrame
  <1>2. CASE Throw \/ Catch \/ UNCHANGED vars
    BY <1>2 DEF Throw, Catch, vars, LoneInv
  <1>3. CASE Forward
    <2>1. stack' = stack /\ slot' = slot /\ f.pc \in Hooks
      BY <1>3 DEF Forward, Hooks
    <2>2. PICK m \in Modules : req' = [req EXCEPT ![slot].module = m, ![slot].dispatched = FALSE]
      BY <1>3, <2>1 DEF Forward, RequestAtHand
    <2>3. req'[slot].dispatched = FALSE
      BY <2>2, Types DEF Request
    <2> QED BY <2>1, <2>3 DEF LoneInv
  <1>4. CASE SetModule
    <2>1. /\ stack /= <<>> /\ f.pc = "dispatchLoopShutdown" /\ f.alone /\ slot' = slot
          /\ g.nesting = f.nesting /\ g.served = f.served
      BY <1>4, RenamedFrame
    <2>2. PICK m \in Modules, r \in {slot, f.owner} : req' = [req EXCEPT ![r].module = m]
      BY <1>4, RenamedFrame DEF RequestAtHand
    <2>3. req'[slot].dispatched = req[slot].dispatched
      BY <2>2, Types DEF Request
    <2> QED BY <2>1, <2>3 DEF LoneInv
  <1>5. ASSUME NEW p \in Hooks \cup {"failed", "action"}, p /= "dispatchLoopShutdown",
               stack /= <<>>, stack' = [stack EXCEPT ![1].pc = p]
        PROVE  FALSE
    BY <1>5, NextFrame
  <1>6. CASE RouterStartupReturns \/ RouterShutdownReturns \/ LoopStartupReturns \/ LoopFails
    BY <1>5, <1>6 DEF RouterStartupReturns, RouterShutdownReturns, LoopStartupReturns,
                      LoopFails, At, Running, Hooks
  <1>7. ASSUME NEW e \in BOOLEAN, NEW n \in Nat, Handles(e, n), stack /= <<>>
        PROVE  FALSE
    BY <1>7, HandledFrame
  <1>8. CASE InitReturns
    <2>1. stack /= <<>> /\ f \in Frame
      BY <1>8, Types DEF InitReturns, At, Running
    <2>2. f.error \in BOOLEAN /\ f.rounds \in Nat
      BY <2>1 DEF Frame
    <2>3. Handles(f.error, f.rounds) \/ stack' = [stack EXCEPT ![1].pc = "action"]
      BY <1>8 DEF InitReturns
    <2> QED BY <1>5, <1>7, <2>1, <2>2, <2>3
  <1>9. ASSUME NEW flush \in BOOLEAN, ActionRenders(flush)
        PROVE  FALSE
    BY <1>9, RenderedFrame DEF BeginsPage
  <1>10. CASE PreDispatchReturns \/ HandlerRuns
    <2>1. stack /= <<>> /\ f \in Frame
      BY <1>10, Types DEF PreDispatchReturns, HandlerRuns, At, Running
    <2>2. f.rounds \in Nat /\ f.rounds + 1 \in Nat
      BY <2>1 DEF Frame
    <2>3. Handles(FALSE, f.rounds + 1) \/ Handles(TRUE, f.rounds)
      BY <1>10 DEF PreDispatchReturns, HandlerRuns
    <2> QED BY <1>7, <2>1, <2>2, <2>3
  <1>11. CASE PostDispatchReturns
    <2>1. slot' = slot
      BY <1>11 DEF PostDispatchReturns
    <2> QED BY <1>11, <2>1, LoneLoopEnd
  <1>12. CASE \/ ActionReturnsFalse \/ RenderReturns \/ DisplayReturns \/ RenderFails
              \/ DispatchReturns \/ ExceptionLeaves \/ ErrorControllerThrew
    BY <1>12, ReturnedFrame
  <1> QED BY <1>1, <1>2, <1>3, <1>4, <1>6, <1>8, <1>9, <1>10, <1>11, <1>12 DEF Next

\* Only DispatchReturns adds to hist.dropped.
LEMMA LoneDropped ==
  ASSUME TypeOK, LoopInv, LoneInv, [Next]_vars
  PROVE  LoneForwardFollowed'
  <1>0. hist \in HistType
    BY VariableTypes
  <1>1. CASE DispatchReturns
    <2> DEFINE f == stack[1]
    <2>1. /\ stack /= <<>> /\ f.pc = "dispatchLoopShutdown" /\ ~LeftOver
          /\ hist' = IF f.served THEN hist
                     ELSE [hist EXCEPT !.dropped = hist.dropped
                                         \cup {[given |-> f.given, alone |-> f.alone]}]
      BY <1>1 DEF DispatchReturns, At, Running
    <2>2. f.alone => f.served
      BY <2>1 DEF LoneInv, LeftOver
    <2>3. hist'.dropped = hist.dropped
            \/ (~f.alone /\ hist'.dropped = hist.dropped \cup {[given |-> f.given, alone |-> f.alone]})
      BY <1>0, <2>1, <2>2 DEF HistType
    <2> QED BY <2>3 DEF LoneInv, LoneForwardFollowed
  <1>2. CASE hist' = hist
    BY <1>2 DEF LoneInv, LoneForwardFollowed
  <1>3. ASSUME \/ Forward \/ SetModule \/ (\E flush \in BOOLEAN : ActionRenders(flush))
               \/ RenderReturns \/ DisplayReturns \/ HandlerRuns \/ \E r \in Requests : Enter(r)
        PROVE  hist'.dropped = hist.dropped
    BY <1>0, <1>3 DEF Forward, SetModule, ActionRenders, RenderReturns, DisplayReturns,
                      HandlerRuns, Enter, HistType
  <1>4. CASE hist'.dropped = hist.dropped
    BY <1>4 DEF LoneInv, LoneForwardFollowed
  <1> QED BY <1>1, <1>2, <1>3, <1>4 DEF Next, vars, Throw, Catch, RouterStartupReturns,
            RouterShutdownReturns, LoopStartupReturns, PreDispatchReturns, PostDispatchReturns,
            LoopFails, InitReturns, ActionReturnsFalse, RenderFails, ExceptionLeaves,
            ErrorControllerThrew

LEMMA LoneStep ==
  ASSUME TypeOK, LoopInv, InnerInv, LoneInv, [Next]_vars
  PROVE  LoneInv'
  BY LoneGiven, LoneEnd, LoneDropped DEF LoneInv

LEMMA EmptyStackInit ==
  ASSUME Init
  PROVE  InnerInv /\ QuietInv /\ LoneInv
  <1>1. stack = <<>> /\ out = <<>> /\ DOMAIN stack = {} /\ DOMAIN out = {} /\ hist.dropped = {}
    BY DEF Init
  <1> QED BY <1>1 DEF InnerInv, QuietInv, LoneInv, QuietPageFromItsModule, Pieces, Texts,
                      LoneForwardFollowed

-----------------------------------------------------------------------------
(* Theorems *)

\* For every number of requests, every forward_limit and every depth of dispatches
\* in dispatches: no dispatch of yaf_dispatcher_dispatch makes more than
\* forward_limit rounds of its loop, although an inner dispatch may have put another
\* request where the loop's condition looks.
THEOREM NestedRoundsBounded == Spec => []RoundsPerDispatch
  <1>1. LoopInv => RoundsPerDispatch
    BY DEF LoopInv, LoopFrame, RoundsPerDispatch
  <1> QED BY <1>1, NestedTypes, PTL

\* YAF_G(in_exception) is one flag for the whole stack, and it is enough: the
\* exception handler runs at most once, and what leaves the outermost dispatch has
\* been to it.
THEOREM NestedHandlerOnce == Spec => []HandlerOnceForAll
  <1>1. Init => HandlerInv
    BY HandlerInit
  <1>2. TypeOK /\ LoopInv /\ HandlerInv /\ [Next]_vars => HandlerInv'
    BY HandlerStep
  <1>3. HandlerInv => HandlerOnceForAll
    BY HandlerInvImplies
  <1> QED BY <1>1, <1>2, <1>3, NestedTypes, PTL DEF Spec

\* What an inner dispatch sends lands in the output buffer of the template that
\* started it, inside that page, or before or behind all pages of a response; by no
\* interleaving of rounds, forwards, exceptions and display() does it come between
\* two pages that one dispatch collects, in the output or in any buffer.
THEOREM NestedPagesTogether == Spec => []PagesTogether
  <1>1. Init => PagesInv
    BY PagesInit
  <1>2. TypeOK /\ LoopInv /\ PagesInv /\ [Next]_vars => PagesInv'
    BY PagesStep
  <1>3. TypeOK /\ PagesInv => PagesTogether
    BY PagesInvImplies
  <1> QED BY <1>1, <1>2, <1>3, NestedTypes, PTL DEF Spec

\* YAF_G(view_directory) is a global, and still the page of a controller that
\* starts no dispatch, and whose init() does not call setModuleName(), comes from
\* the views of its own module.
THEOREM NestedQuietPages == Spec => []QuietPageFromItsModule
  <1>1. Init => InnerInv /\ QuietInv
    BY EmptyStackInit
  <1>2. TypeOK /\ LoopInv /\ InnerInv /\ QuietInv /\ [Next]_vars => (InnerInv /\ QuietInv)'
    BY InnerStep, QuietStep
  <1>3. QuietInv => QuietPageFromItsModule
    BY DEF QuietInv
  <1> QED BY <1>1, <1>2, <1>3, NestedTypes, PTL DEF Spec

\* The loop of a dispatch in which no other one began follows every forward of its
\* own request, or reports the limit, in whatever dispatch it runs itself.
THEOREM NestedLoneForward == Spec => []LoneForwardFollowed
  <1>1. Init => InnerInv /\ LoneInv
    BY EmptyStackInit
  <1>2. TypeOK /\ LoopInv /\ InnerInv /\ LoneInv /\ [Next]_vars => (InnerInv /\ LoneInv)'
    BY InnerStep, LoneStep
  <1>3. LoneInv => LoneForwardFollowed
    BY DEF LoneInv
  <1> QED BY <1>1, <1>2, <1>3, NestedTypes, PTL DEF Spec
=============================================================================
