------------------------ MODULE YafApplicationProofs ------------------------
(***************************************************************************)
(* Proofs about YafApplication, for every set of objects, configurations   *)
(* and bootstrap files and every depth of calls.                           *)
(***************************************************************************)
EXTENDS YafApplication, SequenceTheorems, TLAPS

\* Why the properties hold together: whoever is whole was made when there was
\* no dispatcher, and an application that ran is marked as running.
IInv ==
  /\ TypeOK
  /\ CurrentIsWhole
  /\ OneApplication
  /\ \A a \in Objects : Whole(a) => dispatcher
  /\ \A a \in Objects : app[a].runs = 0 \/ (app[a].runs = 1 /\ app[a].running)

LEMMA IInvImplies == IInv => TypeOK /\ CurrentIsWhole /\ OneApplication /\ RunOnce
  BY DEF IInv, TypeOK, RunOnce

States == {"unborn", "whole", "hollow", "gone"}
AppType == [Objects -> [state : States, held : BOOLEAN, running : BOOLEAN, runs : Nat, errno : BOOLEAN]]
OptionType == [throwException : BOOLEAN, bootstrap : DOMAIN Script \cup {Null},
               directory : Directories \cup {Null}]
HistType == [paths : SUBSET DOMAIN Script, silenced : BOOLEAN]
Frames == [op : {"run", "bootstrap"}, app : Objects, next : 1 .. Inits]

\* No object becomes whole, and none runs or forgets that it did.
Kept ==
  /\ app' \in AppType
  /\ \A a \in Objects : /\ app'[a].runs = app[a].runs
                        /\ app[a].running => app'[a].running
                        /\ app'[a].state = "whole" => app[a].state = "whole"

\* What such a step leaves to be shown of the invariant.
LEMMA KeptStep ==
  ASSUME IInv, Kept, dispatcher => dispatcher'
  PROVE  /\ OneApplication'
         /\ \A a \in Objects : Whole(a)' => dispatcher'
         /\ \A a \in Objects : app'[a].runs = 0 \/ (app'[a].runs = 1 /\ app'[a].running)
  BY DEF IInv, Kept, OneApplication, Whole

LEMMA Types ==
  ASSUME IInv
  PROVE  /\ app \in AppType /\ stack \in Seq(Frames)
         /\ current \in Objects \cup {Null}
         /\ Null \notin Objects
  BY ApplicationAssumption DEF IInv, TypeOK, AppType, States, Frames

LEMMA UnchangedKept ==
  ASSUME IInv, UNCHANGED app
  PROVE  Kept
  BY Types DEF Kept

\* The destructor, and the engine freeing what only $_app referred to.
LEMMA DestroyKept ==
  ASSUME IInv, NEW a \in Objects, NEW s, Destroy(a, s)
  PROVE  Kept /\ current' = Null
  <1>1. PICK A : app' = Gone(A) /\ current' = Null
    BY DEF Destroy
  <1>2. app \in AppType
    BY Types
  <1>3. app' \in AppType
    BY <1>1, <1>2 DEF Gone, AppType, States
  <1>4. ASSUME NEW b \in Objects
        PROVE  /\ app'[b].runs = app[b].runs
               /\ app[b].running => app'[b].running
               /\ app'[b].state = "whole" => app[b].state = "whole"
    BY <1>1, <1>2 DEF Gone, AppType, States
  <1> QED BY <1>1, <1>3, <1>4 DEF Kept

LEMMA ReleaseKept ==
  ASSUME IInv, NEW a \in Objects, NEW s, Release(a, s)
  PROVE  /\ Kept
         /\ current' \in {Null, current}
         /\ current' /= Null => app'[current'].state = app[current].state
  <1>1. CASE current /= a /\ ~InCall(s, a)
    BY <1>1, DestroyKept DEF Release
  <1>2. CASE ~(current /= a /\ ~InCall(s, a))
    <2>1. app' = [app EXCEPT ![a].held = FALSE] /\ current' = current
      BY <1>2 DEF Release
    <2>2. app' \in AppType
      BY <2>1, Types DEF AppType
    <2>3. ASSUME NEW b \in Objects
          PROVE  /\ app'[b].runs = app[b].runs
                 /\ app[b].running => app'[b].running
                 /\ app'[b].state = app[b].state
      BY <2>1, Types DEF AppType
    <2>4. Kept
      BY <2>2, <2>3 DEF Kept
    <2> QED BY <2>1, <2>3, <2>4, Types
  <1> QED BY <1>1, <1>2

LEMMA PopKept ==
  ASSUME IInv, stack /= <<>>, PopFrame
  PROVE  /\ Kept
         /\ current' \in {Null, current}
         /\ current' /= Null => app'[current'].state = app[current].state
         /\ stack' \in Seq(Frames)
  <1> DEFINE a == stack[1].app
             s == Tail(stack)
  <1>1. stack \in Seq(Frames)
    BY Types
  <1>2. stack[1] \in Frames /\ s \in Seq(Frames)
    BY <1>1
  <1>3. a \in Objects
    BY <1>2 DEF Frames
  <1>4. stack' = s
    BY DEF PopFrame
  <1>5. CASE app[a].held \/ current = a \/ InCall(s, a)
    <2>1. UNCHANGED <<app, current>>
      BY <1>5 DEF PopFrame
    <2> QED BY <1>2, <1>4, <2>1, UnchangedKept
  <1>6. CASE ~(app[a].held \/ current = a \/ InCall(s, a))
    <2>1. Destroy(a, s)
      BY <1>6 DEF PopFrame
    <2> QED BY <1>2, <1>3, <1>4, <2>1, DestroyKept
  <1> QED BY <1>5, <1>6

\* yaf_trigger_error, for a caller that changes only the object a, and leaves
\* the current application whole.
LEMMA ErrorKept ==
  ASSUME IInv, NEW throws \in BOOLEAN, NEW thrown \in AppType, NEW to \in AppType,
         TriggerError(throws, thrown, to),
         \A b \in Objects : /\ thrown[b].runs = app[b].runs /\ to[b].runs = app[b].runs
                            /\ app[b].running => thrown[b].running /\ to[b].running
                            /\ thrown[b].state = "whole" <=> app[b].state = "whole"
                            /\ to[b].state = "whole" <=> app[b].state = "whole"
  PROVE  /\ Kept
         /\ current /= Null => app'[current].state = "whole"
         /\ mode' \in {"on", "dead", "crashed"}
         /\ exc' \in BOOLEAN
         /\ UNCHANGED <<current, class, handler, stack>>
  <1>0. /\ current /= Null => current \in Objects /\ app[current].state = "whole"
        /\ exc \in BOOLEAN
    BY Types DEF IInv, TypeOK, CurrentIsWhole, Whole
  <1>1. CASE throws
    BY <1>0, <1>1 DEF TriggerError, Kept
  <1>2. CASE ~throws /\ current = Null
    BY <1>0, <1>2, UnchangedKept DEF TriggerError
  <1>3. CASE ~throws /\ current /= Null
    <2>1. /\ app' = [to EXCEPT ![current].errno = TRUE]
          /\ mode' \in {"on", "dead"} /\ exc' = exc
          /\ UNCHANGED <<current, class, handler, stack>>
      BY <1>3 DEF TriggerError
    <2>2. app' \in AppType
      BY <2>1, ZenonT(40) DEF AppType
    <2>3. ASSUME NEW b \in Objects
          PROVE  /\ app'[b].runs = to[b].runs
                 /\ to[b].running => app'[b].running
                 /\ app'[b].state = to[b].state
      BY <2>1 DEF AppType
    <2>4. Kept
      BY <2>2, <2>3 DEF Kept
    <2> QED BY <1>0, <1>3, <2>1, <2>3, <2>4
  <1> QED BY <1>1, <1>2, <1>3

-----------------------------------------------------------------------------
\* What the invariant needs of a step, when no object becomes whole.
LEMMA QuietStep ==
  ASSUME IInv, Kept,
         current' \in {Null, current},
         current' /= Null => app'[current'].state = "whole",
         dispatcher' \in BOOLEAN, dispatcher => dispatcher',
         options' \in OptionType, hist' \in HistType,
         class' \in Contents \cup {Null}, handler' \in BOOLEAN, exc' \in BOOLEAN,
         stack' \in Seq(Frames),
         mode' \in {mode, "on", "dead", "crashed"}
  PROVE  IInv'
  <1>1. TypeOK'
    BY Types DEF IInv, TypeOK, Kept, AppType, States, Frames, OptionType, HistType
  <1>2. CurrentIsWhole'
    BY DEF CurrentIsWhole, Whole
  <1> QED BY <1>1, <1>2, KeptStep DEF IInv

LEMMA CurrentWhole ==
  ASSUME IInv, current /= Null
  PROVE  app[current].state = "whole"
  BY DEF IInv, CurrentIsWhole, Whole

LEMMA VariableTypes ==
  ASSUME IInv
  PROVE  /\ mode \in {"ended", "start", "on", "dead", "crashed"}
         /\ dispatcher \in BOOLEAN /\ handler \in BOOLEAN /\ exc \in BOOLEAN
         /\ options \in OptionType /\ hist \in HistType
         /\ class \in Contents \cup {Null}
  BY DEF IInv, TypeOK, OptionType, HistType

LEMMA ParseTypes ==
  ASSUME IInv, NEW o \in Options, Parse(o)
  PROVE  options' \in OptionType /\ hist' \in HistType
  <1>1. options \in OptionType /\ hist \in HistType
    BY VariableTypes
  <1>2. /\ o.throwException \in {"on", "off", "unset"} /\ o.bootstrap \in DOMAIN Script \cup {Null}
        /\ o.directory \in Directories /\ Directories \subseteq DOMAIN Script
    BY ApplicationAssumption
  <1>3. options' \in OptionType
    BY <1>1, <1>2 DEF Parse, ParseOption, OptionType
  <1>4. hist' \in HistType
    BY <1>1, <1>2 DEF Parse, HistType
  <1> QED BY <1>3, <1>4

\* A constructor that fails.
LEMMA FailureKept ==
  ASSUME IInv, NEW a \in Objects, app[a].state = "unborn", NEW throws \in BOOLEAN,
         ConstructFails(a, throws),
         dispatcher' = dispatcher,
         options' \in OptionType, hist' \in HistType
  PROVE  IInv'
  <1> DEFINE thrown == [app EXCEPT ![a].state = "gone"]
             to == [app EXCEPT ![a].state = "hollow", ![a].held = TRUE]
  <1>1. app \in AppType
    BY Types
  <1>2. thrown \in AppType
    BY <1>1 DEF AppType, States
  <1>3. to \in AppType
    BY <1>1, ZenonT(40) DEF AppType, States
  <1>4. ASSUME NEW b \in Objects
        PROVE  /\ thrown[b].runs = app[b].runs /\ to[b].runs = app[b].runs
               /\ app[b].running => thrown[b].running /\ to[b].running
               /\ thrown[b].state = "whole" <=> app[b].state = "whole"
               /\ to[b].state = "whole" <=> app[b].state = "whole"
    BY <1>1 DEF AppType, States
  <1>5. TriggerError(throws, thrown, to)
    BY DEF ConstructFails
  <1> HIDE DEF thrown, to
  <1>6. /\ Kept
        /\ current /= Null => app'[current].state = "whole"
        /\ mode' \in {"on", "dead", "crashed"}
        /\ exc' \in BOOLEAN
        /\ UNCHANGED <<current, class, handler, stack>>
    BY <1>2, <1>3, <1>4, <1>5, ErrorKept
  <1> QED BY <1>6, QuietStep, Types, VariableTypes

LEMMA ConstructStep ==
  ASSUME IInv, NEW a \in Objects, NEW o \in Options, Construct(a, o)
  PROVE  IInv'
  <1>0. app[a].state = "unborn" /\ options.throwException \in BOOLEAN
    BY VariableTypes DEF Construct, OptionType
  <1>1. CASE OnlyOne(a, o)
    BY <1>0, <1>1, FailureKept, VariableTypes DEF OnlyOne, globals
  <1>2. CASE ConfigFails(a, o)
    BY <1>0, <1>2, FailureKept, VariableTypes DEF ConfigFails, globals
  <1>3. CASE DispatcherFails(a, o)
    <2>1. options' \in OptionType /\ hist' \in HistType
      BY <1>3, ParseTypes DEF DispatcherFails
    <2>2. options'.throwException \in BOOLEAN
      BY <2>1 DEF OptionType
    <2> QED BY <1>0, <1>3, <2>1, <2>2, FailureKept DEF DispatcherFails
  <1>4. CASE Built(a, o)
    <2>1. /\ app' = [app EXCEPT ![a].state = "whole", ![a].held = TRUE]
          /\ current' = a /\ mode' = "on" /\ dispatcher' = TRUE /\ ~dispatcher
          /\ UNCHANGED <<class, handler, exc, stack>>
      BY <1>4 DEF Built, DispatcherMissing
    <2>2. app \in AppType
      BY Types
    <2>3. app' \in AppType
      BY <2>1, <2>2 DEF AppType, States
    <2>4. options' \in OptionType /\ hist' \in HistType
      BY <1>4, ParseTypes DEF Built
    <2>5. TypeOK'
      BY <2>1, <2>3, <2>4, Types, VariableTypes
      DEF TypeOK, AppType, States, Frames, OptionType, HistType
    <2>6. \A b \in Objects : app[b].state /= "whole"
      BY <2>1 DEF IInv, Whole
    <2>7. \A b \in Objects : (app'[b].state = "whole") <=> b = a
      BY <2>1, <2>2, <2>6 DEF AppType, States
    <2>8. CurrentIsWhole' /\ OneApplication' /\ (\A b \in Objects : Whole(b)' => dispatcher')
      BY <2>1, <2>7 DEF CurrentIsWhole, OneApplication, Whole
    <2>9. \A b \in Objects : app'[b].runs = 0 \/ (app'[b].runs = 1 /\ app'[b].running)
      <3> SUFFICES ASSUME NEW b \in Objects
                   PROVE  app'[b].runs = 0 \/ (app'[b].runs = 1 /\ app'[b].running)
        OBVIOUS
      <3>1. app'[b].runs = app[b].runs /\ (app[b].running => app'[b].running)
        BY <2>1, <2>2 DEF AppType
      <3> QED BY <3>1 DEF IInv
    <2> QED BY <2>5, <2>8, <2>9 DEF IInv
  <1> QED BY <1>1, <1>2, <1>3, <1>4 DEF Construct

LEMMA RunStep ==
  ASSUME IInv, NEW a \in Objects, Run(a)
  PROVE  IInv'
  <1>1. app \in AppType /\ stack \in Seq(Frames)
    BY Types
  <1>2. CASE app[a].running
    <2>1. TriggerError(options.throwException, app, app) /\ UNCHANGED <<dispatcher, options, hist>>
      BY <1>2 DEF Run, globals
    <2>2. options.throwException \in BOOLEAN
      BY VariableTypes DEF OptionType
    <2>3. /\ Kept
          /\ current /= Null => app'[current].state = "whole"
          /\ mode' \in {"on", "dead", "crashed"}
          /\ exc' \in BOOLEAN
          /\ UNCHANGED <<current, class, handler, stack>>
      BY <1>1, <2>1, <2>2, ErrorKept
    <2> QED BY <1>1, <2>1, <2>3, QuietStep, VariableTypes
  <1>3. CASE ~app[a].running /\ ~Whole(a)
    <2>1. mode' = "crashed" /\ UNCHANGED <<app, stack, dispatcher, options, hist, current, class, handler, exc>>
      BY <1>3 DEF Run, globals
    <2>2. Kept
      BY <2>1, UnchangedKept
    <2>3. current' /= Null => app'[current'].state = "whole"
      BY <2>1, CurrentWhole
    <2> QED BY <1>1, <2>1, <2>2, <2>3, QuietStep, VariableTypes
  <1>4. CASE ~app[a].running /\ Whole(a)
    <2>1. /\ app' = [app EXCEPT ![a].running = TRUE, ![a].runs = @ + 1]
          /\ stack' = <<[op |-> "run", app |-> a, next |-> 1]>> \o stack
          /\ mode' = "on"
          /\ UNCHANGED <<dispatcher, options, hist, current, class, handler, exc>>
      BY <1>4 DEF Run, SetRunning, Push, globals
    <2>2. app' \in AppType
      BY <1>1, <2>1 DEF AppType
    <2>3. stack' \in Seq(Frames)
      <3>1. [op |-> "run", app |-> a, next |-> 1] \in Frames
        BY ApplicationAssumption DEF Frames
      <3> HIDE DEF Frames
      <3> QED BY <1>1, <2>1, <3>1
    <2>4. TypeOK'
      BY <2>1, <2>2, <2>3, Types, VariableTypes
      DEF TypeOK, AppType, States, Frames, OptionType, HistType
    <2>5. \A b \in Objects : app'[b].state = app[b].state
      BY <1>1, <2>1 DEF AppType
    <2>6. CurrentIsWhole' /\ OneApplication' /\ (\A b \in Objects : Whole(b)' => dispatcher')
      <3>1. current' = current /\ dispatcher' = dispatcher
        BY <2>1
      <3>2. \A b \in Objects : Whole(b)' <=> Whole(b)
        BY <2>5 DEF Whole
      <3>3. CurrentIsWhole /\ OneApplication /\ (\A b \in Objects : Whole(b) => dispatcher)
        BY DEF IInv
      <3>4. CurrentIsWhole'
        <4>1. CASE current = Null
          BY <3>1, <4>1 DEF CurrentIsWhole
        <4>2. CASE current /= Null
          <5>1. current \in Objects /\ Whole(current)
            BY <3>3, <4>2, Types DEF CurrentIsWhole
          <5>2. app'[current'].state = "whole"
            BY <2>5, <3>1, <5>1 DEF Whole
          <5> QED BY <5>2 DEF CurrentIsWhole, Whole
        <4> QED BY <4>1, <4>2
      <3>5. OneApplication'
        BY <3>2, <3>3 DEF OneApplication
      <3> QED BY <3>1, <3>2, <3>3, <3>4, <3>5
    <2>7. \A b \in Objects : app'[b].runs = 0 \/ (app'[b].runs = 1 /\ app'[b].running)
      <3> SUFFICES ASSUME NEW b \in Objects
                   PROVE  app'[b].runs = 0 \/ (app'[b].runs = 1 /\ app'[b].running)
        OBVIOUS
      <3>1. CASE b = a
        <4>1. app[a].runs = 0
          BY <1>4 DEF IInv
        <4>2. app'[a].runs = 1 /\ app'[a].running
          BY <1>1, <2>1, <4>1 DEF AppType
        <4> QED BY <3>1, <4>2
      <3>2. CASE b /= a
        <4>1. app'[b] = app[b]
          BY <1>1, <2>1, <3>2 DEF AppType
        <4> QED BY <4>1 DEF IInv
      <3> QED BY <3>1, <3>2
    <2> QED BY <2>4, <2>6, <2>7 DEF IInv
  <1> QED BY <1>2, <1>3, <1>4

\* An object loses a reference, or a call ends.
LEMMA ReleaseStep ==
  ASSUME IInv, Kept,
         current' \in {Null, current},
         current' /= Null => app'[current'].state = app[current].state,
         stack' \in Seq(Frames),
         mode' \in {mode, "on"},
         UNCHANGED <<dispatcher, options, hist, class, handler, exc>>
  PROVE  IInv'
  <1>1. current' /= Null => app'[current'].state = "whole"
    BY CurrentWhole
  <1> QED BY <1>1, QuietStep, VariableTypes

LEMMA DropStep ==
  ASSUME IInv, NEW a \in Objects, Drop(a)
  PROVE  IInv'
  <1>1. Release(a, stack) /\ mode' = "on" /\ UNCHANGED <<dispatcher, options, hist, class, handler, exc, stack>>
    BY DEF Drop, globals
  <1>2. /\ Kept
        /\ current' \in {Null, current}
        /\ current' /= Null => app'[current'].state = app[current].state
    BY <1>1, ReleaseKept
  <1> QED BY <1>1, <1>2, ReleaseStep, Types

LEMMA ReturnStep ==
  ASSUME IInv, RunReturns \/ Unwind \/ InitReturns
  PROVE  IInv'
  <1>1. stack /= <<>> /\ UNCHANGED <<mode, dispatcher, options, hist, class, handler, exc>>
    BY DEF RunReturns, Unwind, InitReturns, globals
  <1>2. CASE PopFrame
    <2>1. /\ Kept
          /\ current' \in {Null, current}
          /\ current' /= Null => app'[current'].state = app[current].state
          /\ stack' \in Seq(Frames)
      BY <1>1, <1>2, PopKept
    <2> QED BY <1>1, <2>1, ReleaseStep
  <1>3. CASE InitReturns /\ ~LastInit
    <2>1. stack' = [stack EXCEPT ![1].next = @ + 1] /\ UNCHANGED <<app, current>>
      BY <1>3 DEF InitReturns
    <2>2. stack \in Seq(Frames) /\ stack[1] \in Frames
      BY <1>1, Types
    <2>3. stack[1].next \in 1 .. Inits /\ stack[1].next /= Inits
      BY <1>3, <2>2 DEF LastInit, Frames
    <2>4. [stack[1] EXCEPT !.next = @ + 1] \in Frames
      <3>1. stack[1].next + 1 \in 1 .. Inits
        BY <2>3, ApplicationAssumption
      <3> QED BY <2>2, <3>1 DEF Frames
    <2>5. stack' = [stack EXCEPT ![1] = [stack[1] EXCEPT !.next = @ + 1]]
      BY <2>1, <2>2 DEF Frames
    <2>6. stack' \in Seq(Frames)
      <3>1. 1 \in 1 .. Len(stack)
        BY <1>1, <2>2
      <3> HIDE DEF Frames
      <3> QED BY <2>2, <2>4, <2>5, <3>1, ExceptSeq
    <2>7. Kept
      BY <2>1, UnchangedKept
    <2> QED BY <1>1, <2>1, <2>6, <2>7, ReleaseStep
  <1> QED BY <1>2, <1>3 DEF RunReturns, Unwind, InitReturns

\* The steps that leave the objects and $_app alone.
LEMMA StillStep ==
  ASSUME IInv, UNCHANGED <<app, current>>,
         dispatcher' \in BOOLEAN, dispatcher => dispatcher',
         options' \in OptionType, hist' \in HistType,
         class' \in Contents \cup {Null}, handler' \in BOOLEAN, exc' \in BOOLEAN,
         stack' \in Seq(Frames),
         mode' \in {mode, "on", "dead", "crashed"}
  PROVE  IInv'
  <1>1. Kept
    BY UnchangedKept
  <1>2. current' /= Null => app'[current'].state = "whole"
    BY CurrentWhole
  <1> QED BY <1>1, <1>2, QuietStep

LEMMA BootstrapStep ==
  ASSUME IInv, NEW a \in Objects, Bootstrap(a)
  PROVE  IInv'
  <1>1. stack \in Seq(Frames)
    BY Types
  <1>2. [op |-> "bootstrap", app |-> a, next |-> 1] \in Frames
    BY ApplicationAssumption DEF Frames
  <1>3. <<[op |-> "bootstrap", app |-> a, next |-> 1]>> \o stack \in Seq(Frames)
    <2> HIDE DEF Frames
    <2> QED BY <1>1, <1>2
  <1>4. stack' \in Seq(Frames)
    BY <1>1, <1>3 DEF Bootstrap, Push
  <1>5. class' \in Contents \cup {Null}
    BY VariableTypes DEF Bootstrap, Contents
  <1>6. mode' \in {"on", "crashed"} /\ UNCHANGED <<current, app, dispatcher, options, hist, handler, exc>>
    BY DEF Bootstrap, globals
  <1> QED BY <1>4, <1>5, <1>6, StillStep, VariableTypes

LEMMA ClearStep ==
  ASSUME IInv, NEW a \in Objects, ClearLastError(a)
  PROVE  IInv'
  <1>1. /\ app' = [app EXCEPT ![a].errno = FALSE]
        /\ UNCHANGED <<mode, current, dispatcher, options, hist, class, handler, exc, stack>>
    BY DEF ClearLastError, globals
  <1>2. app' \in AppType
    BY <1>1, Types DEF AppType
  <1>3. ASSUME NEW b \in Objects
        PROVE  /\ app'[b].runs = app[b].runs
               /\ app[b].running => app'[b].running
               /\ app'[b].state = app[b].state
    BY <1>1, Types DEF AppType
  <1>4. Kept
    BY <1>2, <1>3 DEF Kept
  <1>5. current' /= Null => app'[current'].state = app[current].state
    BY <1>1, <1>3, Types
  <1> QED BY <1>1, <1>4, <1>5, ReleaseStep, Types

LEMMA DirectoryStep ==
  ASSUME IInv, NEW a \in Objects, NEW d \in Directories, SetAppDirectory(a, d)
  PROVE  IInv'
  <1>1. options' \in OptionType /\ hist' \in HistType
    <2>1. Directories \subseteq DOMAIN Script
      BY ApplicationAssumption
    <2> QED BY <2>1, VariableTypes DEF SetAppDirectory, globals, OptionType, HistType
  <1>2. /\ mode' \in {"on", "crashed"}
        /\ UNCHANGED <<current, app, dispatcher, class, handler, exc, stack>>
    BY DEF SetAppDirectory
  <1> QED BY <1>1, <1>2, StillStep, Types, VariableTypes

LEMMA ThrowStep ==
  ASSUME IInv, NEW b \in BOOLEAN, ThrowException(b)
  PROVE  IInv'
  <1>1. options' \in OptionType /\ hist' \in HistType
    BY VariableTypes DEF ThrowException, OptionType, HistType
  <1>2. UNCHANGED <<mode, current, app, dispatcher, class, handler, exc, stack>>
    BY DEF ThrowException
  <1> QED BY <1>1, <1>2, StillStep, Types, VariableTypes

\* What a worker and every request start with.
Clean ==
  /\ mode = "ended" /\ current = Null /\ dispatcher = FALSE /\ class = Null
  /\ app = [a \in Objects |-> Unborn]
  /\ handler \in BOOLEAN /\ exc = FALSE /\ stack = <<>>
  /\ options \in OptionType /\ hist = NoHistory

LEMMA CleanHolds ==
  ASSUME Clean
  PROVE  IInv
  <1>1. app \in AppType
    BY DEF Clean, AppType, States, Unborn
  <1>2. \A a \in Objects : app[a].state = "unborn" /\ app[a].runs = 0
    BY DEF Clean, Unborn
  <1>3. TypeOK
    <2>1. <<>> \in Seq(Frames)
      BY EmptySeq
    <2>2. hist \in HistType
      BY DEF Clean, NoHistory, HistType
    <2> QED BY <1>1, <2>1, <2>2 DEF Clean, TypeOK, AppType, States, Frames, OptionType, HistType
  <1>4. CurrentIsWhole /\ OneApplication
    BY <1>2 DEF Clean, CurrentIsWhole, OneApplication, Whole
  <1> QED BY <1>2, <1>3, <1>4 DEF IInv, Whole

LEMMA FreshHolds ==
  Init => IInv
  <1> SUFFICES ASSUME Init PROVE IInv
    OBVIOUS
  <1>1. options \in OptionType
    BY DEF Init, NoOptions, OptionType
  <1>2. Clean
    BY <1>1 DEF Init, Clean
  <1> QED BY <1>2, CleanHolds

LEMMA EndStep ==
  ASSUME IInv, EndRequest
  PROVE  IInv'
  <1>1. options' \in OptionType
    BY VariableTypes DEF EndRequest, Rshutdown, OptionType
  <1>2. Clean'
    BY <1>1 DEF EndRequest, Clean
  <1> QED BY <1>2, CleanHolds, PTL

LEMMA BeginStep ==
  ASSUME IInv, BeginRequest
  PROVE  IInv'
  <1>1. options' \in OptionType /\ hist' \in HistType
    BY VariableTypes DEF BeginRequest, Rinit, OptionType
  <1>2. /\ mode' = "start" /\ handler' \in BOOLEAN
        /\ UNCHANGED <<current, app, dispatcher, class, exc, stack>>
    BY DEF BeginRequest
  <1>3. TypeOK'
    BY <1>1, <1>2, Types, VariableTypes DEF TypeOK, AppType, States, Frames, OptionType, HistType
  <1> QED BY <1>2, <1>3 DEF IInv, CurrentIsWhole, OneApplication, Whole

LEMMA Inductive ==
  ASSUME IInv, [Next]_vars
  PROVE  IInv'
  <1>1. ASSUME NEW a \in Objects, NEW o \in Options, Construct(a, o)
        PROVE  IInv'
    BY <1>1, ConstructStep
  <1>2. ASSUME NEW a \in Objects, Drop(a) \/ Run(a) \/ Bootstrap(a) \/ ClearLastError(a)
        PROVE  IInv'
    BY <1>2, DropStep, RunStep, BootstrapStep, ClearStep
  <1>9. ASSUME NEW a \in Objects, NEW d \in Directories, SetAppDirectory(a, d)
        PROVE  IInv'
    BY <1>9, DirectoryStep
  <1>3. CASE RunReturns \/ InitReturns \/ Unwind
    BY <1>3, ReturnStep
  <1>4. CASE Throw \/ Catch
    <2>1. /\ exc' \in BOOLEAN
          /\ UNCHANGED <<mode, current, app, dispatcher, options, hist, class, handler, stack>>
      BY <1>4 DEF Throw, Catch, globals
    <2> QED BY <2>1, StillStep, Types, VariableTypes
  <1>5. CASE GetInstance
    BY <1>5, StillStep, Types, VariableTypes DEF GetInstance, globals
  <1>6. ASSUME NEW b \in BOOLEAN, ThrowException(b)
        PROVE  IInv'
    BY <1>6, ThrowStep
  <1>7. CASE EndRequest
    BY <1>7, EndStep
  <1>10. CASE BeginRequest
    BY <1>10, BeginStep
  <1>8. CASE UNCHANGED vars
    BY <1>8, StillStep, Types, VariableTypes DEF vars
  <1> QED BY <1>1, <1>2, <1>3, <1>4, <1>5, <1>6, <1>7, <1>8, <1>9, <1>10 DEF Next

LEMMA Always == Spec => []IInv
  BY FreshHolds, Inductive, PTL DEF Spec

-----------------------------------------------------------------------------
(* The theorems *)

\* Every variable of the application's life keeps its type.
THEOREM ApplicationTypes == Spec => []TypeOK
  BY Always, IInvImplies, PTL

\* Yaf_Application::app() only ever returns a whole application, whatever
\* constructors failed and whatever destructors ran.
THEOREM AppIsWhole == Spec => []CurrentIsWhole
  BY Always, IInvImplies, PTL

\* The dispatcher that outlives $_app keeps a second application from being
\* built in the same request.
THEOREM AppIsUnique == Spec => []OneApplication
  BY Always, IInvImplies, PTL

\* run() dispatches an application at most once, at any depth of calls.
THEOREM AppRunsOnce == Spec => []RunOnce
  BY Always, IInvImplies, PTL

\* Only the constructor writes YAF_G(bootstrap), and never while $_app is set.
LEMMA OptionsStep ==
  ASSUME IInv, [Next]_vars
  PROVE  current /= Null /\ current' = current => options'.bootstrap = options.bootstrap
  <1> SUFFICES ASSUME current /= Null, current' = current
               PROVE  options'.bootstrap = options.bootstrap
    OBVIOUS
  <1>1. ASSUME NEW a \in Objects, NEW o \in Options, Construct(a, o)
        PROVE  options' = options
    BY <1>1 DEF Construct, OnlyOne, ConfigFails, DispatcherFails, Built, globals
  <1>2. ASSUME NEW a \in Objects, Drop(a) \/ Run(a) \/ Bootstrap(a) \/ ClearLastError(a)
        PROVE  options' = options
    BY <1>2 DEF Drop, Run, Bootstrap, ClearLastError, globals
  <1>3. CASE RunReturns \/ InitReturns \/ Throw \/ Unwind \/ Catch \/ GetInstance \/ UNCHANGED vars
    BY <1>3 DEF RunReturns, InitReturns, Throw, Unwind, Catch, GetInstance, vars, globals
  <1>4. ASSUME NEW b \in BOOLEAN, ThrowException(b)
        PROVE  options'.bootstrap = options.bootstrap
    BY <1>4, VariableTypes DEF ThrowException, OptionType
  <1>5. CASE EndRequest
    BY <1>5 DEF EndRequest
  <1>6. ASSUME NEW a \in Objects, NEW d \in Directories, SetAppDirectory(a, d)
        PROVE  options'.bootstrap = options.bootstrap
    BY <1>6, VariableTypes DEF SetAppDirectory, globals, OptionType
  <1>7. CASE BeginRequest
    BY <1>7, VariableTypes DEF BeginRequest, Rinit, OptionType
  <1> QED BY <1>1, <1>2, <1>3, <1>4, <1>5, <1>6, <1>7 DEF Next

\* A constructor that fails, or any other call, leaves the bootstrap path of
\* the application that stays current alone.
THEOREM OptionsKept == Spec => OptionsOfCurrent
  BY Always, OptionsStep, PTL DEF Spec, OptionsOfCurrent

-----------------------------------------------------------------------------
(* What one request owes to another *)

\* Why RequestsApart holds: a path is null or named in this request, and an
\* object exists only after a configuration, with its directory, was parsed.
Apart ==
  /\ mode \in {"start", "on"} /\ ~options.throwException => hist.silenced
  /\ options.bootstrap \in hist.paths \cup {Null}
  /\ options.directory \in hist.paths \cup {Null}
  /\ \A a \in Objects : Exists(a) => options.directory /= Null

\* No object is made.
Shrinks == \A a \in Objects : Exists(a)' => Exists(a)

LEMMA ApartImplies ==
  ASSUME Apart
  PROVE  RequestsApart
  BY DEF Apart, RequestsApart, BootstrapFile

LEMMA ApartInit == Init => Apart
  BY DEF Init, Apart, NoOptions, NoHistory, Unborn, Exists

LEMMA ApartKept ==
  ASSUME Apart, Shrinks, UNCHANGED <<options, hist>>,
         mode' \in {"start", "on"} => mode \in {"start", "on"}
  PROVE  Apart'
  BY DEF Apart, Shrinks

LEMMA DestroyShrinks ==
  ASSUME IInv, NEW a, NEW s, Destroy(a, s)
  PROVE  Shrinks
  <1>1. PICK A : app' = Gone(A)
    BY DEF Destroy
  <1> QED BY <1>1, Types DEF Gone, Shrinks, Exists, AppType

LEMMA ReleaseShrinks ==
  ASSUME IInv, NEW a \in Objects, NEW s, Release(a, s)
  PROVE  Shrinks
  <1>1. CASE app' = [app EXCEPT ![a].held = FALSE]
    BY <1>1, Types DEF Shrinks, Exists, AppType
  <1> QED BY <1>1, DestroyShrinks DEF Release

LEMMA PopShrinks ==
  ASSUME IInv, PopFrame
  PROVE  Shrinks
  <1>1. CASE app' = app
    BY <1>1 DEF Shrinks, Exists
  <1> QED BY <1>1, DestroyShrinks DEF PopFrame

LEMMA ParseApart ==
  ASSUME IInv, Apart, NEW o \in Options, Parse(o), mode \in {"start", "on"}
  PROVE  Apart'
  <1>1. o.directory \in DOMAIN Script /\ Null \notin DOMAIN Script
        /\ o.throwException \in {"on", "off", "unset"}
    BY ApplicationAssumption
  <1>2. /\ options'.throwException = IF o.throwException = "unset" THEN options.throwException
                                     ELSE o.throwException = "on"
        /\ options'.bootstrap = IF o.bootstrap = Null THEN options.bootstrap ELSE o.bootstrap
        /\ options'.directory = o.directory
        /\ hist'.paths = hist.paths \cup ({o.directory, o.bootstrap} \ {Null})
        /\ hist'.silenced = (hist.silenced \/ o.throwException = "off")
    BY DEF Parse, ParseOption
  <1>3. ~options'.throwException => hist'.silenced
    BY <1>1, <1>2 DEF Apart
  <1>4. options'.bootstrap \in hist'.paths \cup {Null} /\ options'.directory \in hist'.paths
    BY <1>1, <1>2 DEF Apart
  <1> QED BY <1>1, <1>2, <1>3, <1>4 DEF Apart

LEMMA ConstructApart ==
  ASSUME IInv, Apart, NEW a \in Objects, NEW o \in Options, Construct(a, o)
  PROVE  Apart'
  <1>1. mode \in {"start", "on"}
    BY DEF Construct, Running
  <1>2. CASE OnlyOne(a, o)
    <2>1. UNCHANGED <<options, hist>>
      BY <1>2 DEF OnlyOne, globals
    <2>2. options.directory /= Null
      <3>1. current \in Objects /\ app[current].state = "whole"
        BY <1>2, CurrentWhole, Types DEF OnlyOne
      <3> QED BY <3>1 DEF Apart, Exists
    <2> QED BY <1>1, <2>1, <2>2 DEF Apart
  <1>3. CASE ConfigFails(a, o)
    <2>1. UNCHANGED <<options, hist>>
      BY <1>3 DEF ConfigFails, globals
    <2>2. app' = app \/ app' = [app EXCEPT ![a].state = "gone"]
      BY <1>3 DEF ConfigFails, ConstructFails, TriggerError
    <2>3. Shrinks
      BY <2>2, Types DEF Shrinks, Exists, AppType
    <2> QED BY <1>1, <2>1, <2>3, ApartKept
  <1>4. CASE DispatcherFails(a, o) \/ Built(a, o)
    BY <1>1, <1>4, ParseApart DEF DispatcherFails, Built
  <1> QED BY <1>2, <1>3, <1>4 DEF Construct

LEMMA RunApart ==
  ASSUME IInv, Apart, NEW a \in Objects, Run(a)
  PROVE  Apart'
  <1>1. UNCHANGED <<options, hist>> /\ mode \in {"start", "on"}
    BY DEF Run, globals, Running
  <1>2. \/ app' = app
        \/ app' = [app EXCEPT ![current].errno = TRUE]
        \/ app' = [app EXCEPT ![a].running = TRUE, ![a].runs = @ + 1]
    BY DEF Run, TriggerError, SetRunning
  <1>3. Shrinks
    BY <1>2, Types DEF Shrinks, Exists, AppType
  <1> QED BY <1>1, <1>3, ApartKept

\* The steps that leave the globals alone and make no object.
LEMMA OtherApart ==
  ASSUME IInv, Apart,
         \/ \E a \in Objects : Drop(a) \/ Bootstrap(a) \/ ClearLastError(a)
         \/ RunReturns \/ InitReturns \/ Throw \/ Unwind \/ Catch \/ GetInstance
         \/ UNCHANGED vars
  PROVE  Apart'
  <1>1. CASE \E a \in Objects : Drop(a)
    BY <1>1, ReleaseShrinks, ApartKept DEF Drop, globals, Running
  <1>2. CASE \E a \in Objects : Bootstrap(a)
    BY <1>2, ApartKept DEF Bootstrap, globals, Running, Shrinks, Exists
  <1>3. CASE \E a \in Objects : ClearLastError(a)
    <2>1. PICK a \in Objects : ClearLastError(a)
      BY <1>3
    <2>2. Shrinks
      BY <2>1, Types DEF ClearLastError, Shrinks, Exists, AppType
    <2> QED BY <2>1, <2>2, ApartKept DEF ClearLastError, globals
  <1>4. CASE RunReturns \/ InitReturns \/ Unwind
    <2>1. Shrinks
      BY <1>4, PopShrinks DEF RunReturns, InitReturns, Unwind, Shrinks, Exists
    <2> QED BY <1>4, <2>1, ApartKept DEF RunReturns, InitReturns, Unwind, globals
  <1>5. CASE Throw \/ Catch \/ GetInstance \/ UNCHANGED vars
    BY <1>5, ApartKept DEF Throw, Catch, GetInstance, vars, globals, Running, Shrinks, Exists
  <1> QED BY <1>1, <1>2, <1>3, <1>4, <1>5

LEMMA SwitchApart ==
  ASSUME IInv, Apart,
         \/ \E b \in BOOLEAN : ThrowException(b)
         \/ \E a \in Objects : \E d \in Directories : SetAppDirectory(a, d)
  PROVE  Apart'
  <1>1. options \in OptionType /\ hist \in HistType
    BY VariableTypes
  <1>2. ASSUME NEW b \in BOOLEAN, ThrowException(b)
        PROVE  Apart'
    BY <1>1, <1>2 DEF ThrowException, Apart, Exists, OptionType, HistType
  <1>3. ASSUME NEW a \in Objects, NEW d \in Directories, SetAppDirectory(a, d)
        PROVE  Apart'
    <2>1. CASE options.directory = Null
      BY <1>3, <2>1, ApartKept DEF SetAppDirectory, globals, Shrinks, Exists
    <2>2. CASE options.directory /= Null
      <3>1. d /= Null
        BY ApplicationAssumption
      <3>2. /\ options'.directory = d /\ options'.bootstrap = options.bootstrap
            /\ options'.throwException = options.throwException
            /\ hist'.paths = hist.paths \cup {d} /\ hist'.silenced = hist.silenced
            /\ mode \in {"start", "on"}
        BY <1>1, <1>3, <2>2 DEF SetAppDirectory, OptionType, HistType, Running
      <3> QED BY <3>1, <3>2 DEF Apart
    <2> QED BY <2>1, <2>2
  <1> QED BY <1>2, <1>3

LEMMA RequestApart ==
  ASSUME IInv, Apart, EndRequest \/ BeginRequest
  PROVE  Apart'
  <1>1. options \in OptionType
    BY VariableTypes
  <1>2. CASE EndRequest
    <2>1. options'.bootstrap = Null /\ options'.directory = Null
      BY <1>1, <1>2 DEF EndRequest, Rshutdown, OptionType
    <2>2. mode' = "ended" /\ \A a \in Objects : app'[a].state = "unborn"
      BY <1>2 DEF EndRequest, Unborn
    <2> QED BY <2>1, <2>2 DEF Apart, Exists
  <1>3. CASE BeginRequest
    <2>1. /\ options'.throwException /\ options'.bootstrap = options.bootstrap
          /\ options'.directory = options.directory
      BY <1>1, <1>3 DEF BeginRequest, Rinit, OptionType
    <2>2. UNCHANGED <<app, hist>>
      BY <1>3 DEF BeginRequest
    <2> QED BY <2>1, <2>2 DEF Apart, Exists
  <1> QED BY <1>2, <1>3

LEMMA ApartStep ==
  ASSUME IInv, Apart, [Next]_vars
  PROVE  Apart'
  BY ConstructApart, RunApart, OtherApart, SwitchApart, RequestApart DEF Next

\* A request depends on nothing an earlier one of the worker, or a constructor
\* that failed, has left: RSHUTDOWN, RINIT and the order of the constructor's
\* steps leave no option and no path behind.
THEOREM RequestsKeptApart == Spec => []RequestsApart
  BY Always, ApartInit, ApartStep, ApartImplies, PTL DEF Spec

=============================================================================
