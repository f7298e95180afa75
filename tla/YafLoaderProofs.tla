-------------------------- MODULE YafLoaderProofs --------------------------
(***************************************************************************)
(* Proofs about YafLoader, for any number of workers, classes, files and   *)
(* namespaces, and calls nested to any depth.                              *)
(***************************************************************************)
EXTENDS YafLoader, SequenceTheorems, WellFoundedInduction, TLAPS

LoaderType == [on : BOOLEAN, library : Dirs \cup {Null}, global : Dirs \cup {Null}, app : BOOLEAN]

\* A call to the loader is for a class, and a file that runs is there.
Sound ==
  {f \in Frame :
     /\ f.op /= "file" => f.class \in ClassNames
     /\ f.op = "file" =>
          /\ f.path \in Path /\ Exists(f.path) /\ f.pc \in {"runs", "extends"}
          /\ f.late => f.class \in ClassNames /\ Disk[RealPath(f.path)].parent \in ClassNames
     /\ f.op = "autoload" /\ f.pc = "compile" => f.path \in Path}

\* A call that waits for the one above it, or runs PHP code.
Quiet == {f \in Sound : f.pc \in {"runs", "extends", "done"}}

FileFrame == {f \in Sound : f.op = "file"}

\* Only the innermost call is inside yaf_loader_is_local_namespace.
Stacked(s) == s \in Seq(Sound) /\ (s /= <<>> => Tail(s) \in Seq(Quiet))

\* The variables are functions of the worker.
Domains ==
  /\ loader = [w \in Workers |-> loader[w]] /\ ns = [w \in Workers |-> ns[w]]
  /\ classes = [w \in Workers |-> classes[w]] /\ included = [w \in Workers |-> included[w]]
  /\ stack = [w \in Workers |-> stack[w]] /\ exc = [w \in Workers |-> exc[w]]
  /\ mode = [w \in Workers |-> mode[w]] /\ ran = [w \in Workers |-> ran[w]]

\* What a worker has, apart from its calls.
WorkerType(w) ==
  /\ loader[w] \in LoaderType
  /\ loader[w].on <=> loader[w].library /= Null /\ loader[w].global /= Null
  /\ ns[w] \in Text \cup {Null} /\ (ns[w] /= Null => Len(ns[w]) <= MaxText)
  /\ classes[w] \in SUBSET ClassNames
  /\ included[w] \in SUBSET DOMAIN Disk /\ ran[w] \in SUBSET DOMAIN Disk
  /\ exc[w] \in BOOLEAN /\ mode[w] \in {"on", "fatal", "crashed"}

\* Its calls: an exception is never pending inside the loader's own code, there
\* are namespaces to search in, and without a loader there are only files.
WorkerStack(w) ==
  /\ Stacked(stack[w])
  /\ exc[w] /\ stack[w] /= <<>> => stack[w][1] \in Quiet
  /\ stack[w] /= <<>> /\ stack[w][1].pc = "search" => ns[w] /= Null
  /\ loader[w].on \/ stack[w] \in Seq(FileFrame)

WorkerInv == Domains /\ \A w \in Workers : WorkerType(w) /\ WorkerStack(w)

\* A step of worker w leaves the other workers alone.
Updates(f, g, w) == g = [f EXCEPT ![w] = g[w]]

Only(w) ==
  /\ Updates(loader, loader', w) /\ Updates(ns, ns', w) /\ Updates(classes, classes', w)
  /\ Updates(included, included', w) /\ Updates(stack, stack', w) /\ Updates(exc, exc', w)
  /\ Updates(mode, mode', w) /\ Updates(ran, ran', w)

-----------------------------------------------------------------------------
(* Stacks *)

LEMMA Pushed ==
  ASSUME NEW S, NEW s \in Seq(S), NEW f \in S, NEW t, t = <<f>> \o s
  PROVE  t \in Seq(S) /\ t /= <<>> /\ t[1] = f /\ Tail(t) = s
  OBVIOUS

LEMMA Popped ==
  ASSUME NEW S, NEW s \in Seq(S), s /= <<>>
  PROVE  Tail(s) \in Seq(S) /\ s[1] \in S
  BY HeadTailProperties, ElementOfSeq, EmptySeq

LEMMA WiderSeq ==
  ASSUME NEW S, NEW T, S \subseteq T, NEW s \in Seq(S)
  PROVE  s \in Seq(T)
  OBVIOUS

\* A call is made by PHP code.
LEMMA StackPushed ==
  ASSUME NEW s, Stacked(s), s /= <<>> => s[1] \in Quiet, NEW f \in Sound, NEW t, t = <<f>> \o s
  PROVE  Stacked(t) /\ t /= <<>> /\ t[1] = f
  <1>1. s \in Seq(Sound)
    BY DEF Stacked
  <1>2. t \in Seq(Sound) /\ t /= <<>> /\ t[1] = f /\ Tail(t) = s
    BY <1>1, Pushed
  <1>3. s \in Seq(Quiet)
    <2>1. CASE s = <<>>
      BY <2>1
    <2>2. CASE s /= <<>>
      <3>1. Tail(s) \in Seq(Quiet) /\ s[1] \in Quiet /\ s = <<s[1]>> \o Tail(s)
        BY <1>1, <2>2 DEF Stacked
      <3> QED BY <3>1, Pushed
    <2> QED BY <2>1, <2>2
  <1> QED BY <1>2, <1>3 DEF Stacked

\* The innermost call goes on.
LEMMA StackChanged ==
  ASSUME NEW s, Stacked(s), s /= <<>>, NEW f \in Sound, NEW t, t = <<f>> \o Tail(s)
  PROVE  Stacked(t) /\ t /= <<>> /\ t[1] = f
  <1>1. s \in Seq(Sound) /\ Tail(s) \in Seq(Quiet) /\ Tail(s) \in Seq(Sound)
    BY Popped DEF Stacked
  <1>2. t \in Seq(Sound) /\ t /= <<>> /\ t[1] = f /\ Tail(t) = Tail(s)
    BY <1>1, Pushed
  <1> QED BY <1>1, <1>2 DEF Stacked

\* The innermost call returns.
LEMMA StackPopped ==
  ASSUME NEW s, Stacked(s), s /= <<>>, NEW t, t = Tail(s)
  PROVE  Stacked(t) /\ (t /= <<>> => t[1] \in Quiet)
  <1>1. t \in Seq(Quiet) /\ Quiet \subseteq Sound
    BY DEF Stacked, Quiet
  <1>2. t \in Seq(Sound)
    BY <1>1, WiderSeq
  <1>3. t /= <<>> => t[1] \in Quiet /\ Tail(t) \in Seq(Quiet)
    BY <1>1, Popped
  <1> QED BY <1>2, <1>3 DEF Stacked

-----------------------------------------------------------------------------
(* Frames and texts *)

\* The innermost call of a worker.
LEMMA TopType ==
  ASSUME NEW w, Stacked(stack[w]), stack[w] /= <<>>
  PROVE  Top(w) \in Sound /\ Top(w) = stack[w][1]
  BY Popped DEF Stacked, Top

LEMMA TextTypes ==
  ASSUME NEW t \in Text
  PROVE  Slashed(t) \in Text /\ Underscored(t) \in Text /\ MvcName(t) \in Text
  <1>1. Len(t) \in Nat /\ DOMAIN t = 1 .. Len(t) /\ \A i \in 1 .. Len(t) : t[i] \in Token
    BY LenProperties, ElementOfSeq DEF Text
  <1>2. Slashed(t) \in [1 .. Len(t) -> Token] /\ Underscored(t) \in [1 .. Len(t) -> Token]
    BY <1>1 DEF Slashed, Underscored, Token
  <1>3. MvcName(t) \in Text
    <2>1. CASE t = <<>>
      BY <2>1 DEF MvcName, Text
    <2>2. CASE t /= <<>>
      BY <1>1, <2>2 DEF MvcName, Text
    <2> QED BY <2>1, <2>2
  <1>4. [1 .. Len(t) -> Token] \subseteq Text
    BY <1>1, SeqDef DEF Text
  <1> QED BY <1>2, <1>3, <1>4

LEMMA ClassTypes ==
  /\ ClassNames \subseteq Text /\ <<>> \notin ClassNames /\ Null \notin ClassNames
  /\ Classes \subseteq ClassNames /\ Words \subseteq Text /\ Null \notin Text
  BY TextAssumption DEF ClassNames, Text

LEMMA AskedType ==
  ASSUME NEW w, NEW c \in ClassNames, NEW engine \in BOOLEAN
  PROVE  /\ Asked(w, c, engine) \in Sound
         /\ Asked(w, c, engine).pc \in {"compile", "begin"}
         /\ Asked(w, c, engine).op = "autoload" /\ Asked(w, c, engine).turns = 0
         /\ Asked(w, c, engine).class = c /\ Asked(w, c, engine).again = FALSE
         /\ Asked(w, c, engine).via = Null /\ Asked(w, c, engine).backup = FALSE
         /\ Asked(w, c, engine).pc = "compile" => IsMvc(c)
  <1>1. CASE IsMvc(c)
    <2> DEFINE p == [dir |-> MvcDir[c[Len(c)]], name |-> Slashed(Underscored(MvcName(c)))]
               k == Call("autoload", c, engine, "compile")
    <2>1. Slashed(Underscored(MvcName(c))) \in Text
      BY ClassTypes, TextTypes
    <2>2. MvcDir[c[Len(c)]] \in {MvcDir[t] : t \in DOMAIN MvcDir}
      BY <1>1 DEF IsMvc
    <2>3. p \in Path
      BY <2>1, <2>2 DEF Path, Text
    <2> HIDE DEF p
    <2>4. k \in Frame /\ k.pc = "compile" /\ k.op = "autoload" /\ k.turns = 0 /\ k.class = c /\ k.again = FALSE
          /\ k.via = Null /\ k.backup = FALSE
      BY LoaderAssumption DEF Call, Frame
    <2> HIDE DEF k
    <2>5. Asked(w, c, engine) = [k EXCEPT !.path = p]
      BY <1>1 DEF Asked, k, p
    <2> QED BY <1>1, <2>3, <2>4, <2>5 DEF Frame, Sound
  <1>2. CASE ~IsMvc(c)
    <2>1. Asked(w, c, engine) = Call("autoload", c, engine, "begin")
      BY <1>2 DEF Asked
    <2> QED BY <1>2, <2>1, LoaderAssumption DEF Call, Frame, Sound
  <1> QED BY <1>1, <1>2

-----------------------------------------------------------------------------
(* Workers *)

LEMMA UpdatesSame ==
  ASSUME NEW f, f = [v \in Workers |-> f[v]], NEW w \in Workers
  PROVE  Updates(f, f, w)
  BY DEF Updates

LEMMA UpdatesExcept ==
  ASSUME NEW f, f = [v \in Workers |-> f[v]], NEW w \in Workers, NEW e
  PROVE  Updates(f, [f EXCEPT ![w] = e], w) /\ [f EXCEPT ![w] = e][w] = e
  BY DEF Updates

LEMMA UpdatesOthers ==
  ASSUME NEW f, f = [v \in Workers |-> f[v]], NEW w \in Workers, NEW g, Updates(f, g, w)
  PROVE  g = [v \in Workers |-> g[v]] /\ \A v \in Workers : v /= w => g[v] = f[v]
  BY DEF Updates

LEMMA WorkerStep ==
  ASSUME WorkerInv, NEW w \in Workers, Only(w), WorkerType(w)', WorkerStack(w)'
  PROVE  WorkerInv'
  <1>1. Domains'
    BY UpdatesOthers, SMTT(30) DEF WorkerInv, Domains, Only
  <1>2. ASSUME NEW v \in Workers, v /= w
        PROVE  WorkerType(v)' /\ WorkerStack(v)'
    <2>1. /\ loader'[v] = loader[v] /\ ns'[v] = ns[v] /\ classes'[v] = classes[v]
          /\ included'[v] = included[v] /\ stack'[v] = stack[v] /\ exc'[v] = exc[v]
          /\ mode'[v] = mode[v] /\ ran'[v] = ran[v]
      BY <1>2, UpdatesOthers, SMTT(30) DEF WorkerInv, Domains, Only
    <2>2. WorkerType(v) /\ WorkerStack(v)
      BY DEF WorkerInv
    <2> QED BY <2>1, <2>2 DEF WorkerType, WorkerStack
  <1> QED BY <1>1, <1>2 DEF WorkerInv

\* The variables of a step that changes none of them but those it names.
LEMMA OnlyInstance ==
  ASSUME Domains, NEW w \in Workers, NEW l, NEW g, NEW app, Instance(w, l, g, app)
  PROVE  Updates(loader, loader', w)
  BY UpdatesExcept DEF Domains, Instance

LEMMA Becomes ==
  ASSUME Domains, NEW w \in Workers, NEW s, stack' = [stack EXCEPT ![w] = s]
  PROVE  Updates(stack, stack', w) /\ stack'[w] = s
  BY UpdatesExcept DEF Domains

LEMMA OnlyPhp ==
  ASSUME Domains, NEW w \in Workers,
         \/ \E l, g \in Dirs \cup {Null} : GetInstance(w, l, g)
         \/ \E t \in Words : RegisterLocalNamespace(w, t)
         \/ \E t \in Words \cup {Null} : NewApplication(w, t)
         \/ ClearLocalNamespace(w)
         \/ \E d \in Dirs, global \in BOOLEAN : SetLibraryPath(w, d, global)
         \/ Throw(w) \/ Catch(w)
  PROVE  Only(w) /\ stack' = stack
  <1>1. ASSUME NEW l, NEW g, GetInstance(w, l, g)
        PROVE  Only(w) /\ stack' = stack
    BY <1>1, OnlyInstance, UpdatesSame DEF GetInstance, Only, Domains
  <1>2. ASSUME NEW t, RegisterLocalNamespace(w, t)
        PROVE  Only(w) /\ stack' = stack
    BY <1>2, UpdatesExcept, UpdatesSame DEF RegisterLocalNamespace, Registering, Only, Domains
  <1>3. ASSUME NEW t, NewApplication(w, t)
        PROVE  Only(w) /\ stack' = stack
    <2>1. Updates(loader, loader', w)
      BY <1>3, OnlyInstance DEF NewApplication
    <2>2. Updates(ns, ns', w)
      <3>1. CASE t = Null
        BY <1>3, <3>1, UpdatesSame DEF NewApplication, Domains
      <3>2. CASE Registering(w, t)
        BY <3>2, UpdatesExcept DEF Registering, Domains
      <3> QED BY <1>3, <3>1, <3>2 DEF NewApplication
    <2> QED BY <1>3, <2>1, <2>2, UpdatesSame DEF NewApplication, Only, Domains
  <1>4. CASE ClearLocalNamespace(w)
    BY <1>4, UpdatesExcept, UpdatesSame DEF ClearLocalNamespace, Only, Domains
  <1>5. ASSUME NEW d, NEW global, SetLibraryPath(w, d, global)
        PROVE  Only(w) /\ stack' = stack
    BY <1>5, UpdatesExcept, UpdatesSame DEF SetLibraryPath, Only, Domains
  <1>6. CASE Throw(w)
    BY <1>6, UpdatesExcept, UpdatesSame DEF Throw, Only, Domains
  <1>7. CASE Catch(w)
    BY <1>7, UpdatesExcept, UpdatesSame DEF Catch, Only, Domains
  <1> QED BY <1>1, <1>2, <1>3, <1>4, <1>5, <1>6, <1>7

LEMMA OnlyLoader ==
  ASSUME Domains, NEW w \in Workers, NEW s, stack' = [stack EXCEPT ![w] = s],
         UNCHANGED <<loader, ns, classes, included, exc, mode, ran>>
  PROVE  Only(w) /\ stack'[w] = s
  BY Becomes, UpdatesSame DEF Only, Domains
-----------------------------------------------------------------------------
(* The first of several places *)

LEMMA LeastNatural ==
  ASSUME NEW S \in SUBSET Nat, S /= {}
  PROVE  \E x \in S : \A y \in S : x <= y
  <1> DEFINE R == OpToRel(<, Nat)
  <1>1. IsWellFoundedOn(R, Nat)
    BY NatLessThanWellFounded
  <1>2. \A x, y \in Nat : <<x, y>> \in R <=> x < y
    BY DEF OpToRel
  <1> HIDE DEF R
  <1>3. PICK x \in S : \A y \in S : ~(<<y, x>> \in R)
    BY <1>1, WFMin
  <1>4. \A y \in S : y \in Nat /\ x \in Nat /\ ~(y < x)
    BY <1>2, <1>3
  <1>5. \A y \in S : x <= y
    BY <1>4
  <1> QED BY <1>5

LEMMA MinIsLeast ==
  ASSUME NEW S \in SUBSET Nat, S /= {}
  PROVE  Min(S) \in S /\ Min(S) \in Nat /\ \A y \in S : Min(S) <= y
  <1>1. \E x \in S : \A y \in S : x =< y
    BY LeastNatural
  <1>2. Min(S) \in S /\ \A y \in S : Min(S) =< y
    BY <1>1 DEF Min
  <1> QED BY <1>2

\* What strstr for one character finds.
LEMMA FirstFinds ==
  ASSUME NEW t \in Text, NEW S
  PROVE  /\ First(t, S) \in 0 .. Len(t) /\ Len(t) \in Nat
         /\ First(t, S) = 0 => \A j \in 1 .. Len(t) : t[j] \notin S
         /\ First(t, S) > 0 => t[First(t, S)] \in S
         /\ First(t, S) > 0 => \A j \in 1 .. First(t, S) - 1 : t[j] \notin S
  <1> DEFINE places == {i \in DOMAIN t : t[i] \in S}
  <1>0. Len(t) \in Nat /\ DOMAIN t = 1 .. Len(t)
    BY LenProperties DEF Text
  <1>1. places \in SUBSET Nat /\ places \in SUBSET (1 .. Len(t))
    BY <1>0
  <1>2. First(t, S) = IF places = {} THEN 0 ELSE Min(places)
    BY DEF First
  <1>3. CASE places = {}
    <2>1. First(t, S) = 0
      BY <1>2, <1>3
    <2>2. \A j \in 1 .. Len(t) : t[j] \notin S
      BY <1>0, <1>3
    <2> QED BY <1>0, <2>1, <2>2
  <1>4. CASE places /= {}
    <2> DEFINE m == Min(places)
    <2>0. m = Min(places)
      OBVIOUS
    <2> HIDE DEF m
    <2>1. m \in places /\ \A y \in places : m <= y
      <3> HIDE DEF places
      <3> QED BY <1>1, <1>4, <2>0, MinIsLeast
    <2>2. First(t, S) = m
      BY <1>2, <1>4, <2>0
    <2>3. m \in 1 .. Len(t) /\ t[m] \in S
      BY <1>0, <2>1
    <2>4. \A j \in 1 .. m - 1 : t[j] \notin S
      BY <1>0, <2>1, <2>3
    <2> HIDE DEF m, places
    <2> QED BY <1>0, <2>2, <2>3, <2>4
  <1> QED BY <1>3, <1>4

-----------------------------------------------------------------------------
(* Names, whole and cut *)

LEMMA SoundFields ==
  ASSUME NEW f \in Sound
  PROVE  /\ f \in Frame
         /\ f.op /= "file" => f.class \in ClassNames /\ f.class \in Text /\ f.class /= <<>>
         /\ f.op = "file" => f.path \in Path /\ Exists(f.path)
         /\ f.op = "autoload" /\ f.pc = "compile" => f.path \in Path
         /\ f.op \in {"autoload", "isLocalName", "file"} /\ f.late \in BOOLEAN
         /\ f.at \in 1 .. MaxText + 1 /\ f.len \in Nat /\ f.turns \in Nat
         /\ f.backup \in BOOLEAN /\ f.local \in BOOLEAN
  BY ClassTypes DEF Sound, Frame

LEMMA FirstType ==
  ASSUME NEW t \in Text, NEW S
  PROVE  First(t, S) \in 0 .. Len(t) /\ Len(t) \in Nat /\ First(t, S) \in Nat
  <1>1. First(t, S) \in 0 .. Len(t) /\ Len(t) \in Nat
    BY FirstFinds
  <1> QED BY <1>1

LEMMA FirstHit ==
  ASSUME NEW t \in Text, NEW S, First(t, S) > 0
  PROVE  t[First(t, S)] \in S
  BY FirstFinds

LEMMA FirstNone ==
  ASSUME NEW t \in Text, NEW S, First(t, S) = 0, NEW j \in 1 .. Len(t)
  PROVE  t[j] \notin S
  BY FirstFinds

LEMMA UnderscoredText ==
  ASSUME NEW t \in Text
  PROVE  /\ Underscored(t) \in Text /\ Len(Underscored(t)) = Len(t) /\ Len(t) \in Nat
         /\ \A i \in 1 .. Len(t) : Underscored(t)[i] = IF t[i] = Backslash THEN Underscore ELSE t[i]
  <1>1. Len(t) \in Nat /\ DOMAIN t = 1 .. Len(t)
    BY LenProperties DEF Text
  <1>2. Underscored(t) \in Text
    BY TextTypes
  <1>3. DOMAIN Underscored(t) = 1 .. Len(t)
    BY <1>1 DEF Underscored
  <1>4. Len(Underscored(t)) = Len(t)
    BY <1>1, <1>2, <1>3, LenProperties DEF Text
  <1>5. \A i \in 1 .. Len(t) : Underscored(t)[i] = IF t[i] = Backslash THEN Underscore ELSE t[i]
    BY <1>1 DEF Underscored
  <1> QED BY <1>1, <1>2, <1>4, <1>5

LEMMA NameTypes ==
  ASSUME NEW f \in Sound, f.op /= "file"
  PROVE  /\ Name(f) \in Text /\ Len(Name(f)) \in Nat /\ Len(Name(f)) >= 1
         /\ CutAt(f) \in 0 .. Len(Name(f))
  <1>1. f.class \in Text /\ f.class /= <<>>
    BY SoundFields
  <1>2. Len(f.class) \in Nat /\ Len(f.class) >= 1
    BY <1>1, LenProperties, EmptySeq DEF Text
  <1>3. Underscored(f.class) \in Text /\ Len(Underscored(f.class)) = Len(f.class)
    BY <1>1, UnderscoredText
  <1>4. Name(f) \in Text /\ Len(Name(f)) \in Nat /\ Len(Name(f)) >= 1
    BY <1>1, <1>2, <1>3 DEF Name
  <1>5. /\ First(Name(f), {Underscore}) \in 0 .. Len(Name(f))
        /\ First(Name(f), {Backslash}) \in 0 .. Len(Name(f))
    BY <1>4, FirstType
  <1> QED BY <1>4, <1>5 DEF CutAt

\* A name that is not cut anywhere has no separator.
LEMMA Uncut ==
  ASSUME NEW f \in Sound, f.op /= "file", CutAt(f) = 0, NEW j \in 1 .. Len(Name(f))
  PROVE  Name(f)[j] \notin Separator
  <1> DEFINE a == First(Name(f), {Underscore})
             b == First(Name(f), {Backslash})
  <1>1. Name(f) \in Text
    BY NameTypes
  <1>2. a \in Nat /\ b \in Nat
    BY <1>1, FirstType
  <1>3. (IF a > 0 THEN a ELSE b) = 0
    BY DEF CutAt
  <1>4. a = 0 /\ b = 0
    <2> HIDE DEF a, b
    <2> QED BY <1>2, <1>3
  <1>5. Name(f)[j] \notin {Underscore} /\ Name(f)[j] \notin {Backslash}
    BY <1>1, <1>4, FirstNone
  <1> QED BY <1>5 DEF Separator

LEMMA VisibleTypes ==
  ASSUME NEW f \in Sound, f.op /= "file", NEW w
  PROVE  /\ Visible(w, f) \in Text
         /\ Ended(w, f) /\ CutAt(f) > 0 => Len(Visible(w, f)) = CutAt(f) - 1
         /\ Ended(w, f) /\ CutAt(f) = 0 => Len(Visible(w, f)) = 0
         /\ ~Ended(w, f) => Visible(w, f) = Name(f)
  <1> DEFINE n == Name(f)
             k == CutAt(f)
  <1>1. n \in Text /\ Len(n) \in Nat /\ k \in 0 .. Len(n)
    BY NameTypes
  <1>2. \A i \in 1 .. k - 1 : n[i] \in Token
    BY <1>1, ElementOfSeq DEF Text
  <1>3. Visible(w, f) = IF Ended(w, f) THEN SubSeq(n, 1, k - 1) ELSE n
    BY DEF Visible
  <1> HIDE DEF n, k
  <1>4. /\ SubSeq(n, 1, k - 1) \in Seq(Token)
        /\ Len(SubSeq(n, 1, k - 1)) = IF 1 <= k - 1 THEN k - 1 - 1 + 1 ELSE 0
    BY <1>1, <1>2, SubSeqProperties
  <1> QED BY <1>1, <1>3, <1>4 DEF Text, n, k

\* The search finds a separator only where the name has one.
LEMMA CutFound ==
  ASSUME NEW f \in Sound, f.op /= "file", NEW w, First(Visible(w, f), Separator) > 0
  PROVE  CutAt(f) \in 1 .. Len(Name(f))
  <1> DEFINE v == Visible(w, f)
             i == First(v, Separator)
  <1>0. v \in Text
    BY VisibleTypes
  <1>1. i \in 1 .. Len(v) /\ Len(v) \in Nat
    <2>1. i \in 0 .. Len(v) /\ Len(v) \in Nat /\ i \in Nat
      BY <1>0, FirstType
    <2>2. i > 0
      OBVIOUS
    <2> HIDE DEF i
    <2> QED BY <2>1, <2>2
  <1>2. v[i] \in Separator
    BY <1>0, FirstHit
  <1>3. CASE CutAt(f) = 0
    <2>1. ~Ended(w, f)
      BY <1>1, <1>3, VisibleTypes
    <2>2. v = Name(f)
      BY <2>1, VisibleTypes
    <2> HIDE DEF i, v
    <2> QED BY <1>1, <1>2, <1>3, <2>2, Uncut
  <1>4. CutAt(f) \in 0 .. Len(Name(f)) /\ Len(Name(f)) \in Nat
    BY NameTypes
  <1> HIDE DEF i, v
  <1> QED BY <1>3, <1>4

-----------------------------------------------------------------------------
(* Every step keeps the types of its worker *)

LEMMA InstanceType ==
  ASSUME Domains, NEW w \in Workers, WorkerType(w),
         NEW l \in Dirs \cup {Null}, NEW g \in Dirs \cup {Null}, NEW app \in BOOLEAN,
         Instance(w, l, g, app)
  PROVE  /\ loader'[w] \in LoaderType
         /\ loader'[w].on <=> loader'[w].library /= Null /\ loader'[w].global /= Null
         /\ loader[w].on => loader'[w].on
  <1> DEFINE was == loader[w]
             Or(x, y) == IF x /= Null THEN x ELSE y
             now == IF was.on THEN [was EXCEPT !.library = Or(l, @), !.global = Or(g, @)]
                    ELSE IF l = Null /\ g = Null THEN was
                    ELSE [was EXCEPT !.on = TRUE, !.library = Or(l, g), !.global = Or(g, l)]
             new == [now EXCEPT !.app = @ \/ app]
  <1>1. was \in LoaderType /\ (was.on <=> was.library /= Null /\ was.global /= Null)
    BY DEF WorkerType
  <1>2. loader'[w] = new
    BY UpdatesExcept DEF Instance, Domains
  <1> HIDE DEF was
  <1>3. /\ now \in LoaderType /\ (now.on <=> now.library /= Null /\ now.global /= Null)
        /\ was.on => now.on
    BY <1>1 DEF LoaderType
  <1> HIDE DEF now
  <1>4. new \in LoaderType /\ new.on = now.on /\ new.library = now.library /\ new.global = now.global
    BY <1>3 DEF LoaderType
  <1> HIDE DEF new
  <1> QED BY <1>2, <1>3, <1>4 DEF was

LEMMA RegisteringType ==
  ASSUME Domains, NEW w \in Workers, WorkerType(w), NEW t \in Words, Registering(w, t)
  PROVE  ns'[w] \in Text /\ ns'[w] /= Null /\ Len(ns'[w]) <= MaxText
  <1> DEFINE text == IF ns[w] = Null THEN t ELSE ns[w] \o <<Colon>> \o t
  <1>1. t \in Text /\ Null \notin Text
    BY ClassTypes
  <1>2. text \in Text
    <2>1. CASE ns[w] = Null
      BY <1>1, <2>1
    <2>2. CASE ns[w] /= Null
      <3>1. ns[w] \in Seq(Token) /\ t \in Seq(Token)
        BY <1>1, <2>2 DEF WorkerType, Text
      <3>2. Colon \in Token
        BY DEF Token
      <3>3. text = (ns[w] \o <<Colon>>) \o t
        BY <2>2
      <3>4. (ns[w] \o <<Colon>>) \in Seq(Token)
        BY <3>1, <3>2
      <3>5. ((ns[w] \o <<Colon>>) \o t) \in Seq(Token)
        BY <3>1, <3>4, ConcatProperties
      <3> QED BY <3>3, <3>5 DEF Text
    <2> QED BY <2>1, <2>2
  <1>3. Len(text) <= MaxText /\ ns' = [ns EXCEPT ![w] = text]
    BY DEF Registering
  <1> HIDE DEF text
  <1>4. ns'[w] = text
    BY <1>3, UpdatesExcept DEF Domains
  <1> QED BY <1>1, <1>2, <1>3, <1>4

\* PHP code runs in the innermost call.
LEMMA PhpQuiet ==
  ASSUME NEW w, Stacked(stack[w]), stack[w] = <<>> \/ In(w, "file", "runs")
  PROVE  stack[w] /= <<>> => stack[w][1] \in Quiet /\ stack[w][1] \in FileFrame
  BY TopType DEF In, Quiet, FileFrame

\* A step that changes only what is not a call.
LEMMA SameStack ==
  ASSUME NEW w, WorkerStack(w), stack'[w] = stack[w], loader[w].on => loader'[w].on,
         exc'[w] /= exc[w] \/ ns'[w] /= ns[w] => stack[w] = <<>> \/ stack[w][1] \in Quiet
  PROVE  WorkerStack(w)'
  <1>1. Stacked(stack'[w])
    BY DEF WorkerStack
  <1>2. exc'[w] /\ stack'[w] /= <<>> => stack'[w][1] \in Quiet
    BY DEF WorkerStack
  <1>3. loader'[w].on \/ stack'[w] \in Seq(FileFrame)
    BY DEF WorkerStack
  <1>4. stack'[w] /= <<>> /\ stack'[w][1].pc = "search" => ns'[w] /= Null
    BY DEF WorkerStack, Quiet
  <1> QED BY <1>1, <1>2, <1>3, <1>4 DEF WorkerStack

LEMMA PhpTypes ==
  ASSUME WorkerInv, NEW w \in Workers,
         \/ \E l, g \in Dirs \cup {Null} : GetInstance(w, l, g)
         \/ \E t \in Words : RegisterLocalNamespace(w, t)
         \/ \E t \in Words \cup {Null} : NewApplication(w, t)
         \/ ClearLocalNamespace(w)
         \/ \E d \in Dirs, global \in BOOLEAN : SetLibraryPath(w, d, global)
         \/ Throw(w) \/ Catch(w)
  PROVE  Only(w) /\ WorkerType(w)' /\ WorkerStack(w)' /\ stack' = stack
  <1>0. Domains /\ WorkerType(w) /\ WorkerStack(w) /\ Stacked(stack[w])
    BY DEF WorkerInv, WorkerStack
  <1>1. Only(w) /\ stack' = stack
    BY <1>0, OnlyPhp
  <1>2. ASSUME NEW l \in Dirs \cup {Null}, NEW g \in Dirs \cup {Null}, GetInstance(w, l, g)
        PROVE  WorkerType(w)' /\ WorkerStack(w)'
    <2>1. /\ loader'[w] \in LoaderType /\ (loader[w].on => loader'[w].on)
          /\ loader'[w].on <=> loader'[w].library /= Null /\ loader'[w].global /= Null
      BY <1>0, <1>2, InstanceType DEF GetInstance
    <2>2. UNCHANGED <<ns, classes, included, exc, mode, ran>>
      BY <1>2 DEF GetInstance
    <2> QED BY <1>0, <1>1, <2>1, <2>2, SameStack DEF WorkerType
  <1>3. ASSUME NEW t \in Words, RegisterLocalNamespace(w, t)
        PROVE  WorkerType(w)' /\ WorkerStack(w)'
    <2>1. ns'[w] \in Text /\ Len(ns'[w]) <= MaxText
      BY <1>0, <1>3, RegisteringType DEF RegisterLocalNamespace
    <2>2. UNCHANGED <<loader, classes, included, exc, mode, ran>>
      BY <1>3 DEF RegisterLocalNamespace
    <2>3. stack[w] /= <<>> => stack[w][1] \in Quiet
      BY <1>0, <1>3, PhpQuiet DEF RegisterLocalNamespace, Php
    <2> QED BY <1>0, <1>1, <2>1, <2>2, <2>3, SameStack DEF WorkerType
  <1>4. ASSUME NEW t \in Words \cup {Null}, NewApplication(w, t)
        PROVE  WorkerType(w)' /\ WorkerStack(w)'
    <2>1. /\ loader'[w] \in LoaderType /\ (loader[w].on => loader'[w].on)
          /\ loader'[w].on <=> loader'[w].library /= Null /\ loader'[w].global /= Null
      BY <1>0, <1>4, InstanceType, LoaderAssumption DEF NewApplication
    <2>2. ns'[w] \in Text \cup {Null} /\ (ns'[w] /= Null => Len(ns'[w]) <= MaxText)
      <3>1. CASE t = Null
        BY <1>0, <1>4, <3>1 DEF NewApplication, WorkerType
      <3>2. CASE t /= Null
        BY <1>0, <1>4, <3>2, RegisteringType DEF NewApplication
      <3> QED BY <3>1, <3>2
    <2>3. UNCHANGED <<classes, included, exc, mode, ran>>
      BY <1>4 DEF NewApplication
    <2>4. stack[w] /= <<>> => stack[w][1] \in Quiet
      BY <1>0, <1>4, PhpQuiet DEF NewApplication, Php
    <2> QED BY <1>0, <1>1, <2>1, <2>2, <2>3, <2>4, SameStack DEF WorkerType
  <1>5. CASE ClearLocalNamespace(w)
    <2>1. ns'[w] = Null /\ mode'[w] \in {"on", "fatal", "crashed"}
      BY <1>0, <1>5, UpdatesExcept DEF ClearLocalNamespace, Domains, WorkerType
    <2>2. UNCHANGED <<loader, classes, included, exc, ran>>
      BY <1>5 DEF ClearLocalNamespace
    <2>3. stack[w] /= <<>> => stack[w][1] \in Quiet
      BY <1>0, <1>5, PhpQuiet DEF ClearLocalNamespace, Php
    <2> QED BY <1>0, <1>1, <2>1, <2>2, <2>3, SameStack DEF WorkerType
  <1>6. ASSUME NEW d \in Dirs, NEW global \in BOOLEAN, SetLibraryPath(w, d, global)
        PROVE  WorkerType(w)' /\ WorkerStack(w)'
    <2> DEFINE l == loader[w]
               m == IF global THEN [l EXCEPT !.global = d] ELSE [l EXCEPT !.library = d]
    <2>1. l \in LoaderType /\ l.on /\ (l.on <=> l.library /= Null /\ l.global /= Null) /\ d /= Null
      BY <1>0, <1>6, LoaderAssumption DEF SetLibraryPath, WorkerType
    <2>2. loader'[w] = m
      BY <1>0, <1>6, UpdatesExcept DEF SetLibraryPath, Domains
    <2> HIDE DEF l
    <2>3. m \in LoaderType /\ m.on /\ m.library /= Null /\ m.global /= Null
      BY <2>1 DEF LoaderType
    <2> HIDE DEF m
    <2>4. UNCHANGED <<ns, classes, included, exc, mode, ran>>
      BY <1>6 DEF SetLibraryPath
    <2> QED BY <1>0, <1>1, <2>2, <2>3, <2>4, SameStack DEF WorkerType
  <1>7. CASE Throw(w) \/ Catch(w)
    <2>1. exc'[w] \in BOOLEAN /\ UNCHANGED <<loader, ns, classes, included, mode, ran>>
      BY <1>0, <1>7, UpdatesExcept DEF Throw, Catch, Domains
    <2>2. stack[w] /= <<>> => stack[w][1] \in Quiet
      BY <1>0, <1>7, PhpQuiet DEF Throw, Catch
    <2> QED BY <1>0, <1>1, <2>1, <2>2, SameStack DEF WorkerType
  <1> QED BY <1>1, <1>2, <1>3, <1>4, <1>5, <1>6, <1>7

\* A call is made, goes on, or returns; nothing else happens.
LEMMA Pushes ==
  ASSUME WorkerInv, NEW w \in Workers, NEW f \in Sound, f.pc /= "search", C(w), loader[w].on,
         stack[w] /= <<>> => stack[w][1] \in Quiet, Push(w, f),
         UNCHANGED <<loader, ns, classes, included, exc, mode, ran>>
  PROVE  /\ Only(w) /\ WorkerType(w)' /\ WorkerStack(w)' /\ stack'[w] /= <<>> /\ stack'[w][1] = f
         /\ stack'[w] = <<f>> \o stack[w]
  <1> DEFINE s == <<f>> \o stack[w]
  <1>1. Domains /\ WorkerType(w) /\ Stacked(stack[w])
    BY DEF WorkerInv, WorkerStack
  <1>2. Stacked(s) /\ s /= <<>> /\ s[1] = f
    BY <1>1, StackPushed
  <1>3. stack' = [stack EXCEPT ![w] = s]
    BY DEF Push
  <1> HIDE DEF s
  <1>4. Only(w) /\ stack'[w] = s
    BY <1>1, <1>3, OnlyLoader
  <1>5. WorkerType(w)' /\ ~exc'[w] /\ loader'[w].on
    BY <1>1 DEF WorkerType, C
  <1>6. WorkerStack(w)'
    BY <1>2, <1>4, <1>5 DEF WorkerStack
  <1> QED BY <1>2, <1>4, <1>5, <1>6 DEF s

LEMMA Changes ==
  ASSUME WorkerInv, NEW w \in Workers, NEW f \in Sound, C(w), stack[w] /= <<>>, loader[w].on,
         f.pc = "search" => ns[w] /= Null, Change(w, f),
         UNCHANGED <<loader, ns, classes, included, exc, mode, ran>>
  PROVE  /\ Only(w) /\ WorkerType(w)' /\ WorkerStack(w)' /\ stack'[w] /= <<>> /\ stack'[w][1] = f
         /\ stack'[w] = <<f>> \o Tail(stack[w])
  <1> DEFINE s == <<f>> \o Tail(stack[w])
  <1>1. Domains /\ WorkerType(w) /\ Stacked(stack[w])
    BY DEF WorkerInv, WorkerStack
  <1>2. Stacked(s) /\ s /= <<>> /\ s[1] = f
    BY <1>1, StackChanged
  <1>3. stack' = [stack EXCEPT ![w] = s]
    BY DEF Change
  <1> HIDE DEF s
  <1>4. Only(w) /\ stack'[w] = s
    BY <1>1, <1>3, OnlyLoader
  <1>5. WorkerType(w)' /\ ~exc'[w] /\ loader'[w].on /\ (f.pc = "search" => ns'[w] /= Null)
    BY <1>1 DEF WorkerType, C
  <1>6. WorkerStack(w)'
    BY <1>2, <1>4, <1>5 DEF WorkerStack
  <1> QED BY <1>2, <1>4, <1>5, <1>6 DEF s

\* What is left when the innermost call returns.
LEMMA Returned ==
  ASSUME NEW w, WorkerStack(w), stack[w] /= <<>>, stack'[w] = Tail(stack[w]),
         loader'[w] = loader[w], ns'[w] = ns[w]
  PROVE  WorkerStack(w)' /\ (stack'[w] /= <<>> => stack'[w][1] \in Quiet)
  <1>1. Stacked(stack'[w]) /\ (stack'[w] /= <<>> => stack'[w][1] \in Quiet)
    BY StackPopped DEF WorkerStack
  <1>2. loader'[w].on \/ stack'[w] \in Seq(FileFrame)
    BY Popped DEF WorkerStack
  <1> QED BY <1>1, <1>2 DEF WorkerStack, Quiet

LEMMA Pops ==
  ASSUME WorkerInv, NEW w \in Workers, stack[w] /= <<>>, Pop(w),
         UNCHANGED <<loader, ns, classes, included, exc, mode, ran>>
  PROVE  /\ Only(w) /\ WorkerType(w)' /\ WorkerStack(w)' /\ stack'[w] = Tail(stack[w])
         /\ stack'[w] /= <<>> => stack'[w][1] \in Quiet
  <1> DEFINE s == Tail(stack[w])
  <1>1. Domains /\ WorkerType(w) /\ WorkerStack(w)
    BY DEF WorkerInv
  <1>2. stack' = [stack EXCEPT ![w] = s]
    BY DEF Pop
  <1> HIDE DEF s
  <1>3. Only(w) /\ stack'[w] = s
    BY <1>1, <1>2, OnlyLoader
  <1>4. WorkerType(w)'
    BY <1>1 DEF WorkerType
  <1>5. stack'[w] = Tail(stack[w])
    BY <1>3 DEF s
  <1>6. WorkerStack(w)' /\ (stack'[w] /= <<>> => stack'[w][1] \in Quiet)
    BY <1>1, <1>5, Returned
  <1> QED BY <1>3, <1>4, <1>5, <1>6

\* A worker inside the loader has one.
LEMMA LoaderOn ==
  ASSUME NEW w, WorkerStack(w), stack[w] /= <<>>, stack[w][1].op /= "file"
  PROVE  loader[w].on
  BY Popped DEF WorkerStack, FileFrame

\* What yaf_loader_is_local_namespace makes of its locals.
Begun(w, f) ==
  LET i == First(Visible(w, f), Separator)
  IN [f EXCEPT !.at = 1, !.pc = "search", !.backup = i > 0,
               !.len = IF i > 0 THEN CutAt(f) - 1 ELSE Len(Name(f))]
Ends(f, found) == [f EXCEPT !.pc = "found", !.local = found, !.backup = FALSE, !.turns = 0]
Turned(f, i) == [f EXCEPT !.at = PlaceAfter(i, f.len), !.turns = @ + 1]
Composed(w, f) ==
  [f EXCEPT !.pc = "compile",
            !.path = [dir |-> IF f.local THEN loader[w].library ELSE loader[w].global,
                      name |-> Slashed(Visible(w, f))]]

LEMMA BegunType ==
  ASSUME NEW w, NEW f \in Sound, f.op /= "file"
  PROVE  /\ Begun(w, f) \in Sound /\ Begun(w, f).op = f.op /\ Begun(w, f).class = f.class
         /\ Begun(w, f).pc = "search" /\ Begun(w, f).at = 1 /\ Begun(w, f).turns = f.turns
         /\ Begun(w, f).via = f.via /\ Begun(w, f).again = f.again
         /\ Begun(w, f).backup = (First(Visible(w, f), Separator) > 0)
         /\ Begun(w, f).len = IF First(Visible(w, f), Separator) > 0 THEN CutAt(f) - 1 ELSE Len(Name(f))
  <1> DEFINE i == First(Visible(w, f), Separator)
             len == IF i > 0 THEN CutAt(f) - 1 ELSE Len(Name(f))
             g == [f EXCEPT !.at = 1, !.pc = "search", !.backup = i > 0, !.len = len]
  <1>1. len \in Nat
    <2>1. Len(Name(f)) \in Nat
      BY NameTypes
    <2>2. CASE i > 0
      <3>1. CutAt(f) \in 1 .. Len(Name(f))
        BY <2>2, CutFound
      <3> QED BY <2>1, <2>2, <3>1
    <2>3. CASE ~(i > 0)
      BY <2>1, <2>3
    <2> QED BY <2>2, <2>3
  <1>2. Begun(w, f) = g
    BY DEF Begun
  <1>3. (i > 0) \in BOOLEAN /\ 1 \in 1 .. MaxText + 1
    BY LoaderAssumption
  <1> HIDE DEF i, len
  <1>4. g \in Frame /\ g.op = f.op /\ g.class = f.class /\ g.pc = "search" /\ g.at = 1 /\ g.turns = f.turns
        /\ g.via = f.via /\ g.again = f.again /\ g.backup = (i > 0) /\ g.len = len
    BY <1>1, <1>3 DEF Frame, Sound
  <1> HIDE DEF g
  <1>5. g \in Sound
    BY <1>4 DEF Sound
  <1> QED BY <1>2, <1>4, <1>5 DEF i, len

LEMMA EndsType ==
  ASSUME NEW f \in Sound, f.op /= "file", NEW found \in BOOLEAN
  PROVE  /\ Ends(f, found) \in Sound /\ Ends(f, found).op = f.op /\ Ends(f, found).class = f.class
         /\ Ends(f, found).pc = "found" /\ Ends(f, found).local = found /\ Ends(f, found).turns = 0
         /\ Ends(f, found).via = f.via /\ Ends(f, found).again = f.again
         /\ Ends(f, found).backup = FALSE
  <1> DEFINE g == Ends(f, found)
  <1>1. g \in Frame /\ g.op = f.op /\ g.class = f.class /\ g.pc = "found" /\ g.local = found
        /\ g.turns = 0 /\ g.via = f.via /\ g.again = f.again /\ g.backup = FALSE
    BY DEF Frame, Sound, Ends
  <1> HIDE DEF g
  <1>2. g \in Sound
    BY <1>1 DEF Sound
  <1> QED BY <1>1, <1>2 DEF g

LEMMA TurnedType ==
  ASSUME NEW f \in Sound, f.op /= "file", f.pc = "search", NEW i \in Nat, i >= 1,
         i + f.len <= MaxText + 1
  PROVE  /\ Turned(f, i) \in Sound /\ Turned(f, i).op = f.op /\ Turned(f, i).class = f.class
         /\ Turned(f, i).pc = "search" /\ Turned(f, i).at = i + f.len
         /\ Turned(f, i).turns = f.turns + 1 /\ Turned(f, i).len = f.len
         /\ Turned(f, i).via = f.via /\ Turned(f, i).again = f.again /\ Turned(f, i).backup = f.backup
  <1> DEFINE g == Turned(f, i)
             at == i + f.len
             n == f.turns + 1
  <1>0. f.len \in Nat /\ f.turns \in Nat /\ MaxText \in Nat
    BY LoaderAssumption, SoundFields
  <1>1. at \in 1 .. MaxText + 1 /\ n \in Nat
    BY <1>0
  <1>2. g = [f EXCEPT !.at = at, !.turns = n]
    BY DEF Turned, PlaceAfter
  <1> HIDE DEF at, n, g
  <1>3. g \in Frame /\ g.op = f.op /\ g.class = f.class /\ g.pc = f.pc /\ g.at = at /\ g.turns = n
        /\ g.len = f.len /\ g.via = f.via /\ g.again = f.again /\ g.backup = f.backup
    BY <1>1, <1>2 DEF Frame, Sound
  <1>4. g \in Sound
    BY <1>3 DEF Sound
  <1> QED BY <1>3, <1>4 DEF g, at, n

LEMMA ComposedType ==
  ASSUME NEW w, NEW f \in Sound, f.op = "autoload", WorkerType(w), loader[w].on
  PROVE  /\ Composed(w, f) \in Sound /\ Composed(w, f).op = "autoload"
         /\ Composed(w, f).class = f.class
         /\ Composed(w, f).pc = "compile" /\ Composed(w, f).turns = f.turns
         /\ Composed(w, f).via = f.via /\ Composed(w, f).again = f.again
         /\ Composed(w, f).path = [dir |-> IF f.local THEN loader[w].library ELSE loader[w].global,
                                   name |-> Slashed(Visible(w, f))]
  <1> DEFINE g == Composed(w, f)
             d == IF f.local THEN loader[w].library ELSE loader[w].global
             p == [dir |-> d, name |-> Slashed(Visible(w, f))]
  <1>0. d \in Dirs
    BY DEF WorkerType, LoaderType
  <1>1. Slashed(Visible(w, f)) \in Text
    BY VisibleTypes, TextTypes
  <1>2. p \in Path
    BY <1>0, <1>1 DEF Path
  <1>3. g = [f EXCEPT !.pc = "compile", !.path = p]
    BY DEF Composed
  <1> HIDE DEF g, p
  <1>4. g \in Frame /\ g.op = f.op /\ g.class = f.class /\ g.pc = "compile" /\ g.path = p
        /\ g.turns = f.turns /\ g.via = f.via /\ g.again = f.again
    BY <1>2, <1>3 DEF Frame, Sound
  <1>5. g \in Sound
    BY <1>2, <1>4 DEF Sound
  <1> QED BY <1>4, <1>5 DEF g, p

Unsearched(f) == [f EXCEPT !.pc = "found", !.local = FALSE]

LEMMA UnsearchedType ==
  ASSUME NEW f \in Sound, f.op /= "file"
  PROVE  /\ Unsearched(f) \in Sound /\ Unsearched(f).op = f.op /\ Unsearched(f).class = f.class
         /\ Unsearched(f).pc = "found" /\ Unsearched(f).local = FALSE
         /\ Unsearched(f).turns = f.turns /\ Unsearched(f).backup = f.backup
         /\ Unsearched(f).via = f.via /\ Unsearched(f).again = f.again
  <1> DEFINE g == Unsearched(f)
  <1>1. g \in Frame /\ g.op = f.op /\ g.class = f.class /\ g.pc = "found" /\ g.local = FALSE
        /\ g.turns = f.turns /\ g.via = f.via /\ g.again = f.again /\ g.backup = f.backup
    BY DEF Frame, Sound, Unsearched
  <1> HIDE DEF g
  <1>2. g \in Sound
    BY <1>1 DEF Sound
  <1> QED BY <1>1, <1>2 DEF g

\* The places that a turn of the search looks at, and the one it takes.
Ahead(w) == {i \in Places(ns[w], Visible(w, Top(w))) : i >= Top(w).at}
Taken(w) == Min(Ahead(w))

LEMMA TakenPlace ==
  ASSUME NEW w, ns[w] \in Text, Visible(w, Top(w)) \in Text, Ahead(w) /= {}
  PROVE  /\ Taken(w) \in Ahead(w) /\ Taken(w) \in Nat /\ Taken(w) >= 1
         /\ Taken(w) <= Len(ns[w]) + 1
         /\ Taken(w) \in Places(ns[w], Visible(w, Top(w))) /\ Taken(w) >= Top(w).at
  <1>0. Len(ns[w]) \in Nat
    BY LenProperties DEF Text
  <1>1. Ahead(w) \in SUBSET Nat /\ Ahead(w) \in SUBSET (1 .. Len(ns[w]) + 1)
    BY <1>0 DEF Ahead, Places
  <1>2. Taken(w) \in Ahead(w)
    BY <1>1, MinIsLeast DEF Taken
  <1>3. Taken(w) \in 1 .. Len(ns[w]) + 1
    BY <1>1, <1>2
  <1>4. Taken(w) \in Places(ns[w], Visible(w, Top(w))) /\ Taken(w) >= Top(w).at
    BY <1>2 DEF Ahead
  <1> QED BY <1>0, <1>2, <1>3, <1>4

\* No place in front of it was ahead.
LEMMA TakenFirst ==
  ASSUME NEW w, ns[w] \in Text, NEW i \in Ahead(w)
  PROVE  Taken(w) <= i
  <1>0. Len(ns[w]) \in Nat
    BY LenProperties DEF Text
  <1>1. Ahead(w) \in SUBSET Nat
    BY <1>0 DEF Ahead, Places
  <1>2. Ahead(w) /= {}
    OBVIOUS
  <1> QED BY <1>1, <1>2, MinIsLeast DEF Taken

\* The innermost call of worker w becomes f.
Moves(w, f) ==
  /\ Only(w) /\ WorkerType(w)' /\ WorkerStack(w)' /\ stack'[w] /= <<>>
  /\ stack'[w][1] = f /\ stack'[w] = <<f>> \o Tail(stack[w])

\* The call that is inside yaf_loader_is_local_namespace.
LEMMA Inside ==
  ASSUME WorkerInv, NEW w \in Workers, NEW pc, In(w, "autoload", pc) \/ In(w, "isLocalName", pc)
  PROVE  /\ stack[w] /= <<>> /\ Top(w) \in Sound /\ Top(w).op /= "file" /\ Top(w).pc = pc
         /\ Top(w) = stack[w][1] /\ loader[w].on /\ Visible(w, Top(w)) \in Text
         /\ pc = "search" => ns[w] /= Null /\ ns[w] \in Text
  <1>1. WorkerType(w) /\ WorkerStack(w) /\ Stacked(stack[w])
    BY DEF WorkerInv, WorkerStack
  <1>2. stack[w] /= <<>> /\ Top(w) \in Sound /\ Top(w).op /= "file" /\ Top(w).pc = pc /\ Top(w) = stack[w][1]
    <2>1. stack[w] /= <<>> /\ Top(w).op \in {"autoload", "isLocalName"} /\ Top(w).pc = pc
      BY DEF In
    <2>2. Top(w) \in Sound /\ Top(w) = stack[w][1]
      BY <1>1, <2>1, TopType
    <2> QED BY <2>1, <2>2
  <1>3. loader[w].on
    BY <1>1, <1>2, LoaderOn
  <1>4. Visible(w, Top(w)) \in Text
    BY <1>2, VisibleTypes
  <1>5. pc = "search" => ns[w] /= Null /\ ns[w] \in Text
    BY <1>1, <1>2 DEF WorkerStack, WorkerType
  <1> QED BY <1>2, <1>3, <1>4, <1>5

LEMMA BeginStep ==
  ASSUME WorkerInv, NEW w \in Workers, Begin(w)
  PROVE  Moves(w, IF ns[w] = Null THEN Unsearched(Top(w)) ELSE Begun(w, Top(w)))
  <1> DEFINE f == Top(w)
             g == IF ns[w] = Null THEN Unsearched(Top(w)) ELSE Begun(w, Top(w))
  <1>1. In(w, "autoload", "begin") \/ In(w, "isLocalName", "begin")
    BY DEF Begin
  <1>2. stack[w] /= <<>> /\ f \in Sound /\ f.op /= "file" /\ loader[w].on
    BY <1>1, Inside
  <1>3. C(w) /\ UNCHANGED <<loader, ns, classes, included, exc, mode, ran>> /\ SearchBegins(w, f)
    BY DEF Begin
  <1>4. Change(w, g)
    BY <1>3 DEF SearchBegins, Unsearched, Begun
  <1>5. g \in Sound /\ (g.pc = "search" => ns[w] /= Null)
    BY <1>2, UnsearchedType, BegunType
  <1> HIDE DEF g
  <1>6. Moves(w, g)
    BY <1>2, <1>3, <1>4, <1>5, Changes DEF Moves
  <1> QED BY <1>6 DEF g

LEMMA EndsStep ==
  ASSUME WorkerInv, NEW w \in Workers, C(w), NEW found \in BOOLEAN,
         In(w, "autoload", "search") \/ In(w, "isLocalName", "search"),
         SearchEndsWith(w, Top(w), found),
         UNCHANGED <<loader, ns, classes, included, exc, mode, ran>>
  PROVE  Moves(w, Ends(Top(w), found))
  <1> DEFINE f == Top(w)
             g == Ends(f, found)
  <1>2. stack[w] /= <<>> /\ f \in Sound /\ f.op /= "file" /\ loader[w].on
    BY Inside
  <1>4. Change(w, g)
    BY DEF SearchEndsWith, Ends
  <1>5. g \in Sound /\ g.pc /= "search"
    BY <1>2, EndsType
  <1> HIDE DEF g
  <1>6. Moves(w, g)
    BY <1>2, <1>4, <1>5, Changes DEF Moves
  <1> QED BY <1>6 DEF g

\* The process is gone in the middle of its search.
Crashes(w) ==
  /\ Only(w) /\ WorkerType(w)' /\ WorkerStack(w)' /\ stack' = stack /\ ns' = ns
  /\ cut' = cut /\ mode'[w] = "crashed"

\* The prefix at the place taken is no name: on to what follows it.
TurnsOn(w) ==
  /\ Ahead(w) /= {} /\ Taken(w) + Top(w).len <= Len(ns[w]) + 1
  /\ ~WholeName(ns[w], Top(w).at, Taken(w), Taken(w) + Top(w).len)
  /\ Moves(w, Turned(Top(w), Taken(w))) /\ ns' = ns /\ cut' = cut

\* The answer is what the place taken says, or anything once that is past the end.
Answers(w, found) ==
  /\ Moves(w, Ends(Top(w), found)) /\ ns' = ns
  /\ Put(w, Top(w), cut \ {Id(w, Top(w).class)})
  /\ \/ Ahead(w) = {} /\ found = FALSE
     \/ Ahead(w) /= {} /\ Taken(w) + Top(w).len > Len(ns[w]) + 1
     \/ /\ Ahead(w) /= {} /\ Taken(w) + Top(w).len <= Len(ns[w]) + 1 /\ found = TRUE
        /\ WholeName(ns[w], Top(w).at, Taken(w), Taken(w) + Top(w).len)

LEMMA SearchStep ==
  ASSUME WorkerInv, NEW w \in Workers, Search(w)
  PROVE  Crashes(w) \/ TurnsOn(w) \/ (\E found \in BOOLEAN : Answers(w, found))
  <1> DEFINE f == Top(w)
             places == {i \in Places(ns[w], Visible(w, f)) : i >= f.at}
  <1>1. In(w, "autoload", "search") \/ In(w, "isLocalName", "search")
    BY DEF Search
  <1>2. /\ stack[w] /= <<>> /\ f \in Sound /\ f.op /= "file" /\ loader[w].on /\ f.pc = "search"
        /\ ns[w] /= Null /\ ns[w] \in Text /\ Visible(w, f) \in Text
    BY <1>1, Inside
  <1>3. C(w) /\ UNCHANGED <<loader, ns, classes, included, exc, ran>>
    BY DEF Search
  <1>4. Domains /\ WorkerType(w) /\ WorkerStack(w)
    BY DEF WorkerInv
  <1>5. places = Ahead(w) /\ Min(places) = Taken(w)
    BY DEF Ahead, Taken
  <1>6. ASSUME NEW found \in BOOLEAN, SearchEndsWith(w, f, found), UNCHANGED mode
        PROVE  Moves(w, Ends(f, found)) /\ ns' = ns /\ Put(w, f, cut \ {Id(w, f.class)})
    <2>1. Moves(w, Ends(f, found))
      BY <1>1, <1>3, <1>6, EndsStep
    <2>2. Put(w, f, cut \ {Id(w, f.class)})
      BY <1>6 DEF SearchEndsWith, Restored
    <2> QED BY <1>3, <2>1, <2>2
  <1> HIDE DEF f, places
  <1>7. CASE Ahead(w) = {} /\ SearchEndsWith(w, f, FALSE) /\ UNCHANGED mode
    BY <1>6, <1>7 DEF Answers, f
  <1>8. ASSUME Ahead(w) /= {}, Taken(w) + f.len <= Len(ns[w]) + 1, UNCHANGED mode,
               IF WholeName(ns[w], f.at, Taken(w), Taken(w) + f.len) THEN SearchEndsWith(w, f, TRUE)
               ELSE Change(w, Turned(f, Taken(w))) /\ UNCHANGED cut
        PROVE  TurnsOn(w) \/ Answers(w, TRUE)
    <2>1. CASE WholeName(ns[w], f.at, Taken(w), Taken(w) + f.len)
      BY <1>6, <1>8, <2>1 DEF Answers, f
    <2>2. CASE ~WholeName(ns[w], f.at, Taken(w), Taken(w) + f.len)
      <3>1. /\ Taken(w) \in Nat /\ Taken(w) >= 1 /\ Taken(w) <= Len(ns[w]) + 1
        BY <1>2, <1>8, TakenPlace DEF f
      <3>2. Len(ns[w]) \in Nat /\ Len(ns[w]) <= MaxText /\ MaxText \in Nat /\ f.len \in Nat
        BY <1>2, <1>4, LenProperties, LoaderAssumption, SoundFields DEF WorkerType, Text
      <3>3. Taken(w) + f.len <= MaxText + 1
        BY <1>8, <3>1, <3>2
      <3>4. Turned(f, Taken(w)) \in Sound /\ Turned(f, Taken(w)).pc = "search"
        BY <1>2, <3>1, <3>3, TurnedType
      <3>5. Change(w, Turned(f, Taken(w))) /\ UNCHANGED cut
        BY <1>8, <2>2
      <3>6. Moves(w, Turned(f, Taken(w)))
        BY <1>2, <1>3, <1>8, <3>4, <3>5, Changes DEF Moves
      <3> QED BY <1>3, <1>8, <2>2, <3>5, <3>6 DEF TurnsOn, f
    <2> QED BY <2>1, <2>2
  <1>9. ASSUME Ahead(w) /= {}, Taken(w) + f.len > Len(ns[w]) + 1,
               NEW found \in BOOLEAN, SearchEndsWith(w, f, found), UNCHANGED mode
        PROVE  Answers(w, found)
    BY <1>6, <1>9 DEF Answers, f
  <1>10. CASE mode' = [mode EXCEPT ![w] = "crashed"] /\ UNCHANGED <<stack, cut>>
    <2>1. Only(w) /\ mode'[w] = "crashed"
      BY <1>3, <1>4, <1>10, UpdatesExcept, UpdatesSame DEF Only, Domains
    <2>2. WorkerType(w)'
      BY <1>3, <1>4, <2>1 DEF WorkerType
    <2>3. WorkerStack(w)'
      BY <1>3, <1>4, <1>10, SameStack
    <2> QED BY <1>3, <1>10, <2>1, <2>2, <2>3 DEF Crashes
  <1>11. \/ Ahead(w) = {} /\ SearchEndsWith(w, f, FALSE) /\ UNCHANGED mode
         \/ /\ Ahead(w) /= {} /\ Taken(w) + f.len <= Len(ns[w]) + 1 /\ UNCHANGED mode
            /\ IF WholeName(ns[w], f.at, Taken(w), Taken(w) + f.len) THEN SearchEndsWith(w, f, TRUE)
               ELSE Change(w, Turned(f, Taken(w))) /\ UNCHANGED cut
         \/ /\ Ahead(w) /= {} /\ Taken(w) + f.len > Len(ns[w]) + 1
            /\ \/ \E found \in BOOLEAN : SearchEndsWith(w, f, found) /\ UNCHANGED mode
               \/ mode' = [mode EXCEPT ![w] = "crashed"] /\ UNCHANGED <<stack, cut>>
    BY <1>5 DEF Search, Turned, f, places
  <1> QED BY <1>7, <1>8, <1>9, <1>10, <1>11

\* The call that executes a file.
Loaded(w, p, via) ==
  LET f == Disk[RealPath(p)]
      early == f.class /= Null /\ (f.parent = Null \/ f.parent \in classes[w])
  IN [Call("file", f.class, FALSE, "runs") EXCEPT
        !.path = p, !.via = via, !.late = f.class /= Null /\ ~early,
        !.again = RealPath(p) \in ran[w]]

\* Compiling it finds its class declared already.
Clashes(w, p) ==
  LET f == Disk[RealPath(p)]
  IN f.class /= Null /\ (f.parent = Null \/ f.parent \in classes[w]) /\ f.class \in classes[w]

LEMMA LoadedType ==
  ASSUME NEW w, NEW p \in Path, Exists(p), NEW via \in {"import", "autoload"}
  PROVE  /\ Loaded(w, p, via) \in FileFrame /\ Loaded(w, p, via) \in Quiet
         /\ Loaded(w, p, via).via = via /\ Loaded(w, p, via).again = (RealPath(p) \in ran[w])
         /\ Loaded(w, p, via).pc = "runs" /\ Loaded(w, p, via).op = "file"
  <1> DEFINE f == Disk[RealPath(p)]
             late == f.class /= Null /\ ~(f.class /= Null /\ (f.parent = Null \/ f.parent \in classes[w]))
             again == RealPath(p) \in ran[w]
             k == Call("file", f.class, FALSE, "runs")
             g == [k EXCEPT !.path = p, !.via = via, !.late = late, !.again = again]
  <1>1. f.class \in ClassNames \cup {Null} /\ f.parent \in ClassNames \cup {Null}
    BY TextAssumption DEF Exists
  <1>2. late \in BOOLEAN /\ again \in BOOLEAN
    OBVIOUS
  <1>3. late => f.class \in ClassNames /\ f.parent \in ClassNames
    BY <1>1
  <1>4. k \in Frame /\ k.op = "file" /\ k.pc = "runs" /\ k.class = f.class
    BY <1>1, LoaderAssumption DEF Call, Frame
  <1>5. Loaded(w, p, via) = g
    BY DEF Loaded
  <1> HIDE DEF k, late, again
  <1>6. g \in Frame /\ g.op = "file" /\ g.pc = "runs" /\ g.class = f.class /\ g.path = p /\ g.late = late
        /\ g.via = via /\ g.again = again
    BY <1>2, <1>4 DEF Frame
  <1> HIDE DEF g
  <1>7. g \in Sound
    BY <1>3, <1>6 DEF Sound
  <1> QED BY <1>5, <1>6, <1>7 DEF FileFrame, Quiet, again

\* The invariant is kept.
Safe(w) == Only(w) /\ WorkerType(w)' /\ WorkerStack(w)'

\* What Execute does to the worker, above the calls that wait for the file.
Executes(w, p, via, below) ==
  /\ Safe(w) /\ p \in Path /\ Exists(p) /\ via \in {"import", "autoload"}
  /\ stack'[w] = IF Clashes(w, p) THEN below ELSE <<Loaded(w, p, via)>> \o below
  /\ included'[w] = IF Clashes(w, p) THEN included[w] ELSE included[w] \cup {RealPath(p)}
  /\ ran'[w] = IF Clashes(w, p) THEN ran[w] ELSE ran[w] \cup {RealPath(p)}
  /\ stack'[w] /= <<>> => stack'[w][1] \in Quiet

LEMMA ExecuteStep ==
  ASSUME WorkerInv, NEW w \in Workers, NEW p \in Path, Exists(p), NEW via \in {"import", "autoload"},
         NEW below, Stacked(below), below /= <<>> => below[1] \in Quiet,
         loader[w].on \/ below \in Seq(FileFrame),
         Execute(w, p, via, below), UNCHANGED <<loader, ns, exc>>
  PROVE  Executes(w, p, via, below)
  <1> DEFINE f == Disk[RealPath(p)]
             early == f.class /= Null /\ (f.parent = Null \/ f.parent \in classes[w])
             g == Loaded(w, p, via)
             s == IF Clashes(w, p) THEN below ELSE <<g>> \o below
             c == IF early THEN classes[w] \cup {f.class} ELSE classes[w]
             m == IF Clashes(w, p) THEN "fatal" ELSE mode[w]
             i == IF Clashes(w, p) THEN included[w] ELSE included[w] \cup {RealPath(p)}
             r == IF Clashes(w, p) THEN ran[w] ELSE ran[w] \cup {RealPath(p)}
  <1>0. Domains /\ WorkerType(w) /\ WorkerStack(w)
    BY DEF WorkerInv
  <1>1. /\ classes' = [classes EXCEPT ![w] = c] /\ mode' = [mode EXCEPT ![w] = m]
        /\ included' = [included EXCEPT ![w] = i] /\ ran' = [ran EXCEPT ![w] = r]
        /\ stack' = [stack EXCEPT ![w] = s]
    BY DEF Execute, Clashes, Loaded, Recorded
  <1>2. RealPath(p) \in DOMAIN Disk /\ f.class \in ClassNames \cup {Null}
    BY TextAssumption DEF Exists
  <1>3. c \in SUBSET ClassNames /\ i \in SUBSET DOMAIN Disk /\ r \in SUBSET DOMAIN Disk
        /\ m \in {"on", "fatal", "crashed"}
    BY <1>0, <1>2 DEF WorkerType
  <1>4. Stacked(s) /\ (s /= <<>> => s[1] \in Quiet) /\ (loader[w].on \/ s \in Seq(FileFrame))
    <2>1. CASE Clashes(w, p)
      BY <2>1
    <2>2. CASE ~Clashes(w, p)
      <3>1. g \in FileFrame /\ g \in Quiet /\ g \in Sound
        BY LoadedType DEF Quiet
      <3> HIDE DEF g
      <3>2. s = <<g>> \o below
        BY <2>2
      <3>3. Stacked(s) /\ s[1] = g
        BY <3>1, <3>2, StackPushed
      <3>4. loader[w].on \/ s \in Seq(FileFrame)
        BY <3>1, <3>2, Pushed
      <3> QED BY <3>1, <3>3, <3>4
    <2> QED BY <2>1, <2>2
  <1> HIDE DEF s, c, m, i, r
  <1>5. /\ stack'[w] = s /\ classes'[w] = c /\ mode'[w] = m /\ included'[w] = i /\ ran'[w] = r
    BY <1>0, <1>1, UpdatesExcept DEF Domains
  <1>6. Only(w)
    BY <1>0, <1>1, UpdatesExcept, UpdatesSame DEF Domains, Only
  <1>7. WorkerType(w)'
    BY <1>0, <1>3, <1>5 DEF WorkerType
  <1>8. WorkerStack(w)'
    BY <1>0, <1>4, <1>5 DEF WorkerStack, Quiet
  <1> QED BY <1>4, <1>5, <1>6, <1>7, <1>8 DEF s, i, r, Executes, Safe

LEMMA AskedFrame ==
  ASSUME NEW w, NEW c \in Classes, NEW engine \in BOOLEAN
  PROVE  /\ Asked(w, c, engine) \in Sound
         /\ Asked(w, c, engine).pc \in {"begin", "compile"} /\ Asked(w, c, engine).turns = 0
         /\ Asked(w, c, engine).again = FALSE /\ Asked(w, c, engine).op /= "file"
         /\ Asked(w, c, engine).backup = FALSE
         /\ Asked(w, c, engine).pc = "compile" => IsMvc(Asked(w, c, engine).class)
  <1>1. c \in ClassNames
    BY ClassTypes
  <1>2. Asked(w, c, engine) \in Sound
    BY <1>1, AskedType
  <1>3. Asked(w, c, engine).turns = 0
    BY <1>1, AskedType, ZenonT(40)
  <1>4. Asked(w, c, engine).backup = FALSE
    BY <1>1, AskedType, ZenonT(40)
  <1>5. Asked(w, c, engine).op = "autoload"
    BY <1>1, AskedType, ZenonT(40)
  <1>6. Asked(w, c, engine).pc \in {"begin", "compile"} /\ Asked(w, c, engine).again = FALSE
    BY <1>1, AskedType, ZenonT(40)
  <1>7. Asked(w, c, engine).class = c
    BY <1>1, AskedType, ZenonT(40)
  <1>8. Asked(w, c, engine).pc = "compile" => IsMvc(c)
    BY <1>1, AskedType
  <1>9. Asked(w, c, engine).pc = "compile" => IsMvc(Asked(w, c, engine).class)
    BY <1>7, <1>8 DEF IsMvc
  <1> QED BY <1>2, <1>3, <1>4, <1>5, <1>6, <1>9

LEMMA CallSteps ==
  ASSUME WorkerInv, NEW w \in Workers,
         \/ \E c \in Classes : IsLocalName(w, c)
         \/ \E c \in Classes, engine \in BOOLEAN : Autoload(w, c, engine)
  PROVE  /\ Safe(w) /\ ns' = ns /\ cut' = cut /\ included' = included /\ ran' = ran
         /\ \E f \in Sound : /\ f.pc \in {"begin", "compile"} /\ f.turns = 0 /\ f.again = FALSE
                             /\ f.pc = "compile" => IsMvc(f.class)
                             /\ f.op /= "file" /\ f.backup = FALSE
                             /\ stack'[w] = <<f>> \o stack[w] /\ stack'[w][1] = f
  <1>0. Stacked(stack[w])
    BY DEF WorkerInv, WorkerStack
  <1>1. ASSUME NEW f \in Sound, f.pc \in {"begin", "compile"}, f.turns = 0, f.again = FALSE,
               f.pc = "compile" => IsMvc(f.class), f.op /= "file", f.backup = FALSE,
               Php(w), loader[w].on, Push(w, f),
               UNCHANGED <<loader, ns, cut, classes, included, exc, mode, ran>>
        PROVE  /\ Safe(w) /\ ns' = ns /\ cut' = cut /\ included' = included /\ ran' = ran
               /\ stack'[w] = <<f>> \o stack[w] /\ stack'[w][1] = f
    <2>1. stack[w] /= <<>> => stack[w][1] \in Quiet
      BY <1>0, <1>1, PhpQuiet DEF Php
    <2>2. C(w)
      BY <1>1 DEF Php
    <2> QED BY <1>1, <2>1, <2>2, Pushes DEF Safe
  <1>2. ASSUME NEW c \in Classes, IsLocalName(w, c)
        PROVE  /\ Safe(w) /\ ns' = ns /\ cut' = cut /\ included' = included /\ ran' = ran
               /\ \E f \in Sound : /\ f.pc \in {"begin", "compile"} /\ f.turns = 0 /\ f.again = FALSE
                                   /\ f.pc = "compile" => IsMvc(f.class)
                                   /\ f.op /= "file" /\ f.backup = FALSE
                                   /\ stack'[w] = <<f>> \o stack[w] /\ stack'[w][1] = f
    <2> DEFINE f == Call("isLocalName", c, FALSE, "begin")
    <2>1. f \in Sound /\ f.pc = "begin" /\ f.turns = 0 /\ f.again = FALSE /\ f.op /= "file" /\ f.backup = FALSE
      BY ClassTypes, LoaderAssumption DEF Call, Frame, Sound
    <2>2. /\ Push(w, f) /\ Php(w) /\ loader[w].on
          /\ UNCHANGED <<loader, ns, cut, classes, included, exc, mode, ran>>
      BY <1>2 DEF IsLocalName
    <2> HIDE DEF f
    <2> QED BY <1>1, <2>1, <2>2
  <1>3. ASSUME NEW c \in Classes, NEW engine \in BOOLEAN, Autoload(w, c, engine)
        PROVE  /\ Safe(w) /\ ns' = ns /\ cut' = cut /\ included' = included /\ ran' = ran
               /\ \E f \in Sound : /\ f.pc \in {"begin", "compile"} /\ f.turns = 0 /\ f.again = FALSE
                                   /\ f.pc = "compile" => IsMvc(f.class)
                                   /\ f.op /= "file" /\ f.backup = FALSE
                                   /\ stack'[w] = <<f>> \o stack[w] /\ stack'[w][1] = f
    <2> DEFINE f == Asked(w, c, engine)
    <2>1. f \in Sound /\ f.pc \in {"begin", "compile"} /\ f.turns = 0 /\ f.again = FALSE /\ f.op /= "file"
          /\ f.backup = FALSE /\ (f.pc = "compile" => IsMvc(f.class))
      BY ClassTypes, AskedFrame
    <2>2. /\ Push(w, f) /\ Php(w) /\ loader[w].on
          /\ UNCHANGED <<loader, ns, cut, classes, included, exc, mode, ran>>
      BY <1>3 DEF Autoload
    <2> HIDE DEF f
    <2> QED BY <1>1, <2>1, <2>2
  <1> QED BY <1>2, <1>3

LEMMA ReturnSteps ==
  ASSUME WorkerInv, NEW w \in Workers, IsLocalNameReturns(w) \/ AutoloadReturns(w) \/ Unwind(w)
  PROVE  /\ Safe(w) /\ stack'[w] = Tail(stack[w]) /\ stack[w] /= <<>>
         /\ ns' = ns /\ cut' = cut /\ included' = included /\ ran' = ran
         /\ stack'[w] /= <<>> => stack'[w][1] \in Quiet
  <1>1. /\ stack[w] /= <<>> /\ Pop(w)
        /\ UNCHANGED <<loader, ns, cut, classes, included, exc, mode, ran>>
    BY DEF IsLocalNameReturns, AutoloadReturns, Unwind, In
  <1> QED BY <1>1, Pops DEF Safe

LEMMA ComposeStep ==
  ASSUME WorkerInv, NEW w \in Workers, Compose(w)
  PROVE  Moves(w, Composed(w, Top(w)))
  <1>1. In(w, "autoload", "found") /\ C(w) /\ UNCHANGED <<loader, ns, cut, classes, included, exc, mode, ran>>
    BY DEF Compose
  <1>2. stack[w] /= <<>> /\ Top(w) \in Sound /\ Top(w).op = "autoload" /\ loader[w].on
    BY <1>1, Inside DEF In
  <1>3. Change(w, Composed(w, Top(w)))
    BY DEF Compose, Composed
  <1>4. Composed(w, Top(w)) \in Sound /\ Composed(w, Top(w)).pc = "compile"
    BY <1>2, ComposedType DEF WorkerInv
  <1> QED BY <1>1, <1>2, <1>3, <1>4, Changes DEF Moves

Done(f) == [f EXCEPT !.pc = "done"]

LEMMA DoneType ==
  ASSUME NEW f \in Sound, f.op = "autoload"
  PROVE  Done(f) \in Sound /\ Done(f) \in Quiet /\ Done(f).via = f.via /\ Done(f).again = f.again
  <1> DEFINE g == Done(f)
  <1>1. g \in Frame /\ g.op = f.op /\ g.class = f.class /\ g.pc = "done" /\ g.via = f.via /\ g.again = f.again
    BY DEF Frame, Sound, Done
  <1> HIDE DEF g
  <1>2. g \in Sound
    BY <1>1 DEF Sound
  <1> QED BY <1>1, <1>2 DEF g, Quiet

LEMMA Resumed ==
  ASSUME NEW w, Stacked(stack[w]), stack[w] /= <<>>, NEW g \in Quiet
  PROVE  /\ Stacked(<<g>> \o Tail(stack[w])) /\ (<<g>> \o Tail(stack[w])) /= <<>>
         /\ (<<g>> \o Tail(stack[w]))[1] = g
  <1> DEFINE s == <<g>> \o Tail(stack[w])
  <1>1. g \in Sound
    BY DEF Quiet
  <1>2. Stacked(s) /\ s /= <<>> /\ s[1] = g
    BY <1>1, StackChanged
  <1> QED BY <1>2

LEMMA CompileStep ==
  ASSUME WorkerInv, NEW w \in Workers, Compile(w)
  PROVE  /\ stack[w] /= <<>> /\ Top(w) \in Sound /\ Top(w).op = "autoload" /\ ns' = ns /\ cut' = cut
         /\ \/ Executes(w, Top(w).path, "autoload", <<Done(Top(w))>> \o Tail(stack[w]))
            \/ /\ Safe(w) /\ stack'[w] = Tail(stack[w]) /\ included' = included /\ ran' = ran
               /\ stack'[w] /= <<>> => stack'[w][1] \in Quiet
  <1> DEFINE f == Top(w)
             p == f.path
             below == <<Done(f)>> \o Tail(stack[w])
  <1>1. In(w, "autoload", "compile") /\ C(w) /\ UNCHANGED <<loader, ns, cut, exc>>
    BY DEF Compile
  <1>2. /\ stack[w] /= <<>> /\ f \in Sound /\ f.op = "autoload" /\ loader[w].on /\ f.pc = "compile"
    BY <1>1, Inside DEF In
  <1>3. p \in Path
    BY <1>2, SoundFields
  <1>4. CASE Exists(p)
    <2>1. Execute(w, p, "autoload", below)
      BY <1>4 DEF Compile, Done
    <2>2. Done(f) \in Sound /\ Done(f) \in Quiet
      BY <1>2, DoneType
    <2> DEFINE via == "autoload"
    <2>3. Stacked(below) /\ below /= <<>> /\ below[1] \in Quiet
      <3>1. Stacked(stack[w])
        BY DEF WorkerInv, WorkerStack
      <3> QED BY <1>2, <2>2, <3>1, Resumed
    <2>4. via \in {"import", "autoload"} /\ Execute(w, p, via, below)
      BY <2>1
    <2> HIDE DEF p, below, via
    <2>5. Executes(w, p, via, below)
      BY <1>1, <1>2, <1>3, <1>4, <2>3, <2>4, ExecuteStep
    <2> QED BY <1>1, <1>2, <2>5 DEF p, below, via
  <1>5. CASE ~Exists(p)
    <2>1. Pop(w) /\ UNCHANGED <<classes, mode, included, ran>>
      BY <1>5 DEF Compile
    <2>2. Safe(w) /\ stack'[w] = Tail(stack[w]) /\ (stack'[w] /= <<>> => stack'[w][1] \in Quiet)
      BY <1>1, <1>2, <2>1, Pops DEF Safe
    <2> QED BY <1>1, <1>2, <2>1, <2>2
  <1> QED BY <1>4, <1>5

Imported(w, d, name) == [dir |-> IF d = Null THEN loader[w].library ELSE d, name |-> name]

LEMMA ImportStep ==
  ASSUME WorkerInv, NEW w \in Workers, NEW d \in Dirs \cup {Null}, NEW q \in DOMAIN Disk,
         Import(w, d, q.name)
  PROVE  /\ Executes(w, Imported(w, d, q.name), "import", stack[w]) /\ ns' = ns /\ cut' = cut
         /\ Imported(w, d, q.name) \notin included[w]
         /\ stack[w] /= <<>> => stack[w][1] \in Quiet
  <1> DEFINE p == Imported(w, d, q.name)
             dir == IF d = Null THEN loader[w].library ELSE d
  <1>1. /\ Php(w) /\ p \notin included[w] /\ Exists(p) /\ Execute(w, p, "import", stack[w])
        /\ UNCHANGED <<loader, ns, cut, exc>> /\ (d = Null => loader[w].on)
    BY DEF Import, Imported
  <1>2. WorkerType(w) /\ WorkerStack(w) /\ Stacked(stack[w])
    BY DEF WorkerInv, WorkerStack
  <1>3. q.name \in Text
    BY TextAssumption DEF Path
  <1>4. dir \in Dirs
    BY <1>1, <1>2 DEF WorkerType, LoaderType
  <1>5. p \in Path
    BY <1>3, <1>4 DEF Path, Imported
  <1>6. stack[w] /= <<>> => stack[w][1] \in Quiet
    BY <1>1, <1>2, PhpQuiet DEF Php
  <1>7. loader[w].on \/ stack[w] \in Seq(FileFrame)
    BY <1>2 DEF WorkerStack
  <1> DEFINE via == "import"
             below == stack[w]
  <1>8. /\ via \in {"import", "autoload"} /\ Execute(w, p, via, below) /\ Stacked(below)
        /\ below /= <<>> => below[1] \in Quiet
    BY <1>1, <1>2, <1>6
  <1>9. loader[w].on \/ below \in Seq(FileFrame)
    BY <1>7
  <1> HIDE DEF p, via, below
  <1>a. UNCHANGED <<loader, ns, exc>> /\ Exists(p)
    BY <1>1
  <1>10. Executes(w, p, via, below)
    BY <1>a, <1>5, <1>8, <1>9, ExecuteStep
  <1> QED BY <1>1, <1>6, <1>10 DEF p, via, below

Extends(f) == [f EXCEPT !.pc = "extends"]

LEMMA ExtendsType ==
  ASSUME NEW f \in Sound, f.op = "file"
  PROVE  Extends(f) \in Sound /\ Extends(f) \in Quiet /\ Extends(f).via = f.via /\ Extends(f).again = f.again
  <1> DEFINE g == Extends(f)
  <1>1. g \in Frame /\ g.op = f.op /\ g.class = f.class /\ g.pc = "extends" /\ g.via = f.via
        /\ g.again = f.again /\ g.path = f.path /\ g.late = f.late
    BY DEF Frame, Sound, Extends
  <1> HIDE DEF g
  <1>2. g \in Sound
    BY <1>1 DEF Sound
  <1> QED BY <1>1, <1>2 DEF g, Quiet

\* The file asks for the parent of its class, and waits for it.
Waits(w, f, parent) ==
  /\ Safe(w) /\ parent \in ClassNames
  /\ stack'[w] = <<Asked(w, parent, TRUE)>> \o (<<Extends(f)>> \o Tail(stack[w]))
  /\ stack'[w] /= <<>> /\ stack'[w][1] = Asked(w, parent, TRUE)

LEMMA WaitStep ==
  ASSUME WorkerInv, NEW w \in Workers, C(w), stack[w] /= <<>>, NEW f \in Sound, f.op = "file",
         NEW parent \in ClassNames, loader[w].on,
         stack' = [stack EXCEPT ![w] = <<Asked(w, parent, TRUE)>> \o <<Extends(f)>> \o Tail(stack[w])],
         UNCHANGED <<loader, ns, classes, included, exc, mode, ran>>
  PROVE  Waits(w, f, parent)
  <1> DEFINE g == Extends(f)
             a == Asked(w, parent, TRUE)
             t == Tail(stack[w])
             b == <<g>> \o t
             s == <<a>> \o b
  <1>1. Domains /\ WorkerType(w) /\ WorkerStack(w) /\ Stacked(stack[w])
    BY DEF WorkerInv, WorkerStack
  <1>2. g \in Sound /\ g \in Quiet
    BY ExtendsType
  <1>3. a \in Sound /\ a.pc \in {"compile", "begin"}
    BY AskedType
  <1>4. t \in Seq(Sound)
    BY <1>1, Popped DEF Stacked
  <1>5. Stacked(b) /\ b /= <<>> /\ b[1] = g
    <2> HIDE DEF g
    <2> QED BY <1>1, <1>2, Resumed
  <1> HIDE DEF a, g
  <1>6. Stacked(s) /\ s /= <<>> /\ s[1] = a
    <2>1. s = <<a>> \o b
      OBVIOUS
    <2> HIDE DEF b, s
    <2> QED BY <1>2, <1>3, <1>5, <2>1, StackPushed, ZenonT(40)
  <1>7. (<<a>> \o <<g>>) \o t = s
    <2>1. <<a>> \in Seq(Sound) /\ <<g>> \in Seq(Sound)
      BY <1>2, <1>3
    <2> HIDE DEF t
    <2> QED BY <1>4, <2>1, ConcatAssociative
  <1>8. stack' = [stack EXCEPT ![w] = s]
    BY <1>7 DEF a, g
  <1> HIDE DEF s
  <1>9. Only(w) /\ stack'[w] = s
    BY <1>1, <1>8, OnlyLoader
  <1>10. WorkerType(w)' /\ ~exc'[w] /\ loader'[w].on
    BY <1>1 DEF WorkerType, C
  <1>11. WorkerStack(w)'
    BY <1>3, <1>6, <1>9, <1>10 DEF WorkerStack
  <1> QED BY <1>6, <1>9, <1>10, <1>11 DEF s, b, g, a, t, Waits, Safe

LEMMA FileEndsStep ==
  ASSUME WorkerInv, NEW w \in Workers, FileEnds(w)
  PROVE  /\ stack[w] /= <<>> /\ Top(w) \in FileFrame /\ ns' = ns /\ cut' = cut
         /\ included' = included /\ ran' = ran
         /\ \/ Waits(w, Top(w), Disk[RealPath(Top(w).path)].parent)
            \/ /\ Safe(w) /\ stack'[w] = Tail(stack[w])
               /\ stack'[w] /= <<>> => stack'[w][1] \in Quiet
  <1> DEFINE f == Top(w)
             parent == Disk[RealPath(f.path)].parent
             asks == f.pc = "runs" /\ parent \notin classes[w] /\ Guarded(w, parent)
                     /\ loader[w].on /\ (IsMvc(parent) => loader[w].app)
  <1>0. Domains /\ WorkerType(w) /\ WorkerStack(w) /\ Stacked(stack[w])
    BY DEF WorkerInv, WorkerStack
  <1>1. /\ C(w) /\ (In(w, "file", "runs") \/ In(w, "file", "extends"))
        /\ UNCHANGED <<loader, ns, cut, included, ran>>
    BY DEF FileEnds
  <1>2. stack[w] /= <<>> /\ f \in Sound /\ f.op = "file"
    BY <1>0, <1>1, TopType DEF In
  <1>3. f \in FileFrame
    BY <1>2 DEF FileFrame
  <1>4. CASE ~f.late
    <2>1. Pop(w) /\ UNCHANGED <<classes, mode, exc>>
      BY <1>4 DEF FileEnds
    <2>2. Safe(w) /\ stack'[w] = Tail(stack[w]) /\ (stack'[w] /= <<>> => stack'[w][1] \in Quiet)
      BY <1>1, <1>2, <2>1, Pops DEF Safe
    <2> QED BY <1>1, <1>2, <1>3, <2>2
  <1>5. CASE f.late
    <2>1. parent \in ClassNames /\ f.class \in ClassNames
      BY <1>2, <1>5 DEF Sound
    <2>2. CASE asks
      <3>1. /\ UNCHANGED <<classes, mode, exc>>
            /\ stack' = [stack EXCEPT ![w] =
                           <<Asked(w, parent, TRUE)>> \o <<Extends(f)>> \o Tail(stack[w])]
        BY <1>5, <2>2 DEF FileEnds, Extends
      <3> HIDE DEF parent
      <3>2. Waits(w, f, parent)
        BY <1>1, <1>2, <2>1, <2>2, <3>1, WaitStep
      <3> QED BY <1>1, <1>2, <1>3, <3>2 DEF parent
    <2>3. CASE ~asks
      <3> DEFINE e == parent \notin classes[w]
                 m == IF parent \in classes[w] /\ f.class \in classes[w] THEN "fatal" ELSE mode[w]
                 c == IF parent \in classes[w] THEN classes[w] \cup {f.class} ELSE classes[w]
                 s == Tail(stack[w])
      <3>1. /\ stack' = [stack EXCEPT ![w] = s] /\ exc' = [exc EXCEPT ![w] = e]
            /\ mode' = [mode EXCEPT ![w] = m] /\ classes' = [classes EXCEPT ![w] = c]
        BY <1>5, <2>3 DEF FileEnds, Pop
      <3>2. e \in BOOLEAN /\ m \in {"on", "fatal", "crashed"} /\ c \in SUBSET ClassNames
        BY <1>0, <2>1 DEF WorkerType
      <3> HIDE DEF e, m, c, s, parent, f
      <3>3. stack'[w] = s /\ exc'[w] = e /\ mode'[w] = m /\ classes'[w] = c /\ Only(w)
        BY <1>0, <1>1, <3>1, UpdatesExcept, UpdatesSame DEF Domains, Only
      <3>4. WorkerType(w)'
        BY <1>0, <1>1, <3>2, <3>3 DEF WorkerType
      <3>5. stack'[w] = Tail(stack[w])
        BY <3>3 DEF s
      <3>6. WorkerStack(w)' /\ (stack'[w] /= <<>> => stack'[w][1] \in Quiet)
        BY <1>0, <1>1, <1>2, <3>5, Returned
      <3> QED BY <1>1, <1>2, <1>3, <3>3, <3>4, <3>5, <3>6 DEF Safe, f
    <2> QED BY <2>2, <2>3
  <1> QED BY <1>2, <1>4, <1>5 DEF Sound, Frame

LEMMA NoLoaderType ==
  NoLoader \in LoaderType /\ NoLoader.on = FALSE /\ NoLoader.library = Null
  BY DEF LoaderType, NoLoader

LEMMA NothingLoaded ==
  ASSUME NEW w, loader[w] = NoLoader, ns[w] = Null, classes[w] = {}, included[w] = {},
         stack[w] = <<>>, exc[w] = FALSE, mode[w] = "on", ran[w] = {}
  PROVE  WorkerType(w) /\ WorkerStack(w)
  <1>1. WorkerType(w)
    BY NoLoaderType DEF WorkerType
  <1>2. WorkerStack(w)
    BY DEF WorkerStack, Stacked
  <1> QED BY <1>1, <1>2

LEMMA FreshStep ==
  ASSUME WorkerInv, NEW w \in Workers, Fresh(w)
  PROVE  Safe(w) /\ stack'[w] = <<>> /\ included'[w] = {} /\ ran'[w] = {} /\ ns'[w] = Null
  <1>1. Domains
    BY DEF WorkerInv
  <1>2. /\ loader'[w] = NoLoader /\ ns'[w] = Null /\ classes'[w] = {} /\ included'[w] = {}
        /\ stack'[w] = <<>> /\ exc'[w] = FALSE /\ mode'[w] = "on" /\ ran'[w] = {} /\ Only(w)
    BY <1>1, UpdatesExcept DEF Fresh, Domains, Only
  <1>3. WorkerType(w)' /\ WorkerStack(w)'
    <2>1. WorkerType(w)'
      BY <1>2, NoLoaderType DEF WorkerType
    <2>2. WorkerStack(w)'
      BY <1>2 DEF WorkerStack, Stacked
    <2> QED BY <2>1, <2>2
  <1> QED BY <1>2, <1>3 DEF Safe

LEMMA InitWorkers ==
  ASSUME Init
  PROVE  WorkerInv
  <1>1. Domains
    BY DEF Init, Domains
  <1>2. ASSUME NEW w \in Workers
        PROVE  WorkerType(w) /\ WorkerStack(w)
    BY NothingLoaded DEF Init
  <1> QED BY <1>1, <1>2 DEF WorkerInv

\* The steps of a worker, by what they do to its calls.
Acts(w) ==
  \/ \E l, g \in Dirs \cup {Null} : GetInstance(w, l, g)
  \/ \E t \in Words : RegisterLocalNamespace(w, t)
  \/ \E t \in Words \cup {Null} : NewApplication(w, t)
  \/ ClearLocalNamespace(w)
  \/ \E d \in Dirs, global \in BOOLEAN : SetLibraryPath(w, d, global)
  \/ Throw(w) \/ Catch(w)
Calls(w) ==
  \/ \E c \in Classes : IsLocalName(w, c)
  \/ \E c \in Classes, engine \in BOOLEAN : Autoload(w, c, engine)
Imports(w) == \E d \in Dirs \cup {Null}, q \in DOMAIN Disk : Import(w, d, q.name)
Returns(w) == IsLocalNameReturns(w) \/ AutoloadReturns(w) \/ Unwind(w)

LEMMA NextSteps ==
  ASSUME Next
  PROVE  \E w \in Workers :
           \/ Acts(w) \/ Calls(w) \/ Imports(w) \/ FileEnds(w)
           \/ Begin(w) \/ Search(w) \/ Compose(w) \/ Compile(w) \/ Returns(w) \/ Fresh(w)
  <1>1. PICK w \in Workers : PhpStep(w) \/ LoaderStep(w) \/ EndRequest(w) \/ Killed(w)
    BY DEF Next
  <1>2. CASE PhpStep(w)
    BY <1>2 DEF PhpStep, Acts, Calls, Imports
  <1>3. CASE LoaderStep(w)
    BY <1>3 DEF LoaderStep, Returns
  <1>4. CASE EndRequest(w) \/ Killed(w)
    BY <1>4 DEF EndRequest, Killed
  <1> QED BY <1>1, <1>2, <1>3, <1>4

LEMMA WorkersKept ==
  ASSUME WorkerInv, [Next]_vars
  PROVE  WorkerInv'
  <1>1. CASE Next
    <2>1. PICK w \in Workers :
            \/ Acts(w) \/ Calls(w) \/ Imports(w) \/ FileEnds(w)
            \/ Begin(w) \/ Search(w) \/ Compose(w) \/ Compile(w) \/ Returns(w) \/ Fresh(w)
      BY <1>1, NextSteps
    <2> SUFFICES Safe(w)
      BY WorkerStep DEF Safe
    <2>2. CASE Acts(w)
      BY <2>2, PhpTypes DEF Acts, Safe
    <2>3. CASE Calls(w)
      BY <2>3, CallSteps DEF Calls
    <2>4. CASE Imports(w)
      BY <2>4, ImportStep DEF Imports, Executes
    <2>5. CASE FileEnds(w)
      BY <2>5, FileEndsStep DEF Waits
    <2>6. CASE Begin(w)
      BY <2>6, BeginStep DEF Moves, Safe
    <2>7. CASE Search(w)
      BY <2>7, SearchStep DEF Moves, Safe, Crashes, TurnsOn, Answers
    <2>8. CASE Compose(w)
      BY <2>8, ComposeStep DEF Moves, Safe
    <2>9. CASE Compile(w)
      BY <2>9, CompileStep DEF Executes
    <2>10. CASE Returns(w)
      BY <2>10, ReturnSteps DEF Returns
    <2>11. CASE Fresh(w)
      BY <2>11, FreshStep
    <2> QED BY <2>1, <2>2, <2>3, <2>4, <2>5, <2>6, <2>7, <2>8, <2>9, <2>10, <2>11
  <1>2. CASE UNCHANGED vars
    BY <1>2 DEF vars, WorkerInv, Domains, WorkerType, WorkerStack
  <1> QED BY <1>1, <1>2

\* The type invariant of YafLoader: whatever files load, import and throw, a
\* worker's calls are calls, every path that runs is a file of the disk, the
\* search never leaves the namespaces, and a loader has both its directories.
THEOREM LoaderTypes == Spec => []TypeOK
  <1>1. Init => WorkerInv
    BY InitWorkers
  <1>2. WorkerInv /\ [Next]_vars => WorkerInv'
    BY WorkersKept
  <1>3. WorkerInv => TypeOK
    <2> SUFFICES ASSUME WorkerInv PROVE TypeOK
      OBVIOUS
    <2>1. ASSUME NEW w \in Workers
          PROVE  /\ loader[w] \in LoaderType
                 /\ loader[w].on <=> loader[w].library /= Null /\ loader[w].global /= Null
                 /\ ns[w] \in Text \cup {Null} /\ classes[w] \in SUBSET ClassNames
                 /\ included[w] \in SUBSET DOMAIN Disk /\ ran[w] \in SUBSET DOMAIN Disk
                 /\ exc[w] \in BOOLEAN /\ mode[w] \in {"on", "fatal", "crashed"}
      BY DEF WorkerInv, WorkerType
    <2>2. ASSUME NEW w \in Workers
          PROVE  stack[w] \in Seq(Frame)
      <3>1. stack[w] \in Seq(Sound) /\ Sound \subseteq Frame
        BY DEF WorkerInv, WorkerStack, Stacked, Sound
      <3> QED BY <3>1, WiderSeq
    <2>3. Domains
      BY DEF WorkerInv
    <2>4. loader \in [Workers -> LoaderType]
      BY <2>1, <2>3 DEF Domains
    <2>5. ns \in [Workers -> Text \cup {Null}] /\ classes \in [Workers -> SUBSET ClassNames]
      BY <2>1, <2>3 DEF Domains
    <2>6. included \in [Workers -> SUBSET DOMAIN Disk] /\ ran \in [Workers -> SUBSET DOMAIN Disk]
      BY <2>1, <2>3 DEF Domains
    <2>7. exc \in [Workers -> BOOLEAN] /\ mode \in [Workers -> {"on", "fatal", "crashed"}]
      BY <2>1, <2>3 DEF Domains
    <2>8. stack \in [Workers -> Seq(Frame)]
      BY <2>2, <2>3 DEF Domains
    <2> QED BY <2>1, <2>4, <2>5, <2>6, <2>7, <2>8 DEF TypeOK, LoaderType
  <1> QED BY <1>1, <1>2, <1>3, PTL DEF Spec

\* The stronger invariant behind it, for the proofs below.
LEMMA WorkersAlways == Spec => []WorkerInv
  <1>1. Init => WorkerInv
    BY InitWorkers
  <1>2. WorkerInv /\ [Next]_vars => WorkerInv'
    BY WorkersKept
  <1> QED BY <1>1, <1>2, PTL DEF Spec

-----------------------------------------------------------------------------
(* The search ends *)

\* No class name begins with a separator: its first part is not empty.
Headed == \A c \in ClassNames : c[1] \notin Separator

\* Each turn moved the search on by at least one token.
TurnInv(w) ==
  /\ stack[w] /= <<>> /\ stack[w][1].pc = "begin" => stack[w][1].turns = 0
  /\ stack[w] /= <<>> /\ stack[w][1].pc = "search" =>
       /\ stack[w][1].turns + 1 <= stack[w][1].at /\ stack[w][1].at <= Len(ns[w]) + 1
       /\ stack[w][1].len >= 1

LEMMA HeadedName ==
  ASSUME Headed, NEW f \in Sound, f.op /= "file"
  PROVE  CutAt(f) /= 1
  <1> DEFINE a == First(Name(f), {Underscore})
             b == First(Name(f), {Backslash})
  <1>1. Name(f) \in Text /\ Len(Name(f)) \in Nat /\ Len(Name(f)) >= 1
    BY NameTypes
  <1>2. f.class \in ClassNames /\ f.class \in Text
    BY SoundFields
  <1>3. Name(f)[1] \notin Separator
    <2>1. f.class[1] \notin Separator
      BY <1>2 DEF Headed
    <2>2. CASE Name(f) = f.class
      BY <2>1, <2>2
    <2>3. CASE Name(f) = Underscored(f.class)
      <3>1. Len(Underscored(f.class)) = Len(f.class)
        BY <1>2, UnderscoredText
      <3>2. 1 \in 1 .. Len(f.class)
        BY <1>1, <2>3, <3>1
      <3>3. Underscored(f.class)[1] = IF f.class[1] = Backslash THEN Underscore ELSE f.class[1]
        BY <1>2, <3>2, UnderscoredText
      <3>4. f.class[1] /= Backslash
        BY <2>1 DEF Separator
      <3> QED BY <2>1, <2>3, <3>3, <3>4
    <2> QED BY <2>2, <2>3 DEF Name
  <1>4. a \in Nat /\ b \in Nat
    BY <1>1, FirstType
  <1> DEFINE Positive(n) == n > 0
  <1>5. Positive(a) => Name(f)[a] \in {Underscore}
    BY <1>1, FirstHit
  <1>6. Positive(b) => Name(f)[b] \in {Backslash}
    BY <1>1, FirstHit
  <1>7. CutAt(f) = IF a > 0 THEN a ELSE b
    BY DEF CutAt
  <1>p. Positive(1)
    OBVIOUS
  <1> HIDE DEF Positive
  <1> HIDE DEF a, b
  <1>8. a /= 1 /\ b /= 1
    <2>1. ASSUME a = 1 PROVE FALSE
      <3>1. Name(f)[1] \in {Underscore}
        BY <1>5, <1>p, <2>1
      <3>2. Name(f)[1] = Underscore
        BY <3>1
      <3> QED BY <1>3, <3>2 DEF Separator
    <2>2. ASSUME b = 1 PROVE FALSE
      <3>1. Name(f)[1] \in {Backslash}
        BY <1>6, <1>p, <2>2
      <3>2. Name(f)[1] = Backslash
        BY <3>1
      <3> QED BY <1>3, <3>2 DEF Separator
    <2> QED BY <2>1, <2>2
  <1> QED BY <1>4, <1>7, <1>8

LEMMA BegunLength ==
  ASSUME Headed, NEW w, NEW f \in Sound, f.op /= "file"
  PROVE  Begun(w, f).len >= 1
  <1> DEFINE i == First(Visible(w, f), Separator)
  <1>1. Begun(w, f).len = IF i > 0 THEN CutAt(f) - 1 ELSE Len(Name(f))
    BY BegunType
  <1>2. Len(Name(f)) \in Nat /\ Len(Name(f)) >= 1 /\ CutAt(f) /= 1
    BY HeadedName, NameTypes
  <1>3. i > 0 => CutAt(f) \in 1 .. Len(Name(f))
    BY CutFound
  <1> HIDE DEF i
  <1> QED BY <1>1, <1>2, <1>3

TurnsInv == \A w \in Workers : TurnInv(w)

LEMMA Others ==
  ASSUME Domains, NEW w \in Workers, Only(w), NEW v \in Workers, v /= w
  PROVE  /\ loader'[v] = loader[v] /\ ns'[v] = ns[v] /\ classes'[v] = classes[v]
         /\ included'[v] = included[v] /\ stack'[v] = stack[v] /\ exc'[v] = exc[v]
         /\ mode'[v] = mode[v] /\ ran'[v] = ran[v]
  BY UpdatesOthers, SMTT(30) DEF Domains, Only

\* The steps of PHP code that are no calls.
LEMMA ActsQuiet ==
  ASSUME WorkerInv, NEW w \in Workers, Acts(w)
  PROVE  stack' = stack /\ (stack[w] /= <<>> => stack[w][1] \in Quiet) /\ Safe(w)
  <1>1. stack' = stack /\ Safe(w)
    BY PhpTypes DEF Acts, Safe
  <1>2. stack[w] = <<>> \/ In(w, "file", "runs")
    BY DEF Acts, GetInstance, RegisterLocalNamespace, NewApplication, ClearLocalNamespace,
           SetLibraryPath, Throw, Catch, Php
  <1>3. Stacked(stack[w])
    BY DEF WorkerInv, WorkerStack
  <1> QED BY <1>1, <1>2, <1>3, PhpQuiet

LEMMA QuietTurn ==
  ASSUME NEW w, stack'[w] /= <<>> => stack'[w][1] \in Quiet
  PROVE  TurnInv(w)'
  <1>1. stack'[w] /= <<>> => stack'[w][1].pc \in {"runs", "extends", "done"}
    BY DEF Quiet
  <1> QED BY <1>1 DEF TurnInv

LEMMA CalledTurn ==
  ASSUME NEW w, NEW f, stack'[w][1] = f, f.pc /= "search", f.pc = "begin" => f.turns = 0
  PROVE  TurnInv(w)'
  BY DEF TurnInv

LEMMA BeginTurn ==
  ASSUME Headed, WorkerInv, NEW w \in Workers, TurnInv(w), Begin(w)
  PROVE  TurnInv(w)'
  <1> DEFINE f == Top(w)
             g == IF ns[w] = Null THEN Unsearched(f) ELSE Begun(w, f)
  <1>0. In(w, "autoload", "begin") \/ In(w, "isLocalName", "begin")
    BY DEF Begin
  <1>1. f \in Sound /\ f.op /= "file" /\ f.pc = "begin" /\ f = stack[w][1] /\ stack[w] /= <<>>
    BY <1>0, Inside
  <1>2. stack'[w][1] = g /\ stack'[w] /= <<>> /\ ns' = ns
    BY BeginStep DEF Moves, Begin
  <1>3. f.turns = 0
    BY <1>1 DEF TurnInv
  <1>4. CASE ns[w] = Null
    <2>1. g.pc = "found"
      BY <1>1, <1>4, UnsearchedType
    <2> HIDE DEF g
    <2> QED BY <1>2, <2>1 DEF TurnInv
  <1>5. CASE ns[w] /= Null
    <2>1. g.pc = "search" /\ g.at = 1 /\ g.turns = f.turns
      BY <1>1, <1>5, BegunType
    <2>2. g.len >= 1
      BY <1>1, <1>5, BegunLength
    <2>3. Len(ns[w]) \in Nat
      BY <1>5, LenProperties DEF WorkerInv, WorkerType, Text
    <2> HIDE DEF g, f
    <2> QED BY <1>2, <1>3, <2>1, <2>2, <2>3 DEF TurnInv
  <1> QED BY <1>4, <1>5

LEMMA SearchTurn ==
  ASSUME WorkerInv, NEW w \in Workers, TurnInv(w), Search(w)
  PROVE  TurnInv(w)'
  <1> DEFINE f == Top(w)
  <1>0. In(w, "autoload", "search") \/ In(w, "isLocalName", "search")
    BY DEF Search
  <1>1. /\ f \in Sound /\ f.op /= "file" /\ f.pc = "search" /\ f = stack[w][1] /\ stack[w] /= <<>>
        /\ ns[w] \in Text /\ Visible(w, f) \in Text
    BY <1>0, Inside
  <1>2. CASE Crashes(w)
    BY <1>2 DEF Crashes, TurnInv
  <1>3. CASE TurnsOn(w)
    <2> DEFINE i == Taken(w)
               g == Turned(f, i)
    <2>1. stack'[w][1] = g /\ ns' = ns /\ i + f.len <= Len(ns[w]) + 1 /\ Ahead(w) /= {}
      BY <1>3 DEF TurnsOn, Moves
    <2>2. i \in Nat /\ i >= 1 /\ i >= f.at
      BY <1>1, <2>1, TakenPlace
    <2>3. f.turns + 1 <= f.at /\ f.len >= 1 /\ f.turns \in Nat /\ f.len \in Nat /\ f.at \in Nat
      <3>1. f.turns \in Nat /\ f.len \in Nat /\ f.at \in 1 .. MaxText + 1
        BY <1>1, SoundFields
      <3>2. f.turns + 1 <= f.at /\ f.len >= 1
        BY <1>1 DEF TurnInv
      <3> QED BY <3>1, <3>2, LoaderAssumption
    <2>4. Len(ns[w]) \in Nat /\ Len(ns[w]) <= MaxText /\ MaxText \in Nat
      BY <1>1, LenProperties, LoaderAssumption, ClassTypes DEF WorkerInv, WorkerType, Text
    <2>5. i + f.len <= MaxText + 1
      BY <2>1, <2>2, <2>3, <2>4
    <2>6. g.pc = "search" /\ g.at = i + f.len /\ g.turns = f.turns + 1 /\ g.len = f.len
      BY <1>1, <2>2, <2>5, TurnedType
    <2> HIDE DEF i, g, f
    <2>7. g.turns + 1 <= g.at /\ g.at <= Len(ns[w]) + 1 /\ g.len >= 1
      BY <2>1, <2>2, <2>3, <2>4, <2>6
    <2> QED BY <2>1, <2>6, <2>7 DEF TurnInv
  <1>4. ASSUME NEW found \in BOOLEAN, Answers(w, found)
        PROVE  TurnInv(w)'
    <2>1. stack'[w][1] = Ends(f, found)
      BY <1>4 DEF Answers, Moves
    <2>2. Ends(f, found).pc = "found"
      BY <1>1, EndsType
    <2> QED BY <2>1, <2>2 DEF TurnInv
  <1> QED BY <1>2, <1>3, <1>4, SearchStep

LEMMA TurnsKept ==
  ASSUME Headed, WorkerInv, TurnsInv, [Next]_vars
  PROVE  TurnsInv'
  <1>1. CASE Next
    <2>1. PICK w \in Workers :
            \/ Acts(w) \/ Calls(w) \/ Imports(w) \/ FileEnds(w)
            \/ Begin(w) \/ Search(w) \/ Compose(w) \/ Compile(w) \/ Returns(w) \/ Fresh(w)
      BY <1>1, NextSteps
    <2>2. Domains /\ TurnInv(w)
      BY DEF WorkerInv, TurnsInv
    <2> SUFFICES Only(w) /\ TurnInv(w)'
      <3>1. ASSUME NEW v \in Workers, v /= w PROVE TurnInv(v)'
        <4>1. stack'[v] = stack[v] /\ ns'[v] = ns[v]
          BY <2>2, <3>1, Others
        <4> QED BY <4>1 DEF TurnsInv, TurnInv
      <3> QED BY <3>1 DEF TurnsInv
    <2>3. CASE Acts(w)
      BY <2>3, ActsQuiet, QuietTurn DEF Safe
    <2>4. CASE Calls(w)
      <3> QED BY <2>4, CallSteps, CalledTurn DEF Calls, Safe
    <2>5. CASE Imports(w)
      <3>1. Safe(w) /\ (stack'[w] /= <<>> => stack'[w][1] \in Quiet)
        BY <2>5, ImportStep DEF Imports, Executes
      <3> QED BY <3>1, QuietTurn DEF Safe
    <2>6. CASE FileEnds(w)
      <3> DEFINE parent == Disk[RealPath(Top(w).path)].parent
      <3>1. CASE Waits(w, Top(w), parent)
        <4>1. Safe(w) /\ parent \in ClassNames /\ stack'[w][1] = Asked(w, parent, TRUE)
          BY <3>1 DEF Waits
        <4> HIDE DEF parent
        <4>2. Asked(w, parent, TRUE).pc \in {"compile", "begin"} /\ Asked(w, parent, TRUE).turns = 0
          BY <4>1, AskedType
        <4> QED BY <4>1, <4>2, CalledTurn DEF Safe
      <3>2. CASE Safe(w) /\ (stack'[w] /= <<>> => stack'[w][1] \in Quiet)
        BY <3>2, QuietTurn DEF Safe
      <3> QED BY <2>6, <3>1, <3>2, FileEndsStep
    <2>7. CASE Begin(w)
      BY <2>2, <2>7, BeginStep, BeginTurn DEF Moves
    <2>8. CASE Search(w)
      <3>1. Only(w)
        BY <2>8, SearchStep DEF Crashes, TurnsOn, Answers, Moves
      <3> QED BY <2>2, <2>8, <3>1, SearchTurn
    <2>9. CASE Compose(w)
      <3>1. Only(w) /\ stack'[w][1] = Composed(w, Top(w))
        BY <2>9, ComposeStep DEF Moves
      <3>2. In(w, "autoload", "found")
        BY <2>9 DEF Compose
      <3>3. Top(w) \in Sound /\ Top(w).op = "autoload" /\ loader[w].on /\ WorkerType(w)
        BY <3>2, Inside DEF In, WorkerInv
      <3>4. Composed(w, Top(w)).pc = "compile"
        BY <3>3, ComposedType
      <3> QED BY <3>1, <3>4, CalledTurn
    <2>10. CASE Compile(w)
      <3>1. Safe(w) /\ (stack'[w] /= <<>> => stack'[w][1] \in Quiet)
        BY <2>10, CompileStep DEF Executes
      <3> QED BY <3>1, QuietTurn DEF Safe
    <2>11. CASE Returns(w)
      <3>1. Safe(w) /\ (stack'[w] /= <<>> => stack'[w][1] \in Quiet)
        BY <2>11, ReturnSteps DEF Returns
      <3> QED BY <3>1, QuietTurn DEF Safe
    <2>12. CASE Fresh(w)
      BY <2>12, FreshStep, QuietTurn DEF Safe
    <2> QED BY <2>1, <2>3, <2>4, <2>5, <2>6, <2>7, <2>8, <2>9, <2>10, <2>11, <2>12
  <1>2. CASE UNCHANGED vars
    BY <1>2 DEF vars, TurnsInv, TurnInv
  <1> QED BY <1>1, <1>2

\* When no class name begins with a separator, the search of
\* yaf_loader_is_local_namespace takes at most one turn for each token of the
\* namespaces and one more, whatever the workers do to each other's names.
THEOREM SearchEnds ==
  ASSUME Headed
  PROVE  Spec => []SearchBounded
  <1>1. Init => TurnsInv
    BY DEF Init, TurnsInv, TurnInv
  <1>2. WorkerInv /\ TurnsInv /\ [Next]_vars => TurnsInv'
    BY TurnsKept
  <1>3. WorkerInv /\ TurnsInv => SearchBounded
    <2> SUFFICES ASSUME WorkerInv, TurnsInv, NEW w \in Workers,
                        In(w, "autoload", "search") \/ In(w, "isLocalName", "search")
                 PROVE  Top(w).turns <= Len(ns[w]) + 1
      BY DEF SearchBounded
    <2> DEFINE f == Top(w)
    <2>1. f \in Sound /\ f.pc = "search" /\ f = stack[w][1] /\ stack[w] /= <<>> /\ ns[w] \in Text
      BY Inside
    <2>2. f.turns \in Nat /\ f.at \in 1 .. MaxText + 1 /\ MaxText \in Nat
      BY <2>1, SoundFields, LoaderAssumption
    <2>3. f.turns + 1 <= f.at /\ f.at <= Len(ns[w]) + 1
      BY <2>1 DEF TurnsInv, TurnInv
    <2>4. Len(ns[w]) \in Nat
      BY <2>1, LenProperties DEF Text
    <2> HIDE DEF f
    <2>5. f.turns <= Len(ns[w]) + 1
      BY <2>2, <2>3, <2>4
    <2> QED BY <2>5 DEF f
  <1> QED BY <1>1, <1>2, <1>3, WorkersAlways, PTL DEF Spec

-----------------------------------------------------------------------------
(* import() *)

\* Every directory is spelt as realpath() spells it.
Canonical == \A d \in Dirs : Real[d] = d

\* A file that import() executes was not executed before.
Once == {f \in Sound : f.via = "import" => ~f.again}

\* Nothing was executed that is not recorded.
OnceInv == \A w \in Workers : ran[w] \subseteq included[w] /\ stack[w] \in Seq(Once)

LEMMA CanonicalPath ==
  ASSUME Canonical, NEW p \in Path
  PROVE  RealPath(p) = p
  <1>1. CASE p.dir \in DOMAIN Real
    <2>1. p.dir \in Dirs
      BY <1>1, TextAssumption
    <2>2. Real[p.dir] = p.dir
      BY <2>1 DEF Canonical
    <2> QED BY <1>1, <2>2 DEF RealPath, Path
  <1>2. CASE p.dir \notin DOMAIN Real
    BY <1>2 DEF RealPath
  <1> QED BY <1>1, <1>2

\* The file above the calls that wait for it.
LEMMA OnceExecutes ==
  ASSUME NEW w, ran[w] \subseteq included[w], NEW p, NEW via, NEW below \in Seq(Once),
         Executes(w, p, via, below), via = "import" => RealPath(p) \notin included[w]
  PROVE  ran'[w] \subseteq included'[w] /\ stack'[w] \in Seq(Once)
  <1>0. p \in Path /\ Exists(p) /\ via \in {"import", "autoload"}
    BY DEF Executes
  <1>1. ran'[w] \subseteq included'[w]
    BY DEF Executes
  <1>2. CASE Clashes(w, p)
    BY <1>1, <1>2 DEF Executes
  <1>3. CASE ~Clashes(w, p)
    <2> DEFINE g == Loaded(w, p, via)
    <2>1. g \in FileFrame /\ g.via = via /\ g.again = (RealPath(p) \in ran[w])
      BY <1>0, LoadedType
    <2>2. stack'[w] = <<g>> \o below
      BY <1>3 DEF Executes
    <2> HIDE DEF g
    <2>3. g \in Once
      BY <2>1 DEF Once, FileFrame
    <2> QED BY <1>1, <2>2, <2>3, Pushed
  <1> QED BY <1>2, <1>3

\* The innermost call becomes another, or returns.
LEMMA OnceMoves ==
  ASSUME NEW w, stack[w] \in Seq(Once), stack[w] /= <<>>, NEW g \in Sound,
         g.via = stack[w][1].via, g.again = stack[w][1].again
  PROVE  (<<g>> \o Tail(stack[w])) \in Seq(Once) /\ Tail(stack[w]) \in Seq(Once)
  <1>1. stack[w][1] \in Once /\ Tail(stack[w]) \in Seq(Once)
    BY Popped
  <1>2. g \in Once
    BY <1>1 DEF Once
  <1> QED BY <1>1, <1>2, Pushed

LEMMA OnceKept ==
  ASSUME Canonical, WorkerInv, OnceInv, [Next]_vars
  PROVE  OnceInv'
  <1>1. CASE Next
    <2>1. PICK w \in Workers :
            \/ Acts(w) \/ Calls(w) \/ Imports(w) \/ FileEnds(w)
            \/ Begin(w) \/ Search(w) \/ Compose(w) \/ Compile(w) \/ Returns(w) \/ Fresh(w)
      BY <1>1, NextSteps
    <2>2. Domains /\ ran[w] \subseteq included[w] /\ stack[w] \in Seq(Once) /\ WorkerType(w)
      BY DEF WorkerInv, OnceInv
    <2> SUFFICES Only(w) /\ ran'[w] \subseteq included'[w] /\ stack'[w] \in Seq(Once)
      <3>1. ASSUME NEW v \in Workers, v /= w
            PROVE  ran'[v] \subseteq included'[v] /\ stack'[v] \in Seq(Once)
        <4>1. stack'[v] = stack[v] /\ ran'[v] = ran[v] /\ included'[v] = included[v]
          BY <2>2, <3>1, Others
        <4> QED BY <4>1 DEF OnceInv
      <3> QED BY <3>1 DEF OnceInv
    <2>3. CASE Acts(w)
      <3>1. included' = included /\ ran' = ran
        BY <2>3 DEF Acts, GetInstance, RegisterLocalNamespace, NewApplication, ClearLocalNamespace,
                    SetLibraryPath, Throw, Catch
      <3> QED BY <2>2, <2>3, <3>1, ActsQuiet DEF Safe
    <2>4. CASE Calls(w)
      <3>1. /\ Safe(w) /\ included' = included /\ ran' = ran
            /\ \E f \in Sound : f.again = FALSE /\ stack'[w] = <<f>> \o stack[w]
        BY <2>4, CallSteps DEF Calls
      <3>2. PICK f \in Sound : f.again = FALSE /\ stack'[w] = <<f>> \o stack[w]
        BY <3>1
      <3>3. f \in Once
        BY <3>2 DEF Once
      <3> QED BY <2>2, <3>1, <3>2, <3>3, Pushed DEF Safe
    <2>5. CASE Imports(w)
      <3>1. PICK d \in Dirs \cup {Null}, q \in DOMAIN Disk : Import(w, d, q.name)
        BY <2>5 DEF Imports
      <3> DEFINE p == Imported(w, d, q.name)
                 via == "import"
      <3>2. Executes(w, p, via, stack[w]) /\ p \notin included[w]
        BY <3>1, ImportStep
      <3>3. p \in Path /\ Safe(w)
        BY <3>2 DEF Executes
      <3> HIDE DEF p, via
      <3>4. RealPath(p) \notin included[w]
        BY <3>2, <3>3, CanonicalPath
      <3> QED BY <2>2, <3>2, <3>3, <3>4, OnceExecutes DEF Safe
    <2>6. CASE FileEnds(w)
      <3> DEFINE f == Top(w)
                 parent == Disk[RealPath(f.path)].parent
      <3>0. stack[w] /= <<>> /\ f \in FileFrame /\ f = stack[w][1] /\ included' = included /\ ran' = ran
        BY <2>6, FileEndsStep DEF Top
      <3>1. CASE Waits(w, f, parent)
        <4> DEFINE a == Asked(w, parent, TRUE)
                   b == <<Extends(f)>> \o Tail(stack[w])
        <4>1. Safe(w) /\ parent \in ClassNames /\ stack'[w] = <<a>> \o b
          BY <3>1 DEF Waits
        <4> HIDE DEF parent
        <4>2. a \in Sound /\ a.again = FALSE
          BY <4>1, AskedType
        <4> HIDE DEF a
        <4>3. a \in Once
          BY <4>2 DEF Once
        <4>4. Extends(f) \in Sound /\ Extends(f).via = f.via /\ Extends(f).again = f.again
          BY <3>0, ExtendsType DEF FileFrame
        <4>5. b \in Seq(Once)
          BY <2>2, <3>0, <4>4, OnceMoves
        <4> HIDE DEF b
        <4> QED BY <2>2, <3>0, <4>1, <4>3, <4>5, Pushed DEF Safe
      <3>2. CASE Safe(w) /\ stack'[w] = Tail(stack[w])
        BY <2>2, <3>0, <3>2, Popped DEF Safe
      <3> QED BY <2>6, <3>1, <3>2, FileEndsStep
    <2>7. ASSUME NEW g \in Sound, Moves(w, g), stack[w] /= <<>>, included' = included, ran' = ran,
                 g.via = stack[w][1].via, g.again = stack[w][1].again
          PROVE  Only(w) /\ ran'[w] \subseteq included'[w] /\ stack'[w] \in Seq(Once)
      BY <2>2, <2>7, OnceMoves DEF Moves
    <2>8. CASE Begin(w)
      <3> DEFINE f == Top(w)
                 g == IF ns[w] = Null THEN Unsearched(f) ELSE Begun(w, f)
      <3>0. In(w, "autoload", "begin") \/ In(w, "isLocalName", "begin")
        BY <2>8 DEF Begin
      <3>1. f \in Sound /\ f.op /= "file" /\ f = stack[w][1] /\ stack[w] /= <<>>
        BY <3>0, Inside
      <3>2. Moves(w, g) /\ included' = included /\ ran' = ran
        BY <2>8, BeginStep DEF Begin
      <3>3. g \in Sound /\ g.via = f.via /\ g.again = f.again
        <4>1. CASE ns[w] = Null
          BY <3>1, <4>1, UnsearchedType
        <4>2. CASE ns[w] /= Null
          BY <3>1, <4>2, BegunType
        <4> QED BY <4>1, <4>2
      <3> HIDE DEF g
      <3> QED BY <2>7, <3>1, <3>2, <3>3
    <2>9. CASE Search(w)
      <3> DEFINE f == Top(w)
      <3>0. In(w, "autoload", "search") \/ In(w, "isLocalName", "search")
        BY <2>9 DEF Search
      <3>1. /\ f \in Sound /\ f.op /= "file" /\ f = stack[w][1] /\ stack[w] /= <<>> /\ f.pc = "search"
            /\ ns[w] \in Text /\ Visible(w, f) \in Text /\ ns[w] /= Null
        BY <3>0, Inside
      <3>2. included' = included /\ ran' = ran
        BY <2>9 DEF Search
      <3>3. CASE Crashes(w)
        BY <2>2, <3>2, <3>3 DEF Crashes
      <3>4. CASE TurnsOn(w)
        <4> DEFINE i == Taken(w)
                   g == Turned(f, i)
        <4>1. Moves(w, g) /\ i + f.len <= Len(ns[w]) + 1 /\ Ahead(w) /= {}
          BY <3>4 DEF TurnsOn
        <4>2. i \in Nat /\ i >= 1
          BY <3>1, <4>1, TakenPlace
        <4>3. Len(ns[w]) \in Nat /\ Len(ns[w]) <= MaxText /\ MaxText \in Nat /\ f.len \in Nat
          BY <2>2, <3>1, LenProperties, LoaderAssumption, SoundFields DEF WorkerType, Text
        <4>4. i + f.len <= MaxText + 1
          BY <4>1, <4>2, <4>3
        <4>5. g \in Sound /\ g.via = f.via /\ g.again = f.again
          BY <3>1, <4>2, <4>4, TurnedType
        <4> HIDE DEF g
        <4> QED BY <2>7, <3>1, <3>2, <4>1, <4>5
      <3>5. ASSUME NEW found \in BOOLEAN, Answers(w, found)
            PROVE  Only(w) /\ ran'[w] \subseteq included'[w] /\ stack'[w] \in Seq(Once)
        <4> DEFINE g == Ends(f, found)
        <4>1. Moves(w, g)
          BY <3>5 DEF Answers
        <4>2. g \in Sound /\ g.via = f.via /\ g.again = f.again
          BY <3>1, EndsType
        <4> HIDE DEF g
        <4> QED BY <2>7, <3>1, <3>2, <4>1, <4>2
      <3> QED BY <2>9, <3>3, <3>4, <3>5, SearchStep
    <2>10. CASE Compose(w)
      <3> DEFINE f == Top(w)
                 g == Composed(w, f)
      <3>1. In(w, "autoload", "found") /\ included' = included /\ ran' = ran
        BY <2>10 DEF Compose
      <3>2. f \in Sound /\ f.op = "autoload" /\ f = stack[w][1] /\ stack[w] /= <<>> /\ loader[w].on
        BY <3>1, Inside DEF In
      <3>3. Moves(w, g)
        BY <2>10, ComposeStep
      <3>4. g \in Sound /\ g.via = f.via /\ g.again = f.again
        BY <2>2, <3>2, ComposedType
      <3> HIDE DEF g
      <3> QED BY <2>7, <3>1, <3>2, <3>3, <3>4
    <2>11. CASE Compile(w)
      <3> DEFINE f == Top(w)
                 b == <<Done(f)>> \o Tail(stack[w])
                 p == f.path
                 via == "autoload"
      <3>1. /\ stack[w] /= <<>> /\ f \in Sound /\ f.op = "autoload" /\ f = stack[w][1]
            /\ \/ Executes(w, p, via, b)
               \/ Safe(w) /\ stack'[w] = Tail(stack[w]) /\ included' = included /\ ran' = ran
        BY <2>11, CompileStep DEF Top
      <3>2. Done(f) \in Sound /\ Done(f).via = f.via /\ Done(f).again = f.again
        BY <3>1, DoneType
      <3>3. b \in Seq(Once) /\ Tail(stack[w]) \in Seq(Once)
        BY <2>2, <3>1, <3>2, OnceMoves
      <3>4. via /= "import"
        OBVIOUS
      <3> HIDE DEF b, via, p
      <3>5. CASE Executes(w, p, via, b)
        BY <2>2, <3>3, <3>4, <3>5, OnceExecutes DEF Executes, Safe
      <3> QED BY <2>2, <3>1, <3>3, <3>5 DEF Safe
    <2>12. CASE Returns(w)
      <3>1. /\ Safe(w) /\ stack'[w] = Tail(stack[w]) /\ stack[w] /= <<>>
            /\ included' = included /\ ran' = ran
        BY <2>12, ReturnSteps DEF Returns
      <3> QED BY <2>2, <3>1, Popped DEF Safe
    <2>13. CASE Fresh(w)
      <3>1. Safe(w) /\ stack'[w] = <<>> /\ included'[w] = {} /\ ran'[w] = {}
        BY <2>13, FreshStep
      <3> QED BY <3>1, EmptySeq DEF Safe
    <2> QED BY <2>1, <2>3, <2>4, <2>5, <2>6, <2>8, <2>9, <2>10, <2>11, <2>12, <2>13
  <1>2. CASE UNCHANGED vars
    BY <1>2 DEF vars, OnceInv
  <1> QED BY <1>1, <1>2

\* When realpath() spells every directory as PHP code does, import() never executes
\* a file that was executed before, by itself or by autoload(), however the files
\* import and load each other while they are being executed.
THEOREM ImportedOnce ==
  ASSUME Canonical
  PROVE  Spec => []ImportOnce
  <1>1. Init => OnceInv
    BY DEF Init, OnceInv
  <1>2. WorkerInv /\ OnceInv /\ [Next]_vars => OnceInv'
    BY OnceKept
  <1>3. OnceInv => ImportOnce
    <2> SUFFICES ASSUME OnceInv, NEW w \in Workers, NEW i \in DOMAIN stack[w]
                 PROVE  stack[w][i].via = "import" => ~stack[w][i].again
      BY DEF ImportOnce
    <2>1. stack[w] \in Seq(Once)
      BY DEF OnceInv
    <2>2. stack[w][i] \in Once
      BY <2>1, LenProperties, ElementOfSeq
    <2> QED BY <2>2 DEF Once
  <1> QED BY <1>1, <1>2, <1>3, WorkersAlways, PTL DEF Spec

-----------------------------------------------------------------------------
(* Places of a prefix, token by token *)

LEMMA PartOf ==
  ASSUME NEW t \in Text, NEW i \in 1 .. Len(t) + 1, NEW n \in Nat, i + n <= Len(t) + 1
  PROVE  /\ SubSeq(t, i, i + n - 1) \in Text /\ Len(SubSeq(t, i, i + n - 1)) = n
         /\ \A k \in 1 .. n : SubSeq(t, i, i + n - 1)[k] = t[i + k - 1]
  <1> DEFINE j == i + n - 1
             s == SubSeq(t, i, j)
  <1>0. Len(t) \in Nat /\ i \in Nat /\ j \in Int /\ i >= 1
    BY LenProperties DEF Text
  <1>1. \A k \in i .. j : t[k] \in Token
    <2>1. \A k \in 1 .. Len(t) : t[k] \in Token
      BY ElementOfSeq DEF Text
    <2>2. \A k \in i .. j : k \in 1 .. Len(t)
      BY <1>0
    <2> QED BY <2>1, <2>2
  <1>2. /\ s \in Seq(Token)
        /\ Len(s) = IF i <= j THEN j - i + 1 ELSE 0
        /\ \A k \in 1 .. j - i + 1 : s[k] = t[i + k - 1]
    <2> HIDE DEF j
    <2> QED BY <1>0, <1>1, SubSeqProperties
  <1>3. j - i + 1 = n
    BY <1>0
  <1>4. Len(s) = n
    <2>1. CASE i <= j
      BY <1>2, <1>3, <2>1
    <2>2. CASE ~(i <= j)
      <3>1. n = 0
        BY <1>0, <2>2
      <3>2. Len(s) = 0
        <4> HIDE DEF j, s
        <4> QED BY <1>2, <2>2
      <3> QED BY <3>1, <3>2
    <2> QED BY <2>1, <2>2
  <1> HIDE DEF j, s
  <1>5. \A k \in 1 .. n : s[k] = t[i + k - 1]
    BY <1>2, <1>3
  <1> QED BY <1>2, <1>4, <1>5 DEF j, s, Text

LEMMA PlaceRange ==
  ASSUME NEW t \in Text, NEW p \in Text, NEW i \in Places(t, p)
  PROVE  /\ i \in Nat /\ i >= 1 /\ i + Len(p) <= Len(t) + 1 /\ Len(p) \in Nat /\ Len(t) \in Nat
         /\ i \in 1 .. Len(t) + 1 /\ SubSeq(t, i, i + Len(p) - 1) = p
  <1>1. Len(p) \in Nat /\ Len(t) \in Nat
    BY LenProperties DEF Text
  <1>2. i \in 1 .. Len(t) + 1 /\ i + Len(p) <= Len(t) + 1 /\ SubSeq(t, i, i + Len(p) - 1) = p
    BY DEF Places
  <1> QED BY <1>1, <1>2

LEMMA PlaceTokens ==
  ASSUME NEW t \in Text, NEW p \in Text, NEW i \in Places(t, p), NEW k \in 1 .. Len(p)
  PROVE  t[i + k - 1] = p[k]
  <1> DEFINE n == Len(p)
  <1>1. /\ i \in Nat /\ i + n <= Len(t) + 1 /\ n \in Nat /\ i \in 1 .. Len(t) + 1
        /\ SubSeq(t, i, i + n - 1) = p
    BY PlaceRange
  <1> HIDE DEF n
  <1>2. \A l \in 1 .. n : SubSeq(t, i, i + n - 1)[l] = t[i + l - 1]
    BY <1>1, PartOf
  <1>3. \A l \in 1 .. n : p[l] = t[i + l - 1]
    BY <1>1, <1>2
  <1> QED BY <1>3 DEF n

LEMMA IsPlace ==
  ASSUME NEW t \in Text, NEW p \in Text, NEW i \in Nat, i >= 1, i + Len(p) <= Len(t) + 1,
         \A k \in 1 .. Len(p) : t[i + k - 1] = p[k]
  PROVE  i \in Places(t, p)
  <1> DEFINE n == Len(p)
             s == SubSeq(t, i, i + n - 1)
  <1>1. n \in Nat /\ Len(t) \in Nat
    BY LenProperties DEF Text
  <1>2. i \in 1 .. Len(t) + 1 /\ i + n <= Len(t) + 1
    BY <1>1
  <1>3. \A k \in 1 .. n : t[i + k - 1] = p[k]
    OBVIOUS
  <1>4. s \in Text /\ Len(s) = n /\ \A k \in 1 .. n : s[k] = t[i + k - 1]
    <2> HIDE DEF n
    <2> QED BY <1>1, <1>2, PartOf
  <1>5. s = p
    <2>1. s \in Seq(Token) /\ p \in Seq(Token) /\ Len(s) = Len(p)
      BY <1>4 DEF Text
    <2>2. \A k \in 1 .. Len(s) : s[k] = p[k]
      <3> HIDE DEF s
      <3> QED BY <1>3, <1>4
    <2> HIDE DEF s
    <2> QED BY <2>1, <2>2, SeqEqual
  <1> QED BY <1>2, <1>5 DEF Places

\* p is a whole name of the list t at i.
Whole(t, p, i) ==
  /\ i \in Places(t, p)
  /\ i = 1 \/ t[i - 1] = Colon
  /\ i + Len(p) = Len(t) + 1 \/ t[i + Len(p)] = Colon

\* A prefix is not empty, and no list of names.
Prefix(p) == p \in Text /\ Len(p) >= 1 /\ \A k \in 1 .. Len(p) : p[k] /= Colon

LEMMA WholeIsRegistered ==
  ASSUME NEW t \in Text, NEW p, Prefix(p), NEW i, Whole(t, p, i)
  PROVE  p \in Registered(t)
  <1> DEFINE j == i + Len(p)
  <1>0. p \in Text
    BY DEF Prefix
  <1>1. /\ i \in Nat /\ i >= 1 /\ j <= Len(t) + 1 /\ Len(p) \in Nat /\ Len(t) \in Nat /\ Len(p) >= 1
        /\ SubSeq(t, i, j - 1) = p
    BY <1>0, PlaceRange DEF Whole, Prefix
  <1>2. j \in 1 .. Len(t) + 1 /\ i \in 1 .. Len(t) /\ i < j
    BY <1>1
  <1>3. ASSUME NEW k \in i .. j - 1 PROVE t[k] /= Colon
    <2> DEFINE l == k - i + 1
    <2>1. l \in 1 .. Len(p) /\ i + l - 1 = k
      BY <1>1
    <2> HIDE DEF l
    <2>2. t[i + l - 1] = p[l] /\ p[l] /= Colon
      BY <1>0, <2>1, PlaceTokens DEF Whole, Prefix
    <2> QED BY <2>1, <2>2
  <1>4. NameAt(t, i, j)
    BY <1>2, <1>3 DEF NameAt, Whole
  <1>5. t /= Null
    BY ClassTypes
  <1> HIDE DEF j
  <1> QED BY <1>1, <1>2, <1>4, <1>5, SMTT(30) DEF Registered

LEMMA RegisteredIsWhole ==
  ASSUME NEW t \in Text, NEW p, Prefix(p), p \in Registered(t)
  PROVE  \E i \in 1 .. Len(t) : Whole(t, p, i)
  <1>0. p \in Text /\ Len(p) \in Nat /\ Len(t) \in Nat
    BY LenProperties DEF Prefix, Text
  <1>1. t /= Null
    BY ClassTypes
  <1>2. PICK i \in 1 .. Len(t), j \in 1 .. Len(t) + 1 : NameAt(t, i, j) /\ p = SubSeq(t, i, j - 1)
    BY <1>1 DEF Registered
  <1> DEFINE n == j - i
  <1>3. i < j
    BY <1>2 DEF NameAt
  <1>4. n \in Nat /\ i + n <= Len(t) + 1 /\ j = i + n /\ i \in 1 .. Len(t) + 1
    BY <1>0, <1>3
  <1>5. Len(SubSeq(t, i, i + n - 1)) = n
    <2> HIDE DEF n
    <2> QED BY <1>4, PartOf
  <1>6. Len(p) = n
    BY <1>2, <1>4, <1>5
  <1>7. i \in Places(t, p)
    BY <1>2, <1>4, <1>6 DEF Places
  <1>8. (i = 1 \/ t[i - 1] = Colon) /\ (i + Len(p) = Len(t) + 1 \/ t[i + Len(p)] = Colon)
    BY <1>2, <1>4, <1>6 DEF NameAt
  <1> QED BY <1>7, <1>8 DEF Whole

\* No name begins inside the prefix that was found.
LEMMA NoneInside ==
  ASSUME NEW t \in Text, NEW p, Prefix(p), NEW i \in Places(t, p), NEW j, Whole(t, p, j), j > i
  PROVE  j >= i + Len(p)
  <1>0. p \in Text
    BY DEF Prefix
  <1>1. i \in Nat /\ i >= 1 /\ j \in Nat /\ Len(p) \in Nat
    BY <1>0, PlaceRange DEF Whole
  <1>2. t[j - 1] = Colon
    BY <1>1 DEF Whole
  <1>3. ASSUME j < i + Len(p) PROVE FALSE
    <2> DEFINE k == j - i
    <2>1. k \in 1 .. Len(p) /\ i + k - 1 = j - 1
      BY <1>1, <1>3
    <2> HIDE DEF k
    <2>2. t[i + k - 1] = p[k] /\ p[k] /= Colon
      BY <1>0, <2>1, PlaceTokens DEF Prefix
    <2> QED BY <1>2, <2>1, <2>2
  <1> QED BY <1>1, <1>3

\* p is nowhere followed by itself.
Unrepeated(t, p) == \A i \in Places(t, p) : i + Len(p) \notin Places(t, p)

\* The search has not passed a name, and stands at the beginning of the list or
\* behind the prefix.
Searched(t, p, at) ==
  /\ \A i \in 1 .. Len(t) : Whole(t, p, i) => i >= at
  /\ at = 1 \/ (at - Len(p)) \in Places(t, p)

\* The first place is a whole name just if the test of the code says so.
LEMMA TestIsRight ==
  ASSUME NEW t \in Text, NEW p, Prefix(p), Unrepeated(t, p), NEW at \in Nat, at >= 1,
         Searched(t, p, at), NEW i \in Places(t, p), i >= at
  PROVE  WholeName(t, at, i, i + Len(p)) <=> Whole(t, p, i)
  <1>0. p \in Text
    BY DEF Prefix
  <1>1. i \in Nat /\ i >= 1 /\ Len(p) \in Nat
    BY <1>0, PlaceRange
  <1>2. CASE i = at
    <2>1. at /= 1 => FALSE
      <3> SUFFICES ASSUME at /= 1 PROVE FALSE
        OBVIOUS
      <3> DEFINE k == at - Len(p)
      <3>1. k \in Places(t, p)
        BY DEF Searched
      <3>2. k \in Nat /\ k + Len(p) = at
        BY <1>0, <1>1, <3>1, PlaceRange
      <3> HIDE DEF k
      <3> QED BY <1>2, <3>1, <3>2 DEF Unrepeated
    <2> QED BY <1>2, <2>1 DEF WholeName, Whole
  <1>3. CASE i /= at
    <2>1. i > 1
      BY <1>1, <1>3
    <2> QED BY <1>3, <2>1 DEF WholeName, Whole
  <1> QED BY <1>2, <1>3

\* A turn keeps the search right.
LEMMA SearchedOn ==
  ASSUME NEW t \in Text, NEW p, Prefix(p), NEW at \in Nat, Searched(t, p, at),
         NEW i \in Places(t, p), ~Whole(t, p, i),
         \A j \in Places(t, p) : j >= at => j >= i
  PROVE  Searched(t, p, i + Len(p))
  <1>0. p \in Text
    BY DEF Prefix
  <1>1. i \in Nat /\ i >= 1 /\ Len(p) \in Nat
    BY <1>0, PlaceRange
  <1>2. ASSUME NEW j \in 1 .. Len(t), Whole(t, p, j) PROVE j >= i + Len(p)
    <2>1. j >= at /\ j \in Places(t, p) /\ j \in Nat
      BY <1>0, <1>2, PlaceRange DEF Searched, Whole
    <2>2. j >= i /\ j /= i
      BY <1>2, <2>1
    <2>3. j > i
      BY <1>1, <2>1, <2>2
    <2> QED BY <1>2, <2>3, NoneInside
  <1>3. (i + Len(p)) - Len(p) = i
    BY <1>1
  <1>4. \A j \in 1 .. Len(t) : Whole(t, p, j) => j >= i + Len(p)
    BY <1>2
  <1> QED BY <1>3, <1>4 DEF Searched

\* Registering one more name puts it behind a colon, and makes no repetition.
LEMMA JoinedTokens ==
  ASSUME NEW a \in Text, NEW b \in Text, NEW t, t = a \o <<Colon>> \o b
  PROVE  /\ t \in Text /\ Len(t) = Len(a) + 1 + Len(b) /\ Len(a) \in Nat /\ Len(b) \in Nat
         /\ t[Len(a) + 1] = Colon
         /\ \A k \in 1 .. Len(a) : t[k] = a[k]
         /\ \A k \in 1 .. Len(b) : t[Len(a) + 1 + k] = b[k]
  <1> DEFINE c == <<Colon>>
             s == a \o c
  <1>0. a \in Seq(Token) /\ b \in Seq(Token) /\ Len(a) \in Nat /\ Len(b) \in Nat
    BY LenProperties DEF Text
  <1>1. c \in Seq(Token) /\ Len(c) = 1 /\ c[1] = Colon
    <2>1. Colon \in Token
      BY DEF Token
    <2> QED BY <2>1
  <1> HIDE DEF c
  <1>2. /\ s \in Seq(Token) /\ Len(s) = Len(a) + 1
        /\ \A k \in 1 .. Len(a) + 1 : s[k] = IF k <= Len(a) THEN a[k] ELSE c[k - Len(a)]
    <2>1. /\ s \in Seq(Token) /\ Len(s) = Len(a) + Len(c)
          /\ \A k \in 1 .. Len(a) + Len(c) : s[k] = IF k <= Len(a) THEN a[k] ELSE c[k - Len(a)]
      BY <1>0, <1>1, ConcatProperties
    <2> HIDE DEF s
    <2> QED BY <1>1, <2>1
  <1>3. t = s \o b
    BY DEF c
  <1> HIDE DEF s
  <1>4. /\ t \in Seq(Token) /\ Len(t) = Len(s) + Len(b)
        /\ \A k \in 1 .. Len(s) + Len(b) : t[k] = IF k <= Len(s) THEN s[k] ELSE b[k - Len(s)]
    BY <1>0, <1>2, <1>3, ConcatProperties
  <1>5. t[Len(a) + 1] = Colon
    <2>1. t[Len(a) + 1] = s[Len(a) + 1]
      BY <1>0, <1>2, <1>4
    <2>2. s[Len(a) + 1] = c[1]
      BY <1>0, <1>2
    <2> QED BY <1>1, <2>1, <2>2
  <1>6. \A k \in 1 .. Len(a) : t[k] = a[k]
    BY <1>0, <1>2, <1>4
  <1>7. ASSUME NEW k \in 1 .. Len(b) PROVE t[Len(a) + 1 + k] = b[k]
    <2> DEFINE m == Len(a) + 1 + k
    <2>1. m \in 1 .. Len(s) + Len(b) /\ ~(m <= Len(s)) /\ m - Len(s) = k
      BY <1>0, <1>2
    <2> HIDE DEF m
    <2>2. t[m] = b[k]
      BY <1>4, <2>1
    <2> QED BY <2>2 DEF m
  <1> QED BY <1>0, <1>2, <1>4, <1>5, <1>6, <1>7 DEF Text

\* A prefix that is found in the list lies on one side of the colon.
LEMMA OneSide ==
  ASSUME NEW a \in Text, NEW b \in Text, NEW t, t = a \o <<Colon>> \o b,
         NEW p, Prefix(p), NEW i \in Places(t, p)
  PROVE  \/ i + Len(p) <= Len(a) + 1 /\ i \in Places(a, p)
         \/ i > Len(a) + 1 /\ (i - (Len(a) + 1)) \in Places(b, p)
  <1> DEFINE n == Len(p)
             m == Len(a) + 1
             d == i - m
  <1>0. p \in Text /\ n >= 1
    BY DEF Prefix
  <1>1. t \in Text /\ Len(t) = m + Len(b) /\ Len(a) \in Nat /\ Len(b) \in Nat /\ t[m] = Colon
    BY JoinedTokens
  <1>2. i \in Nat /\ i >= 1 /\ i + n <= Len(t) + 1 /\ n \in Nat
    BY <1>0, <1>1, PlaceRange
  <1>3. \A k \in 1 .. n : t[i + k - 1] = p[k]
    BY <1>0, <1>1, PlaceTokens
  <1>4. ~(i <= m /\ m <= i + n - 1)
    <2> SUFFICES ASSUME i <= m, m <= i + n - 1 PROVE FALSE
      OBVIOUS
    <2> DEFINE k == m - i + 1
    <2>1. k \in 1 .. n /\ i + k - 1 = m
      BY <1>1, <1>2
    <2> HIDE DEF k, m
    <2>2. p[k] = Colon
      BY <1>1, <1>3, <2>1
    <2> QED BY <2>1, <2>2 DEF Prefix
  <1>5. CASE i + n <= m
    <2>1. \A k \in 1 .. n : a[i + k - 1] = p[k]
      <3> SUFFICES ASSUME NEW k \in 1 .. n PROVE a[i + k - 1] = p[k]
        OBVIOUS
      <3>1. i + k - 1 \in 1 .. Len(a)
        BY <1>1, <1>2, <1>5
      <3>2. t[i + k - 1] = a[i + k - 1]
        BY <3>1, JoinedTokens
      <3> QED BY <1>3, <3>2
    <2>2. i + Len(p) <= Len(a) + 1
      BY <1>5
    <2> QED BY <1>0, <1>2, <2>1, <2>2, IsPlace
  <1>6. CASE i > m
    <2>1. d \in Nat /\ d >= 1 /\ d + n <= Len(b) + 1
      BY <1>1, <1>2, <1>6
    <2>2. \A k \in 1 .. n : b[d + k - 1] = p[k]
      <3> SUFFICES ASSUME NEW k \in 1 .. n PROVE b[d + k - 1] = p[k]
        OBVIOUS
      <3> DEFINE l == d + k - 1
      <3>1. l \in 1 .. Len(b) /\ m + l = i + k - 1
        BY <1>1, <1>2, <2>1
      <3> HIDE DEF l
      <3>2. t[m + l] = b[l]
        BY <3>1, JoinedTokens
      <3>3. b[l] = p[k]
        BY <1>3, <3>1, <3>2
      <3> QED BY <3>3 DEF l
    <2> HIDE DEF d
    <2>3. d \in Places(b, p)
      BY <1>0, <2>1, <2>2, IsPlace
    <2> QED BY <1>6, <2>3 DEF d
  <1> QED BY <1>1, <1>2, <1>4, <1>5, <1>6

LEMMA JoinedUnrepeated ==
  ASSUME NEW a \in Text, NEW b \in Text, NEW t, t = a \o <<Colon>> \o b,
         NEW p, Prefix(p), Unrepeated(a, p), Unrepeated(b, p)
  PROVE  Unrepeated(t, p)
  <1> SUFFICES ASSUME NEW i \in Places(t, p), i + Len(p) \in Places(t, p) PROVE FALSE
    BY DEF Unrepeated
  <1> DEFINE n == Len(p)
             m == Len(a) + 1
             j == i + n
  <1>0. p \in Text /\ n >= 1 /\ t \in Text /\ Len(a) \in Nat
    BY JoinedTokens DEF Prefix
  <1>1. i \in Nat /\ i >= 1 /\ n \in Nat /\ j \in Nat
    BY <1>0, PlaceRange
  <1>2. \/ i + n <= m /\ i \in Places(a, p)
        \/ i > m /\ (i - m) \in Places(b, p)
    BY OneSide
  <1>3. j \in Places(t, p)
    OBVIOUS
  <1> HIDE DEF j
  <1>4. \/ j + n <= m /\ j \in Places(a, p)
        \/ j > m /\ (j - m) \in Places(b, p)
    BY <1>3, OneSide
  <1>5. j = i + n
    BY DEF j
  <1>6. CASE i + n <= m /\ i \in Places(a, p)
    <2>1. j \in Places(a, p)
      BY <1>0, <1>1, <1>4, <1>5, <1>6
    <2> QED BY <1>5, <1>6, <2>1 DEF Unrepeated
  <1>7. CASE i > m /\ (i - m) \in Places(b, p)
    <2>1. (j - m) \in Places(b, p) /\ j - m = (i - m) + n
      BY <1>0, <1>1, <1>4, <1>5, <1>7
    <2> QED BY <1>7, <2>1 DEF Unrepeated
  <1> QED BY <1>2, <1>6, <1>7

-----------------------------------------------------------------------------
(* The first part of a name *)

\* Class names as PHP programs have them: they begin with no separator, hold no
\* colon, and their first separator is "_" if they have one at all.
Named ==
  \A c \in ClassNames :
    /\ c[1] \notin Separator
    /\ \A i \in 1 .. Len(c) : c[i] /= Colon
    /\ First(c, {Underscore}) > 0 => First(c, {Underscore}) = First(c, Separator)

LEMMA SameFirst ==
  ASSUME NEW t \in Text, NEW u \in Text, Len(t) = Len(u), NEW S, NEW T,
         \A i \in 1 .. Len(t) : t[i] \in S <=> u[i] \in T
  PROVE  First(t, S) = First(u, T)
  <1> DEFINE a == {i \in DOMAIN t : t[i] \in S}
             b == {i \in DOMAIN u : u[i] \in T}
  <1>1. DOMAIN t = 1 .. Len(t) /\ DOMAIN u = 1 .. Len(t)
    BY LenProperties DEF Text
  <1>2. a = b
    BY <1>1
  <1>3. First(t, S) = (IF a = {} THEN 0 ELSE Min(a)) /\ First(u, T) = (IF b = {} THEN 0 ELSE Min(b))
    BY DEF First
  <1> HIDE DEF a, b
  <1> QED BY <1>2, <1>3

LEMMA FirstEarlier ==
  ASSUME NEW t \in Text, NEW S, First(t, S) > 0, NEW j \in 1 .. First(t, S) - 1
  PROVE  t[j] \notin S
  BY FirstFinds

\* The separators of the name that is searched for are those of the class name.
LEMMA NameTokens ==
  ASSUME NEW f \in Sound, f.op /= "file"
  PROVE  /\ Name(f) \in Text /\ f.class \in Text /\ Len(Name(f)) = Len(f.class)
         /\ Len(f.class) \in Nat /\ Len(f.class) >= 1
         /\ Name(f) = (IF Owns(f) THEN Underscored(f.class) ELSE f.class)
  <1>1. f.class \in Text /\ f.class /= <<>>
    BY SoundFields
  <1>2. Len(f.class) \in Nat /\ Len(f.class) >= 1
    BY <1>1, LenProperties, EmptySeq DEF Text
  <1>3. Underscored(f.class) \in Text /\ Len(Underscored(f.class)) = Len(f.class)
    BY <1>1, UnderscoredText
  <1>4. Name(f) = (IF Owns(f) THEN Underscored(f.class) ELSE f.class)
    BY DEF Name, Owns
  <1> QED BY <1>1, <1>2, <1>3, <1>4

LEMMA NameSeparators ==
  ASSUME NEW f \in Sound, f.op /= "file", NEW i \in 1 .. Len(f.class)
  PROVE  /\ Name(f)[i] \in Separator <=> f.class[i] \in Separator
         /\ f.class[i] \notin Separator => Name(f)[i] = f.class[i]
         /\ Owns(f) => (Name(f)[i] \in {Underscore} <=> f.class[i] \in Separator)
  <1>1. CASE Owns(f)
    <2>1. Name(f) = Underscored(f.class) /\ f.class \in Text
      BY <1>1, NameTokens
    <2>2. Underscored(f.class)[i] = IF f.class[i] = Backslash THEN Underscore ELSE f.class[i]
      BY <2>1, UnderscoredText
    <2> QED BY <2>1, <2>2 DEF Separator
  <1>2. CASE ~Owns(f)
    <2>1. Name(f) = f.class
      BY <1>2, NameTokens
    <2> QED BY <1>2, <2>1
  <1> QED BY <1>1, <1>2

LEMMA NameFirst ==
  ASSUME NEW f \in Sound, f.op /= "file"
  PROVE  First(Name(f), Separator) = First(f.class, Separator)
  <1>1. \A i \in 1 .. Len(Name(f)) : Name(f)[i] \in Separator <=> f.class[i] \in Separator
    BY NameSeparators, NameTokens
  <1>2. Name(f) \in Text /\ f.class \in Text /\ Len(Name(f)) = Len(f.class)
    BY NameTokens
  <1> QED BY <1>1, <1>2, SameFirst

LEMMA CutAtFirst ==
  ASSUME Named, NEW f \in Sound, f.op /= "file"
  PROVE  CutAt(f) = First(f.class, Separator)
  <1> DEFINE c == f.class
             k == First(c, Separator)
             a == First(Name(f), {Underscore})
             b == First(Name(f), {Backslash})
  <1>1. Name(f) \in Text /\ c \in Text /\ Len(Name(f)) = Len(c) /\ c \in ClassNames
    BY NameTokens, SoundFields
  <1>2. CutAt(f) = IF a > 0 THEN a ELSE b
    BY DEF CutAt
  <1>3. a \in Nat /\ b \in Nat /\ k \in Nat
    BY <1>1, FirstType
  <1>4. CASE Owns(f)
    <2>1. \A i \in 1 .. Len(Name(f)) : Name(f)[i] \in {Underscore} <=> c[i] \in Separator
      BY <1>1, <1>4, NameSeparators
    <2>2. a = k
      BY <1>1, <2>1, SameFirst
    <2>3. k /= 0
      <3> SUFFICES ASSUME k = 0 PROVE FALSE
        OBVIOUS
      <3> DEFINE j == First(c, {Backslash})
      <3>1. j > 0 /\ j \in 1 .. Len(c)
        BY <1>1, <1>4, FirstType DEF Owns, Copied
      <3>2. c[j] \in {Backslash}
        BY <1>1, <3>1, FirstHit
      <3> HIDE DEF j
      <3>3. c[j] \notin Separator
        BY <1>1, <3>1, FirstNone
      <3> QED BY <3>2, <3>3 DEF Separator
    <2> HIDE DEF a, b, k
    <2> QED BY <1>2, <1>3, <2>2, <2>3 DEF k
  <1>5. CASE ~Owns(f)
    <2>1. Name(f) = c
      BY <1>5, NameTokens
    <2>2. CASE a > 0
      <3>1. a = k
        BY <1>1, <2>1, <2>2 DEF Named
      <3> HIDE DEF a, b, k
      <3> QED BY <1>2, <2>2, <3>1 DEF k
    <2>3. CASE a = 0
      <3>1. ASSUME NEW i \in 1 .. Len(c) PROVE c[i] \in {Backslash} <=> c[i] \in Separator
        <4>1. c[i] \notin {Underscore}
          BY <1>1, <2>1, <2>3, <3>1, FirstNone
        <4> QED BY <4>1 DEF Separator
      <3>2. b = k
        BY <1>1, <2>1, <3>1, SameFirst
      <3> HIDE DEF a, b, k
      <3> QED BY <1>2, <2>3, <3>2 DEF k
    <2> HIDE DEF a, b, k
    <2> QED BY <1>3, <2>2, <2>3
  <1> QED BY <1>4, <1>5

LEMMA PartType ==
  ASSUME Named, NEW c \in ClassNames
  PROVE  /\ Prefix(FirstPart(c))
         /\ Len(FirstPart(c)) = IF First(c, Separator) > 0 THEN First(c, Separator) - 1 ELSE Len(c)
         /\ \A i \in 1 .. Len(FirstPart(c)) : FirstPart(c)[i] = c[i]
  <1> DEFINE k == First(c, Separator)
             p == FirstPart(c)
  <1>1. c \in Text /\ c /= <<>>
    BY ClassTypes
  <1>2. Len(c) \in Nat /\ Len(c) >= 1
    BY <1>1, LenProperties, EmptySeq DEF Text
  <1>3. k \in 0 .. Len(c) /\ k \in Nat
    BY <1>1, FirstType
  <1>4. p = IF k = 0 THEN c ELSE SubSeq(c, 1, k - 1)
    BY DEF FirstPart
  <1>5. \A i \in 1 .. Len(c) : c[i] /= Colon
    BY DEF Named
  <1>6. CASE k = 0
    <2>1. p = c
      BY <1>4, <1>6
    <2> HIDE DEF p, k
    <2> QED BY <1>1, <1>2, <1>5, <1>6, <2>1 DEF Prefix, p, k
  <1>7. CASE k /= 0
    <2>1. k /= 1
      <3> SUFFICES ASSUME k = 1 PROVE FALSE
        OBVIOUS
      <3>1. k > 0
        BY <1>3, <1>7
      <3>2. c[k] \in Separator
        BY <1>1, <3>1, FirstHit
      <3> QED BY <3>2 DEF Named
    <2> DEFINE n == k - 1
    <2>2. n \in Nat /\ n >= 1 /\ 1 + n <= Len(c) + 1 /\ 1 \in 1 .. Len(c) + 1 /\ k > 0 /\ 1 + n - 1 = k - 1
      BY <1>2, <1>3, <1>7, <2>1
    <2> HIDE DEF k, n
    <2>3. /\ SubSeq(c, 1, 1 + n - 1) \in Text /\ Len(SubSeq(c, 1, 1 + n - 1)) = n
          /\ \A i \in 1 .. n : SubSeq(c, 1, 1 + n - 1)[i] = c[1 + i - 1]
      BY <1>1, <2>2, PartOf
    <2>4. p = SubSeq(c, 1, 1 + n - 1)
      BY <1>4, <1>7, <2>2
    <2> HIDE DEF p
    <2>5. p \in Text /\ Len(p) = n /\ \A i \in 1 .. n : p[i] = c[1 + i - 1]
      BY <2>3, <2>4
    <2>6. \A i \in 1 .. n : p[i] = c[i]
      BY <2>2, <2>5
    <2>7. \A i \in 1 .. n : i \in 1 .. Len(c)
      BY <1>2, <2>2
    <2>8. Prefix(p)
      BY <1>5, <2>2, <2>5, <2>6, <2>7 DEF Prefix
    <2> QED BY <2>2, <2>5, <2>6, <2>8 DEF n, k, p
  <1> QED BY <1>6, <1>7

\* Cut, a name is its first part.
LEMMA VisiblePart ==
  ASSUME Named, NEW w, NEW f \in Sound, f.op /= "file", Ended(w, f), First(f.class, Separator) > 0
  PROVE  Visible(w, f) = FirstPart(f.class)
  <1> DEFINE c == f.class
             k == First(c, Separator)
             n == k - 1
             p == FirstPart(c)
             v == Visible(w, f)
  <1>1. Name(f) \in Text /\ c \in Text /\ Len(Name(f)) = Len(c) /\ c \in ClassNames /\ Len(c) \in Nat
    BY NameTokens, SoundFields
  <1>2. CutAt(f) = k /\ k > 0
    BY CutAtFirst
  <1>3. k \in 0 .. Len(c) /\ k \in Nat
    BY <1>1, FirstType
  <1>4. v = SubSeq(Name(f), 1, k - 1)
    BY <1>2 DEF Visible
  <1>5. Prefix(p) /\ Len(p) = n /\ \A i \in 1 .. n : p[i] = c[i]
    BY <1>1, <1>2, PartType
  <1>6. \A i \in 1 .. n : Name(f)[i] = c[i]
    <2> SUFFICES ASSUME NEW i \in 1 .. n PROVE Name(f)[i] = c[i]
      OBVIOUS
    <2>1. c[i] \notin Separator
      BY <1>1, <1>2, FirstEarlier
    <2>2. i \in 1 .. Len(c)
      BY <1>1, <1>3
    <2> QED BY <2>1, <2>2, NameSeparators
  <1>7. n \in Nat /\ 1 + n <= Len(Name(f)) + 1 /\ 1 \in 1 .. Len(Name(f)) + 1 /\ 1 + n - 1 = k - 1
    BY <1>1, <1>2, <1>3
  <1> HIDE DEF n, k, v, p
  <1>8. /\ SubSeq(Name(f), 1, 1 + n - 1) \in Text /\ Len(SubSeq(Name(f), 1, 1 + n - 1)) = n
        /\ \A i \in 1 .. n : SubSeq(Name(f), 1, 1 + n - 1)[i] = Name(f)[1 + i - 1]
    BY <1>1, <1>7, PartOf
  <1>9. v \in Text /\ Len(v) = n /\ \A i \in 1 .. n : v[i] = Name(f)[1 + i - 1]
    BY <1>4, <1>7, <1>8
  <1>10. \A i \in 1 .. n : v[i] = p[i]
    BY <1>5, <1>6, <1>7, <1>9
  <1>11. v = p
    BY <1>5, <1>9, <1>10, SeqEqual DEF Prefix, Text
  <1> QED BY <1>11 DEF v, p, n, k

\* A name without a separator is its first part.
LEMMA VisibleAll ==
  ASSUME NEW w, NEW f \in Sound, f.op /= "file", ~Ended(w, f), ~(First(f.class, Separator) > 0)
  PROVE  Visible(w, f) = FirstPart(f.class)
  <1> DEFINE c == f.class
             k == First(c, Separator)
             j == First(c, {Backslash})
  <1>1. c \in Text
    BY NameTokens
  <1>2. k \in Nat /\ ~(k > 0) /\ j \in 0 .. Len(c) /\ j \in Nat
    BY <1>1, FirstType
  <1>3. k = 0
    <2> HIDE DEF k
    <2> QED BY <1>2
  <1>4. FirstPart(c) = c
    BY <1>3 DEF FirstPart
  <1>5. ~Owns(f)
    <2> SUFFICES ASSUME Owns(f) PROVE FALSE
      OBVIOUS
    <2>1. j > 0 /\ j \in 1 .. Len(c)
      BY <1>2 DEF Owns, Copied
    <2>2. c[j] \in {Backslash}
      BY <1>1, <2>1, FirstHit
    <2> HIDE DEF j
    <2>3. c[j] \notin Separator
      BY <1>1, <1>3, <2>1, FirstNone
    <2> QED BY <2>2, <2>3 DEF Separator
  <1>6. Visible(w, f) = Name(f) /\ Name(f) = c
    BY <1>5, NameTokens DEF Visible
  <1> QED BY <1>4, <1>6

\* Not cut, the name that autoload() makes a path of has underscores only.
LEMMA VisibleUnderscored ==
  ASSUME NEW w, NEW f \in Sound, f.op = "autoload", ~Ended(w, f)
  PROVE  Visible(w, f) = Underscored(f.class)
  <1> DEFINE c == f.class
             u == Underscored(c)
  <1>1. Visible(w, f) = Name(f)
    BY DEF Visible
  <1>2. CASE Owns(f)
    BY <1>1, <1>2, NameTokens
  <1>3. CASE ~Owns(f)
    <2>1. Name(f) = c /\ c \in Text
      BY <1>3, NameTokens
    <2>2. First(c, {Backslash}) = 0
      <3> DEFINE j == First(c, {Backslash})
      <3>1. j \in Nat /\ ~(j > 0)
        BY <1>3, <2>1, FirstType DEF Owns, Copied
      <3> HIDE DEF j
      <3>2. j = 0
        BY <3>1
      <3> QED BY <3>2 DEF j
    <2>3. /\ u \in Text /\ Len(u) = Len(c) /\ Len(c) \in Nat
          /\ \A i \in 1 .. Len(c) : u[i] = IF c[i] = Backslash THEN Underscore ELSE c[i]
      BY <2>1, UnderscoredText
    <2>4. \A i \in 1 .. Len(c) : c[i] \notin {Backslash}
      BY <2>1, <2>2, FirstNone
    <2> HIDE DEF u
    <2>5. \A i \in 1 .. Len(u) : u[i] = c[i]
      BY <2>3, <2>4
    <2>6. u = c
      BY <2>1, <2>3, <2>5, SeqEqual DEF Text
    <2> QED BY <1>1, <2>1, <2>6 DEF u
  <1> QED BY <1>2, <1>3

-----------------------------------------------------------------------------
(* The right file *)

\* Nothing that is registered has the first part of a class name twice in a row.
Distinct == \A t \in Words : \A c \in ClassNames : Unrepeated(t, FirstPart(c))

\* What a call inside the loader knows, of a worker with namespaces t and loader l.
FrameRight(f, t, l) ==
  LET p == FirstPart(f.class)
  IN f.op /= "file" =>
       /\ f.pc = "begin" => ~f.backup
       /\ f.pc = "search" =>
            (f.backup <=> First(f.class, Separator) > 0) /\ f.len = Len(p) /\ Searched(t, p, f.at)
       /\ f.pc = "found" => ~f.backup /\ (f.local <=> p \in Registered(t))
       /\ f.op = "autoload" /\ f.pc = "compile" /\ ~IsMvc(f.class) =>
            f.path = [dir |-> IF p \in Registered(t) THEN l.library ELSE l.global,
                      name |-> Slashed(Underscored(f.class))]

\* The innermost call has cut the class name c.
CutBy(s, c) == s /= <<>> /\ s[1].pc = "search" /\ s[1].class = c /\ s[1].backup /\ ~Owns(s[1])

TopInv(w) == stack[w] /= <<>> => FrameRight(stack[w][1], ns[w], loader[w])
CutInv(w) == \A c \in ClassNames : <<w, c>> \in cut <=> CutBy(stack[w], c)
TextInv(w) == ns[w] /= Null => \A c \in ClassNames : Unrepeated(ns[w], FirstPart(c))

NameInv == \A w \in Workers : TopInv(w) /\ CutInv(w) /\ TextInv(w)

\* A worker cuts only its own names.
OthersCut(w) ==
  \A v \in Workers : v /= w => \A c \in ClassNames : <<v, c>> \in cut' <=> <<v, c>> \in cut

LEMMA NameStep ==
  ASSUME Domains, NameInv, NEW w \in Workers, Only(w), OthersCut(w), TopInv(w)', CutInv(w)', TextInv(w)'
  PROVE  NameInv'
  <1>1. ASSUME NEW v \in Workers, v /= w PROVE TopInv(v)' /\ CutInv(v)' /\ TextInv(v)'
    <2>1. stack'[v] = stack[v] /\ ns'[v] = ns[v] /\ loader'[v] = loader[v]
      BY <1>1, Others
    <2>2. TopInv(v) /\ CutInv(v) /\ TextInv(v)
      BY DEF NameInv
    <2>3. TopInv(v)'
      BY <2>1, <2>2 DEF TopInv
    <2>4. CutInv(v)'
      <3> SUFFICES ASSUME NEW c \in ClassNames PROVE <<v, c>> \in cut' <=> CutBy(stack'[v], c)
        BY DEF CutInv
      <3>1. <<v, c>> \in cut' <=> <<v, c>> \in cut
        BY <1>1 DEF OthersCut
      <3>2. <<v, c>> \in cut <=> CutBy(stack[v], c)
        BY <2>2 DEF CutInv
      <3> QED BY <2>1, <3>1, <3>2
    <2>5. TextInv(v)'
      BY <2>1, <2>2 DEF TextInv
    <2> QED BY <2>3, <2>4, <2>5
  <1> QED BY <1>1 DEF NameInv

LEMMA QuietRight ==
  ASSUME NEW f \in Quiet, NEW t, NEW l
  PROVE  FrameRight(f, t, l)
  <1>1. f.pc \in {"runs", "extends", "done"}
    BY DEF Quiet
  <1> QED BY <1>1 DEF FrameRight

LEMMA QuietTop ==
  ASSUME NEW w, stack'[w] /= <<>> => stack'[w][1] \in Quiet
  PROVE  TopInv(w)'
  BY QuietRight DEF TopInv

\* No name is cut before or after the step.
LEMMA CutQuiet ==
  ASSUME NEW w, CutInv(w), cut' = cut, stack[w] /= <<>> => stack[w][1].pc /= "search",
         stack'[w] /= <<>> => stack'[w][1].pc /= "search"
  PROVE  CutInv(w)' /\ OthersCut(w)
  <1>1. ASSUME NEW c \in ClassNames PROVE <<w, c>> \in cut' <=> CutBy(stack'[w], c)
    <2>1. ~CutBy(stack[w], c) /\ ~CutBy(stack'[w], c)
      BY DEF CutBy
    <2>2. <<w, c>> \notin cut
      BY <2>1 DEF CutInv
    <2> QED BY <2>1, <2>2
  <1>2. CutInv(w)'
    BY <1>1 DEF CutInv
  <1>3. OthersCut(w)
    BY DEF OthersCut
  <1> QED BY <1>2, <1>3

\* A call that waits, or runs a file, does not search.
LEMMA QuietIsNoSearch ==
  ASSUME NEW f \in Quiet \cup FileFrame
  PROVE  f.pc /= "search"
  BY DEF Quiet, FileFrame, Sound

\* Registering keeps the namespaces free of repetitions.
LEMMA RegisteringText ==
  ASSUME Named, Distinct, WorkerInv, NEW w \in Workers, TextInv(w), NEW t \in Words, Registering(w, t)
  PROVE  TextInv(w)'
  <1> DEFINE text == IF ns[w] = Null THEN t ELSE ns[w] \o <<Colon>> \o t
  <1>1. t \in Text
    BY ClassTypes
  <1>2. ns' = [ns EXCEPT ![w] = text]
    BY DEF Registering
  <1>3. ASSUME NEW c \in ClassNames PROVE Unrepeated(text, FirstPart(c))
    <2>1. Unrepeated(t, FirstPart(c)) /\ Prefix(FirstPart(c))
      BY PartType DEF Distinct
    <2>2. CASE ns[w] = Null
      BY <2>1, <2>2
    <2>3. CASE ns[w] /= Null
      <3>1. ns[w] \in Text /\ Unrepeated(ns[w], FirstPart(c))
        BY <2>3 DEF WorkerInv, WorkerType, TextInv
      <3>2. text = ns[w] \o <<Colon>> \o t
        BY <2>3
      <3> HIDE DEF text
      <3> DEFINE a == ns[w]
                 p == FirstPart(c)
      <3>3. a \in Text /\ text = a \o <<Colon>> \o t
        BY <3>1, <3>2
      <3>4. Prefix(p) /\ Unrepeated(a, p) /\ Unrepeated(t, p)
        BY <2>1, <3>1
      <3> HIDE DEF a, p
      <3>5. Unrepeated(text, p)
        BY <1>1, <3>3, <3>4, JoinedUnrepeated
      <3> QED BY <3>5 DEF p
    <2> QED BY <2>2, <2>3
  <1> HIDE DEF text
  <1>4. ns'[w] = text
    BY <1>2, UpdatesExcept DEF WorkerInv, Domains
  <1> QED BY <1>3, <1>4 DEF TextInv

\* Whether the name of the innermost call is cut.
LEMMA NotEnded ==
  ASSUME ~Shared, NEW w, CutInv(w), NEW f \in Sound, f.op /= "file", stack[w] /= <<>>, f = stack[w][1],
         f.pc /= "search", ~f.backup
  PROVE  ~Ended(w, f)
  <1>1. f.class \in ClassNames
    BY SoundFields
  <1>2. ~CutBy(stack[w], f.class)
    BY DEF CutBy
  <1>3. <<w, f.class>> \notin cut
    BY <1>1, <1>2 DEF CutInv
  <1> QED BY <1>3 DEF Ended, Id

LEMMA SearchedName ==
  ASSUME ~Shared, Named, NEW w, CutInv(w), NEW f \in Sound, f.op /= "file", stack[w] /= <<>>,
         f = stack[w][1], f.pc = "search", f.backup <=> First(f.class, Separator) > 0
  PROVE  Visible(w, f) = FirstPart(f.class)
  <1>1. f.class \in ClassNames
    BY SoundFields
  <1>2. <<w, f.class>> \in cut <=> CutBy(stack[w], f.class)
    BY <1>1 DEF CutInv
  <1>3. ~Owns(f) => (<<w, f.class>> \in cut <=> f.backup)
    BY <1>2 DEF CutBy
  <1>4. Ended(w, f) <=> f.backup
    <2>1. CASE Owns(f)
      BY <2>1 DEF Ended
    <2>2. CASE ~Owns(f)
      <3>1. Ended(w, f) <=> <<w, f.class>> \in cut
        BY <2>2 DEF Ended, Id
      <3> QED BY <1>3, <2>2, <3>1
    <2> QED BY <2>1, <2>2
  <1>5. CASE First(f.class, Separator) > 0
    BY <1>4, <1>5, VisiblePart
  <1>6. CASE ~(First(f.class, Separator) > 0)
    BY <1>4, <1>6, VisibleAll
  <1> QED BY <1>5, <1>6

LEMMA BegunRight ==
  ASSUME ~Shared, Named, WorkerInv, NEW w \in Workers, CutInv(w), TopInv(w), Begin(w), ns[w] /= Null
  PROVE  TopInv(w)' /\ CutInv(w)' /\ OthersCut(w)
  <1> DEFINE f == Top(w)
             c == f.class
             k == First(c, Separator)
             p == FirstPart(c)
             g == Begun(w, f)
  <1>0. In(w, "autoload", "begin") \/ In(w, "isLocalName", "begin")
    BY DEF Begin
  <1>1. f \in Sound /\ f.op /= "file" /\ f.pc = "begin" /\ f = stack[w][1] /\ stack[w] /= <<>>
    BY <1>0, Inside
  <1>2. stack'[w][1] = g /\ stack'[w] /= <<>> /\ ns' = ns /\ loader' = loader
    BY BeginStep DEF Moves, Begin
  <1>3. ~f.backup
    BY <1>1 DEF TopInv, FrameRight
  <1>4. ~Ended(w, f)
    BY <1>1, <1>3, NotEnded
  <1>5. Visible(w, f) = Name(f)
    BY <1>4 DEF Visible
  <1>6. First(Visible(w, f), Separator) = k
    BY <1>1, <1>5, NameFirst
  <1>7. g \in Sound /\ g.op = f.op /\ g.class = c /\ g.pc = "search" /\ g.at = 1
    BY <1>1, BegunType
  <1>8. g.backup = (First(Visible(w, f), Separator) > 0)
    BY <1>1, BegunType
  <1>9. g.len = IF First(Visible(w, f), Separator) > 0 THEN CutAt(f) - 1 ELSE Len(Name(f))
    BY <1>1, BegunType
  <1>10. c \in ClassNames /\ Len(Name(f)) = Len(c) /\ CutAt(f) = k
    BY <1>1, SoundFields, NameTokens, CutAtFirst
  <1>11. Len(p) = (IF k > 0 THEN k - 1 ELSE Len(c)) /\ Prefix(p)
    BY <1>10, PartType
  <1>12. Put(w, g, cut \cup {Id(w, c)})
    BY DEF Begin, SearchBegins, Begun
  <1>13. (g.backup <=> k > 0) /\ g.len = Len(p)
    <2> HIDE DEF k, p, g, f, c
    <2> QED BY <1>6, <1>8, <1>9, <1>10, <1>11
  <1>14. Searched(ns[w], p, 1)
    <2>1. ns[w] \in Text
      BY DEF WorkerInv, WorkerType
    <2>2. \A i \in 1 .. Len(ns[w]) : i >= 1
      BY <2>1, LenProperties DEF Text
    <2> QED BY <2>2 DEF Searched
  <1>15. Owns(g) <=> Owns(f)
    <2> HIDE DEF g
    <2> QED BY <1>7 DEF Owns
  <1> HIDE DEF g, p, k, c, f
  <1>16. TopInv(w)'
    <2>1. FrameRight(g, ns[w], loader[w])
      BY <1>7, <1>13, <1>14 DEF FrameRight, p, k
    <2> QED BY <1>2, <2>1 DEF TopInv
  <1>17. ASSUME NEW d \in ClassNames PROVE <<w, d>> \notin cut
    <2>1. ~CutBy(stack[w], d)
      BY <1>1 DEF CutBy
    <2> QED BY <2>1 DEF CutInv
  <1>18. cut' = IF g.backup /\ ~Owns(g) THEN cut \cup {<<w, c>>} ELSE cut
    BY <1>12 DEF Put, Id
  <1>19. ASSUME NEW d \in ClassNames PROVE <<w, d>> \in cut' <=> CutBy(stack'[w], d)
    <2>1. CutBy(stack'[w], d) <=> c = d /\ g.backup /\ ~Owns(g)
      BY <1>2, <1>7 DEF CutBy
    <2>2. <<w, d>> \in cut' <=> c = d /\ g.backup /\ ~Owns(g)
      BY <1>17, <1>18
    <2> QED BY <2>1, <2>2
  <1>20. OthersCut(w)
    BY <1>18 DEF OthersCut
  <1>21. CutInv(w)'
    BY <1>19 DEF CutInv
  <1> QED BY <1>16, <1>20, <1>21

LEMMA BeginRight ==
  ASSUME ~Shared, Named, WorkerInv, NEW w \in Workers, CutInv(w), TopInv(w), Begin(w)
  PROVE  TopInv(w)' /\ CutInv(w)' /\ OthersCut(w)
  <1>1. CASE ns[w] /= Null
    BY <1>1, BegunRight
  <1>2. CASE ns[w] = Null
    <2> DEFINE f == Top(w)
               g == Unsearched(f)
    <2>0. In(w, "autoload", "begin") \/ In(w, "isLocalName", "begin")
      BY DEF Begin
    <2>1. f \in Sound /\ f.op /= "file" /\ f.pc = "begin" /\ f = stack[w][1] /\ stack[w] /= <<>>
      BY <2>0, Inside
    <2>2. Moves(w, IF ns[w] = Null THEN g ELSE Begun(w, f)) /\ ns' = ns
      BY BeginStep DEF Begin
    <2>3. stack'[w][1] = g /\ stack'[w] /= <<>>
      BY <1>2, <2>2 DEF Moves
    <2>4. cut' = cut
      BY <1>2 DEF Begin, SearchBegins
    <2>5. ~f.backup
      BY <2>1 DEF TopInv, FrameRight
    <2>6. g.op = f.op /\ g.pc = "found" /\ g.local = FALSE /\ g.backup = f.backup
      BY <2>1, UnsearchedType
    <2>7. Registered(ns'[w]) = {}
      BY <1>2, <2>2 DEF Registered
    <2> HIDE DEF f, g
    <2>8. TopInv(w)'
      <3>1. FrameRight(g, ns'[w], loader'[w])
        BY <2>5, <2>6, <2>7 DEF FrameRight
      <3> QED BY <2>3, <3>1 DEF TopInv
    <2>9. CutInv(w)' /\ OthersCut(w)
      BY <2>1, <2>3, <2>4, <2>6, CutQuiet
    <2> QED BY <2>8, <2>9
  <1> QED BY <1>1, <1>2

\* What the search answers is right, and it stays right on its way.
LEMMA SearchRight ==
  ASSUME ~Shared, Named, WorkerInv, NEW w \in Workers, CutInv(w), TopInv(w), TextInv(w), Search(w)
  PROVE  TopInv(w)' /\ CutInv(w)' /\ OthersCut(w)
  <1> DEFINE f == Top(w)
             c == f.class
             p == FirstPart(c)
             t == ns[w]
             i == Taken(w)
  <1>0. In(w, "autoload", "search") \/ In(w, "isLocalName", "search")
    BY DEF Search
  <1>1. /\ f \in Sound /\ f.op /= "file" /\ f.pc = "search" /\ f = stack[w][1] /\ stack[w] /= <<>>
        /\ t \in Text /\ Visible(w, f) \in Text /\ t /= Null
    BY <1>0, Inside
  <1>2. UNCHANGED <<ns, loader>>
    BY DEF Search
  <1>3. (f.backup <=> First(c, Separator) > 0) /\ f.len = Len(p) /\ Searched(t, p, f.at)
    BY <1>1 DEF TopInv, FrameRight
  <1>4. c \in ClassNames /\ f.at \in Nat /\ f.at >= 1
    <2>1. f.at \in 1 .. MaxText + 1
      BY <1>1, SoundFields
    <2> QED BY <1>1, <2>1, SoundFields, LoaderAssumption
  <1>5. Prefix(p) /\ Unrepeated(t, p) /\ p \in Text
    BY <1>1, <1>4, PartType DEF TextInv, Prefix
  <1>6. Visible(w, f) = p
    BY <1>1, <1>3, SearchedName
  <1>7. Ahead(w) = {j \in Places(t, p) : j >= f.at}
    BY <1>6 DEF Ahead
  <1>8. ASSUME Ahead(w) /= {}
        PROVE  /\ i \in Places(t, p) /\ i >= f.at /\ i \in Nat /\ i >= 1
               /\ i + Len(p) <= Len(t) + 1 /\ Len(p) \in Nat /\ Len(t) \in Nat
               /\ WholeName(t, f.at, i, i + Len(p)) <=> Whole(t, p, i)
    <2>1. i \in Places(t, p) /\ i >= f.at
      BY <1>1, <1>6, <1>8, TakenPlace
    <2>2. i \in Nat /\ i >= 1 /\ i + Len(p) <= Len(t) + 1 /\ Len(p) \in Nat /\ Len(t) \in Nat
      BY <1>1, <1>5, <2>1, PlaceRange
    <2>3. WholeName(t, f.at, i, i + Len(p)) <=> Whole(t, p, i)
      <3> HIDE DEF i, p, t
      <3> QED BY <1>1, <1>3, <1>4, <1>5, <2>1, TestIsRight
    <2> QED BY <2>1, <2>2, <2>3
  <1>9. CASE Crashes(w)
    <2>1. stack' = stack /\ cut' = cut
      BY <1>9 DEF Crashes
    <2> QED BY <1>2, <2>1 DEF TopInv, CutInv, OthersCut
  <1>10. CASE TurnsOn(w)
    <2> DEFINE g == Turned(f, i)
    <2>1. /\ Ahead(w) /= {} /\ i + f.len <= Len(t) + 1 /\ ~WholeName(t, f.at, i, i + f.len)
          /\ stack'[w][1] = g /\ stack'[w] /= <<>> /\ cut' = cut
      BY <1>10 DEF TurnsOn, Moves
    <2>2. i \in Places(t, p) /\ i \in Nat /\ i >= 1 /\ ~Whole(t, p, i)
      BY <1>3, <1>8, <2>1
    <2>3. ASSUME NEW j \in Places(t, p), j >= f.at PROVE j >= i
      <3>1. j \in Ahead(w)
        BY <1>7, <2>3
      <3>2. Taken(w) <= j
        BY <1>1, <3>1, TakenFirst
      <3>3. j \in Nat
        BY <1>1, <1>5, <2>3, PlaceRange
      <3> QED BY <2>2, <3>2, <3>3
    <2>4. Searched(t, p, i + Len(p))
      <3> HIDE DEF i, p, t
      <3> QED BY <1>1, <1>3, <1>4, <1>5, <2>2, <2>3, SearchedOn
    <2>5. Len(t) \in Nat /\ Len(t) <= MaxText /\ MaxText \in Nat /\ f.len \in Nat
      BY <1>1, LenProperties, LoaderAssumption, SoundFields DEF WorkerInv, WorkerType, Text
    <2>6. i + f.len <= MaxText + 1
      BY <2>1, <2>2, <2>5
    <2>7. /\ g.op = f.op /\ g.class = c /\ g.pc = "search" /\ g.at = i + f.len /\ g.len = f.len
          /\ g.backup = f.backup
      BY <1>1, <2>2, <2>6, TurnedType
    <2> HIDE DEF g, f, i
    <2>8. FrameRight(g, t, loader[w])
      BY <1>3, <2>4, <2>7 DEF FrameRight
    <2>9. TopInv(w)'
      BY <1>2, <2>1, <2>8 DEF TopInv
    <2>10. ASSUME NEW d \in ClassNames PROVE <<w, d>> \in cut' <=> CutBy(stack'[w], d)
      <3>1. CutBy(stack'[w], d) <=> CutBy(stack[w], d)
        BY <1>1, <2>1, <2>7 DEF CutBy, Owns
      <3> QED BY <2>1, <3>1 DEF CutInv
    <2>11. CutInv(w)' /\ OthersCut(w)
      BY <2>1, <2>10 DEF CutInv, OthersCut
    <2> QED BY <2>9, <2>11
  <1>11. ASSUME NEW found \in BOOLEAN, Answers(w, found)
         PROVE  TopInv(w)' /\ CutInv(w)' /\ OthersCut(w)
    <2> DEFINE g == Ends(f, found)
    <2>1. stack'[w][1] = g /\ stack'[w] /= <<>> /\ Put(w, f, cut \ {Id(w, c)})
      BY <1>11 DEF Answers, Moves
    <2>2. found <=> p \in Registered(t)
      <3>1. CASE Ahead(w) = {} /\ found = FALSE
        <4> SUFFICES ASSUME p \in Registered(t) PROVE FALSE
          BY <3>1
        <4>1. PICK j \in 1 .. Len(t) : Whole(t, p, j)
          BY <1>1, <1>5, RegisteredIsWhole
        <4>2. j >= f.at /\ j \in Places(t, p)
          BY <1>3, <4>1 DEF Searched, Whole
        <4>3. j \in Ahead(w)
          BY <1>7, <4>2
        <4> QED BY <3>1, <4>3
      <3>2. CASE Ahead(w) /= {} /\ i + f.len > Len(t) + 1
        <4>1. i + Len(p) <= Len(t) + 1 /\ i \in Nat /\ Len(p) \in Nat /\ Len(t) \in Nat
          BY <1>8, <3>2
        <4> HIDE DEF i, p, t, f
        <4> QED BY <1>3, <3>2, <4>1
      <3>3. CASE Ahead(w) /= {} /\ found = TRUE /\ WholeName(t, f.at, i, i + f.len)
        <4>1. Whole(t, p, i)
          BY <1>3, <1>8, <3>3
        <4>2. p \in Registered(t)
          BY <1>1, <1>5, <4>1, WholeIsRegistered
        <4> QED BY <3>3, <4>2
      <3> QED BY <1>11, <3>1, <3>2, <3>3 DEF Answers
    <2>3. g.op = f.op /\ g.class = c /\ g.pc = "found" /\ g.local = found /\ g.backup = FALSE
      BY <1>1, EndsType
    <2> HIDE DEF g, f, i, t, p, c
    <2>4. FrameRight(g, t, loader[w])
      BY <2>2, <2>3 DEF FrameRight, p, c
    <2>5. TopInv(w)'
      BY <1>2, <2>1, <2>4 DEF TopInv, t
    <2>6. cut' = IF f.backup /\ ~Owns(f) THEN cut \ {<<w, c>>} ELSE cut
      BY <2>1 DEF Put, Id
    <2>7. ASSUME NEW d \in ClassNames PROVE <<w, d>> \in cut' <=> CutBy(stack'[w], d)
      <3>1. ~CutBy(stack'[w], d)
        BY <2>1, <2>3 DEF CutBy
      <3>2. <<w, d>> \in cut <=> c = d /\ f.backup /\ ~Owns(f)
        BY <1>1 DEF CutInv, CutBy, c
      <3>3. <<w, d>> \notin cut'
        BY <2>6, <3>2
      <3> QED BY <3>1, <3>3
    <2>8. CutInv(w)'
      BY <2>7 DEF CutInv
    <2>9. OthersCut(w)
      BY <2>6 DEF OthersCut
    <2> QED BY <2>5, <2>8, <2>9
  <1> QED BY <1>9, <1>10, <1>11, SearchStep

\* autoload() makes its path of the whole name.
LEMMA ComposeRight ==
  ASSUME ~Shared, WorkerInv, NEW w \in Workers, CutInv(w), TopInv(w), Compose(w)
  PROVE  TopInv(w)' /\ CutInv(w)' /\ OthersCut(w)
  <1> DEFINE f == Top(w)
             p == FirstPart(f.class)
             g == Composed(w, f)
  <1>0. In(w, "autoload", "found") /\ cut' = cut /\ ns' = ns /\ loader' = loader
    BY DEF Compose
  <1>1. f \in Sound /\ f.op = "autoload" /\ f.pc = "found" /\ f = stack[w][1] /\ stack[w] /= <<>> /\ loader[w].on
    BY <1>0, Inside DEF In
  <1>2. stack'[w][1] = g /\ stack'[w] /= <<>>
    BY ComposeStep DEF Moves
  <1>3. ~f.backup /\ (f.local <=> p \in Registered(ns[w]))
    BY <1>1 DEF TopInv, FrameRight
  <1>4. ~Ended(w, f)
    BY <1>1, <1>3, NotEnded
  <1>5. Visible(w, f) = Underscored(f.class)
    BY <1>1, <1>4, VisibleUnderscored
  <1>6. WorkerType(w)
    BY DEF WorkerInv
  <1>7. g.op = "autoload" /\ g.class = f.class /\ g.pc = "compile"
    BY <1>1, <1>6, ComposedType
  <1>8. g.path = [dir |-> IF f.local THEN loader[w].library ELSE loader[w].global,
                  name |-> Slashed(Visible(w, f))]
    BY <1>1, <1>6, ComposedType
  <1> HIDE DEF g, f
  <1>9. FrameRight(g, ns[w], loader[w])
    BY <1>3, <1>5, <1>7, <1>8 DEF FrameRight
  <1>10. TopInv(w)'
    BY <1>0, <1>2, <1>9 DEF TopInv
  <1>11. CutInv(w)' /\ OthersCut(w)
    BY <1>0, <1>1, <1>2, <1>7, CutQuiet
  <1> QED BY <1>10, <1>11

LEMMA ActsRight ==
  ASSUME Named, Distinct, WorkerInv, NEW w \in Workers, TextInv(w), CutInv(w), Acts(w)
  PROVE  TopInv(w)' /\ CutInv(w)' /\ TextInv(w)' /\ OthersCut(w) /\ Only(w)
  <1>1. stack' = stack /\ (stack[w] /= <<>> => stack[w][1] \in Quiet) /\ Only(w)
    BY ActsQuiet DEF Safe
  <1>2. cut' = cut
    BY DEF Acts, GetInstance, RegisterLocalNamespace, NewApplication, ClearLocalNamespace,
           SetLibraryPath, Throw, Catch
  <1>3. TopInv(w)'
    BY <1>1, QuietTop
  <1>4. stack[w] /= <<>> => stack[w][1].pc /= "search"
    BY <1>1, QuietIsNoSearch
  <1>5. CutInv(w)' /\ OthersCut(w)
    BY <1>1, <1>2, <1>4, CutQuiet
  <1>6. \/ ns' = ns \/ (\E t \in Words : Registering(w, t)) \/ ns' = [ns EXCEPT ![w] = Null]
    BY DEF Acts, GetInstance, RegisterLocalNamespace, NewApplication, ClearLocalNamespace,
           SetLibraryPath, Throw, Catch
  <1>7. TextInv(w)'
    <2>1. CASE ns' = ns
      BY <2>1 DEF TextInv
    <2>2. CASE \E t \in Words : Registering(w, t)
      BY <2>2, RegisteringText
    <2>3. CASE ns' = [ns EXCEPT ![w] = Null]
      <3>1. ns'[w] = Null
        BY <2>3, UpdatesExcept DEF WorkerInv, Domains
      <3> QED BY <3>1 DEF TextInv
    <2> QED BY <1>6, <2>1, <2>2, <2>3
  <1> QED BY <1>1, <1>3, <1>5, <1>7

\* A call of the loader that begins.
LEMMA CallRight ==
  ASSUME NEW w, stack'[w][1].pc \in {"begin", "compile"}, ~stack'[w][1].backup,
         stack'[w][1].pc = "begin" \/ IsMvc(stack'[w][1].class),
         cut' = cut, CutInv(w), stack[w] /= <<>> => stack[w][1] \in Quiet \cup FileFrame
  PROVE  TopInv(w)' /\ CutInv(w)' /\ OthersCut(w)
  <1>1. FrameRight(stack'[w][1], ns'[w], loader'[w])
    BY DEF FrameRight
  <1>2. TopInv(w)'
    BY <1>1 DEF TopInv
  <1>3. stack[w] /= <<>> => stack[w][1].pc /= "search"
    BY QuietIsNoSearch
  <1>4. CutInv(w)' /\ OthersCut(w)
    BY <1>3, CutQuiet
  <1> QED BY <1>2, <1>4

\* A call that ends, or a file that begins.
LEMMA LeaveRight ==
  ASSUME NEW w, stack'[w] /= <<>> => stack'[w][1] \in Quiet, cut' = cut, CutInv(w),
         stack[w] /= <<>> => stack[w][1].pc /= "search"
  PROVE  TopInv(w)' /\ CutInv(w)' /\ OthersCut(w)
  <1>1. TopInv(w)'
    BY QuietTop
  <1>2. stack'[w] /= <<>> => stack'[w][1].pc /= "search"
    BY QuietIsNoSearch
  <1>3. CutInv(w)' /\ OthersCut(w)
    BY <1>2, CutQuiet
  <1> QED BY <1>1, <1>3

LEMMA FreshRight ==
  ASSUME ~Shared, WorkerInv, NEW w \in Workers, Fresh(w)
  PROVE  TopInv(w)' /\ CutInv(w)' /\ TextInv(w)' /\ OthersCut(w) /\ Only(w)
  <1>1. stack'[w] = <<>> /\ ns'[w] = Null /\ Only(w)
    BY FreshStep DEF Safe
  <1>2. cut' = {x \in cut : x[1] /= w}
    BY DEF Fresh
  <1>3. ASSUME NEW v, NEW c PROVE <<v, c>> \in cut' <=> <<v, c>> \in cut /\ v /= w
    BY <1>2
  <1>4. CutInv(w)'
    <2> SUFFICES ASSUME NEW c \in ClassNames PROVE <<w, c>> \in cut' <=> CutBy(stack'[w], c)
      BY DEF CutInv
    <2>1. <<w, c>> \notin cut'
      BY <1>3
    <2> QED BY <1>1, <2>1 DEF CutBy
  <1>5. OthersCut(w)
    BY <1>3 DEF OthersCut
  <1>6. TopInv(w)' /\ TextInv(w)'
    BY <1>1 DEF TopInv, TextInv
  <1> QED BY <1>1, <1>4, <1>5, <1>6

LEMMA NamesKept ==
  ASSUME ~Shared, Named, Distinct, WorkerInv, NameInv, [Next]_vars
  PROVE  NameInv'
  <1>1. CASE Next
    <2>1. PICK w \in Workers :
            \/ Acts(w) \/ Calls(w) \/ Imports(w) \/ FileEnds(w)
            \/ Begin(w) \/ Search(w) \/ Compose(w) \/ Compile(w) \/ Returns(w) \/ Fresh(w)
      BY <1>1, NextSteps
    <2>2. Domains /\ TopInv(w) /\ CutInv(w) /\ TextInv(w) /\ Stacked(stack[w])
      BY DEF WorkerInv, NameInv, WorkerStack
    <2> SUFFICES Only(w) /\ OthersCut(w) /\ TopInv(w)' /\ CutInv(w)' /\ TextInv(w)'
      BY <2>2, NameStep
    <2>3. ns' = ns => TextInv(w)'
      BY <2>2 DEF TextInv
    <2>4. CASE Acts(w)
      BY <2>2, <2>4, ActsRight
    <2>5. CASE Calls(w)
      <3>1. Only(w) /\ ns' = ns /\ cut' = cut
        BY <2>5, CallSteps DEF Calls, Safe
      <3>2. PICK f \in Sound : /\ f.pc \in {"begin", "compile"} /\ f.backup = FALSE /\ stack'[w][1] = f
                               /\ f.pc = "compile" => IsMvc(f.class)
        BY <2>5, CallSteps DEF Calls
      <3>3. stack[w] = <<>> \/ In(w, "file", "runs")
        BY <2>5 DEF Calls, IsLocalName, Autoload, Php
      <3>4. stack[w] /= <<>> => stack[w][1] \in Quiet \cup FileFrame
        BY <2>2, <3>3, PhpQuiet
      <3>5. /\ stack'[w][1].pc \in {"begin", "compile"} /\ ~stack'[w][1].backup
            /\ stack'[w][1].pc = "begin" \/ IsMvc(stack'[w][1].class)
        BY <3>2
      <3>6. TopInv(w)' /\ CutInv(w)' /\ OthersCut(w)
        BY <2>2, <3>1, <3>4, <3>5, CallRight
      <3> QED BY <2>3, <3>1, <3>6
    <2>6. CASE Imports(w)
      <3>1. /\ Safe(w) /\ ns' = ns /\ cut' = cut /\ (stack'[w] /= <<>> => stack'[w][1] \in Quiet)
            /\ (stack[w] /= <<>> => stack[w][1] \in Quiet)
        BY <2>6, ImportStep DEF Imports, Executes
      <3>2. stack[w] /= <<>> => stack[w][1].pc /= "search"
        BY <3>1, QuietIsNoSearch
      <3> QED BY <2>2, <2>3, <3>1, <3>2, LeaveRight DEF Safe
    <2>7. CASE FileEnds(w)
      <3> DEFINE parent == Disk[RealPath(Top(w).path)].parent
      <3>0. stack[w] /= <<>> /\ stack[w][1] \in FileFrame /\ ns' = ns /\ cut' = cut
        BY <2>7, FileEndsStep DEF Top
      <3>1. CASE Waits(w, Top(w), parent)
        <4> DEFINE a == Asked(w, parent, TRUE)
        <4>1. Only(w) /\ parent \in ClassNames /\ stack'[w][1] = a
          BY <3>1 DEF Waits, Safe
        <4> HIDE DEF parent
        <4>2. a.pc \in {"compile", "begin"} /\ a.backup = FALSE
          BY <4>1, AskedType
        <4>3. a.class = parent
          BY <4>1, AskedType, ZenonT(40)
        <4>4. a.pc = "compile" => IsMvc(parent)
          BY <4>1, AskedType
        <4> HIDE DEF a
        <4>5. /\ stack'[w][1].pc \in {"begin", "compile"} /\ ~stack'[w][1].backup
              /\ stack'[w][1].pc = "begin" \/ IsMvc(stack'[w][1].class)
          BY <4>1, <4>2, <4>3, <4>4
        <4>6. TopInv(w)' /\ CutInv(w)' /\ OthersCut(w)
          BY <2>2, <3>0, <4>5, CallRight
        <4> QED BY <2>3, <3>0, <4>1, <4>6
      <3>2. CASE Safe(w) /\ (stack'[w] /= <<>> => stack'[w][1] \in Quiet)
        <4>1. stack[w] /= <<>> => stack[w][1].pc /= "search"
          BY <3>0, QuietIsNoSearch
        <4> QED BY <2>2, <2>3, <3>0, <3>2, <4>1, LeaveRight DEF Safe
      <3> QED BY <2>7, <3>1, <3>2, FileEndsStep
    <2>8. CASE Begin(w)
      <3>1. Only(w) /\ ns' = ns
        BY <2>8, BeginStep DEF Moves, Begin
      <3> QED BY <2>2, <2>3, <2>8, <3>1, BeginRight
    <2>9. CASE Search(w)
      <3>1. Only(w)
        BY <2>9, SearchStep DEF Crashes, TurnsOn, Answers, Moves
      <3>2. ns' = ns
        BY <2>9 DEF Search
      <3> QED BY <2>2, <2>3, <2>9, <3>1, <3>2, SearchRight
    <2>10. CASE Compose(w)
      <3>1. Only(w) /\ ns' = ns
        BY <2>10, ComposeStep DEF Moves, Compose
      <3> QED BY <2>2, <2>3, <2>10, <3>1, ComposeRight
    <2>11. CASE Compile(w)
      <3>1. Safe(w) /\ ns' = ns /\ cut' = cut /\ (stack'[w] /= <<>> => stack'[w][1] \in Quiet)
        BY <2>11, CompileStep DEF Executes
      <3>2. stack[w][1].pc /= "search"
        BY <2>11 DEF Compile, In, Top
      <3> QED BY <2>2, <2>3, <3>1, <3>2, LeaveRight DEF Safe
    <2>12. CASE Returns(w)
      <3>1. Safe(w) /\ ns' = ns /\ cut' = cut /\ (stack'[w] /= <<>> => stack'[w][1] \in Quiet)
        BY <2>12, ReturnSteps DEF Returns
      <3>2. stack[w][1].pc /= "search"
        <4>1. CASE Unwind(w)
          <5>1. exc[w] /\ stack[w] /= <<>> /\ WorkerStack(w)
            BY <4>1 DEF Unwind, WorkerInv
          <5>2. stack[w][1] \in Quiet
            BY <5>1 DEF WorkerStack
          <5> QED BY <5>2, QuietIsNoSearch
        <4>2. CASE IsLocalNameReturns(w) \/ AutoloadReturns(w)
          BY <4>2 DEF IsLocalNameReturns, AutoloadReturns, In, Top
        <4> QED BY <2>12, <4>1, <4>2 DEF Returns
      <3> QED BY <2>2, <2>3, <3>1, <3>2, LeaveRight DEF Safe
    <2>13. CASE Fresh(w)
      BY <2>13, FreshRight
    <2> QED BY <2>1, <2>4, <2>5, <2>6, <2>7, <2>8, <2>9, <2>10, <2>11, <2>12, <2>13
  <1>2. CASE UNCHANGED vars
    BY <1>2 DEF vars, NameInv, TopInv, CutInv, TextInv
  <1> QED BY <1>1, <1>2

\* When every process has its own copy of the names, class names are as PHP
\* programs have them, and nothing that is registered repeats a first part in a
\* row, a library class is looked for where its name says and isLocalName() says
\* the same: the substring search takes no part of a name for a name, passes over
\* none, and gives the name back whole before yaf_internal_autoload makes the path
\* of it, through any nesting of files that load others.
THEOREM RightLibrary ==
  ASSUME ~Shared, Named, Distinct
  PROVE  Spec => []RightFile
  <1>1. Init => NameInv
    BY DEF Init, NameInv, TopInv, CutInv, TextInv, CutBy
  <1>2. WorkerInv /\ NameInv /\ [Next]_vars => NameInv'
    BY NamesKept
  <1>3. WorkerInv /\ NameInv => RightFile
    <2> SUFFICES ASSUME WorkerInv, NameInv, NEW w \in Workers
                 PROVE  LET f == Top(w)
                            local == FirstPart(f.class) \in Registered(ns[w])
                        IN /\ In(w, "isLocalName", "found") => f.local = local
                           /\ In(w, "autoload", "compile") /\ ~IsMvc(f.class) =>
                                f.path = [dir |-> IF local THEN loader[w].library ELSE loader[w].global,
                                          name |-> Slashed(Underscored(f.class))]
      BY DEF RightFile
    <2> DEFINE f == Top(w)
               local == FirstPart(f.class) \in Registered(ns[w])
    <2>1. stack[w] /= <<>> => FrameRight(f, ns[w], loader[w])
      BY DEF NameInv, TopInv, Top
    <2>2. ASSUME In(w, "isLocalName", "found") PROVE f.local = local
      <3>1. f.op = "isLocalName" /\ f.pc = "found" /\ f \in Sound /\ stack[w] /= <<>>
        BY <2>2, Inside DEF In
      <3>2. f.local \in BOOLEAN
        BY <3>1 DEF Sound, Frame
      <3>3. f.local <=> local
        BY <2>1, <3>1 DEF FrameRight
      <3> QED BY <3>2, <3>3
    <2>3. ASSUME In(w, "autoload", "compile"), ~IsMvc(f.class)
          PROVE  f.path = [dir |-> IF local THEN loader[w].library ELSE loader[w].global,
                           name |-> Slashed(Underscored(f.class))]
      BY <2>1, <2>3 DEF FrameRight, In
    <2> QED BY <2>2, <2>3
  <1> QED BY <1>1, <1>2, <1>3, WorkersAlways, PTL DEF Spec
=============================================================================
