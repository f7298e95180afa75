----------------------------- MODULE YafLoader -----------------------------
(***************************************************************************)
(* Yaf_Loader (yaf_loader.c): which file a class is loaded from, and the   *)
(* files that load others while they are loaded.                           *)
(*                                                                         *)
(* Whether a class is looked for in the local or in the global library is  *)
(* found by a substring search in one string of all local namespaces.  The *)
(* search ends the class name after its first part by writing a NUL into   *)
(* it, and puts the character back afterwards.  The name is not a copy: it *)
(* is the string PHP code has, and with opcache a literal of a script lies *)
(* in memory that all workers share (php-7.1.3/ext/opcache/zend_persist.c, *)
(* line 289).  So the workers of a server are processes of this module.    *)
(*                                                                         *)
(* Names are sequences of tokens, a token being a piece of a word or a     *)
(* separator; case is left out.  The INI settings are yaf.name_suffix = 1, *)
(* yaf.name_separator = "" and yaf.use_spl_autoload = 0, the defaults but  *)
(* for the last, which changes the warnings and what autoload() answers.   *)
(***************************************************************************)
EXTENDS Naturals, Sequences, FiniteSetsExt

CONSTANTS
  Workers,
  Shared,        \* whether names lie in memory that all workers share
  Classes,       \* class names PHP code asks for
  Words,         \* what PHP code and configurations register: texts, ":" between names
  Disk,          \* the files: path -> [class, parent]
  Dirs,          \* directories, in the spellings PHP code uses
  Real,          \* realpath() of each
  AppLibrary,    \* the library directory of the application
  GlobalLibrary, \* yaf.library, or Null
  Null,
  MaxText,       \* bound on the length of the local namespaces
  MaxDepth       \* bound on the calls that have not returned

MvcDir == [t \in {"Model", "Plugin", "Controller"} |->
             CASE t = "Model" -> "models" [] t = "Plugin" -> "plugins"
               [] t = "Controller" -> "controllers"]

ASSUME LoaderAssumption ==
  /\ Shared \in BOOLEAN /\ MaxText \in Nat /\ MaxDepth \in Nat
  /\ Null \notin Classes \cup Dirs
  /\ AppLibrary \in Dirs /\ GlobalLibrary \in Dirs \cup {Null}
  /\ Dirs \cap {MvcDir[t] : t \in DOMAIN MvcDir} = {}

VARIABLES
  loader,    \* Yaf_Loader::$_instance: [on, library, global, app]
  ns,        \* YAF_G(local_namespaces), or Null
  cut,       \* the names that end after their first part at the moment
  classes,   \* the class table
  included,  \* EG(included_files)
  stack,     \* the calls that have not returned, the innermost first
  exc,       \* an exception is pending
  mode,      \* "on", "fatal" or "crashed"
  ran        \* history: the files that were executed

vars == <<loader, ns, cut, classes, included, stack, exc, mode, ran>>

-----------------------------------------------------------------------------
(* Texts *)

\* Pieces of words, and the separators.
Underscore == "_"
Backslash == "\\"
Colon == ":"
Token == STRING \cup {Underscore, Backslash, "/", Colon}
Text == Seq(Token)

\* What ends the first part of a class name.
Separator == {Underscore, Backslash}

\* strstr for one character: the first place of a token of S, or 0.
First(t, S) == LET at == {i \in DOMAIN t : t[i] \in S} IN IF at = {} THEN 0 ELSE Min(at)

\* The places from which p can be read in t.
Places(t, p) == {i \in 1 .. Len(t) + 1 : /\ i + Len(p) <= Len(t) + 1
                                         /\ SubSeq(t, i, i + Len(p) - 1) = p}

\* yaf_loader_is_category, and the file name that is left without the suffix.
IsMvc(c) == Len(c) > 1 /\ c[Len(c)] \in DOMAIN MvcDir
MvcName(c) == SubSeq(c, 1, Len(c) - 1)

\* autoload() replaces every "\" in a copy of the name.
Copied(c) == First(c, {Backslash}) > 0
Underscored(c) == [i \in DOMAIN c |-> IF c[i] = Backslash THEN Underscore ELSE c[i]]

\* yaf_internal_autoload makes a directory of each part; the first character
\* is passed over before the scan begins.
Slashed(t) == [i \in DOMAIN t |-> IF i > 1 /\ t[i] = Underscore THEN "/" ELSE t[i]]

\* What the names mean, for the properties: the names that are registered and
\* the part of a class name that decides.
NameAt(t, i, j) ==
  /\ i < j /\ \A k \in i .. j - 1 : t[k] /= Colon
  /\ i = 1 \/ t[i - 1] = Colon
  /\ j = Len(t) + 1 \/ t[j] = Colon
Registered(t) ==
  IF t = Null THEN {}
  ELSE UNION {{SubSeq(t, i, j - 1) : j \in {j \in 1 .. Len(t) + 1 : NameAt(t, i, j)}} : i \in 1 .. Len(t)}
FirstPart(c) == LET i == First(c, Separator) IN IF i = 0 THEN c ELSE SubSeq(c, 1, i - 1)

-----------------------------------------------------------------------------
(* Calls.  op is "autoload", "isLocalName" or "file", the execution of one.  *)
(* at, len, backup and local are the locals of yaf_loader_is_local_namespace;*)
(* engine: the class was asked for by the engine, which guards recursion;    *)
(* late: the class of the file waits for its parent; turns (of the search)   *)
(* and again (the file was executed before) are history.                     *)

Path == [dir : Dirs \cup {MvcDir[t] : t \in DOMAIN MvcDir}, name : Text]

NoPath == [dir |-> Null, name |-> <<>>]

\* Those that PHP code asks for, and those in the files.
ClassNames ==
  Classes \cup (UNION {{Disk[p].class, Disk[p].parent} : p \in DOMAIN Disk} \ {Null})

\* A null pointer is not a text.
ASSUME TextAssumption ==
  /\ ClassNames \subseteq Text \ {<<>>} /\ Words \subseteq Text
  /\ Null \notin Text
  /\ DOMAIN Disk \subseteq Path /\ Real \in [Dirs -> Dirs]
  /\ \A p \in DOMAIN Disk :
       Disk[p] \in [class : ClassNames \cup {Null}, parent : ClassNames \cup {Null}]

Call(op, c, engine, pc) ==
  [op |-> op, class |-> c, engine |-> engine, pc |-> pc, at |-> 1, len |-> 0,
   backup |-> FALSE, local |-> FALSE, turns |-> 0, path |-> NoPath, late |-> FALSE,
   via |-> Null, again |-> FALSE]

RealPath(p) == IF p.dir \in DOMAIN Real THEN [p EXCEPT !.dir = Real[p.dir]] ELSE p

Exists(p) == RealPath(p) \in DOMAIN Disk

Top(w) == stack[w][1]
In(w, op, pc) == stack[w] /= <<>> /\ Top(w).op = op /\ Top(w).pc = pc
C(w) == mode[w] = "on" /\ ~exc[w]   \* no exception makes the C code return

\* PHP code runs: the script, or a file that is being loaded.
Php(w) == C(w) /\ (stack[w] = <<>> \/ In(w, "file", "runs"))

Push(w, f) == stack' = [stack EXCEPT ![w] = <<f>> \o @]
Pop(w) == stack' = [stack EXCEPT ![w] = Tail(@)]
Change(w, f) == stack' = [stack EXCEPT ![w] = <<f>> \o Tail(@)]
CanCall(w) == Len(stack[w]) + 2 <= MaxDepth

-----------------------------------------------------------------------------
(* The instance and the namespaces *)

\* yaf_loader_instance.
Instance(w, l, g, app) ==
  LET was == loader[w]
      Or(x, y) == IF x /= Null THEN x ELSE y
      now == IF was.on THEN [was EXCEPT !.library = Or(l, @), !.global = Or(g, @)]
             ELSE IF l = Null /\ g = Null THEN was
             ELSE [was EXCEPT !.on = TRUE, !.library = Or(l, g), !.global = Or(g, l)]
  IN loader' = [loader EXCEPT ![w] = [now EXCEPT !.app = @ \/ app]]

GetInstance(w, l, g) ==
  /\ Php(w)
  /\ Instance(w, l, g, FALSE)
  /\ UNCHANGED <<ns, cut, classes, included, stack, exc, mode, ran>>

\* yaf_loader_register_namespace_single.
Registering(w, t) ==
  LET text == IF ns[w] = Null THEN t ELSE ns[w] \o <<Colon>> \o t
  IN Len(text) <= MaxText /\ ns' = [ns EXCEPT ![w] = text]

RegisterLocalNamespace(w, t) ==
  /\ Php(w) /\ loader[w].on
  /\ Registering(w, t)
  /\ UNCHANGED <<loader, cut, classes, included, stack, exc, mode, ran>>

\* The constructor of Yaf_Application reads its configuration, then makes or
\* changes the loader.
NewApplication(w, t) ==
  /\ Php(w) /\ ~loader[w].app
  /\ IF t = Null THEN UNCHANGED ns ELSE Registering(w, t)
  /\ Instance(w, AppLibrary, GlobalLibrary, TRUE)
  /\ UNCHANGED <<cut, classes, included, stack, exc, mode, ran>>

\* zend_string_release(NULL) when there are none.
ClearLocalNamespace(w) ==
  /\ Php(w) /\ loader[w].on
  /\ ns' = [ns EXCEPT ![w] = Null]
  /\ mode' = [mode EXCEPT ![w] = IF ns[w] = Null THEN "crashed" ELSE @]
  /\ UNCHANGED <<loader, cut, classes, included, stack, exc, ran>>

SetLibraryPath(w, d, global) ==
  /\ Php(w) /\ loader[w].on
  /\ loader' = [loader EXCEPT ![w] = IF global THEN [@ EXCEPT !.global = d]
                                               ELSE [@ EXCEPT !.library = d]]
  /\ UNCHANGED <<ns, cut, classes, included, stack, exc, mode, ran>>

-----------------------------------------------------------------------------
(* yaf_loader_is_local_namespace *)

\* The name as a C string: what is in front of the first NUL.
Name(f) == IF f.op = "autoload" /\ Copied(f.class) THEN Underscored(f.class) ELSE f.class
CutAt(f) == LET i == First(Name(f), {Underscore}) IN IF i > 0 THEN i ELSE First(Name(f), {Backslash})
Owns(f) == f.op = "autoload" /\ Copied(f.class)
Id(w, c) == IF Shared THEN <<c>> ELSE <<w, c>>
Ended(w, f) == IF Owns(f) THEN f.backup ELSE Id(w, f.class) \in cut
Visible(w, f) == IF Ended(w, f) THEN SubSeq(Name(f), 1, CutAt(f) - 1) ELSE Name(f)

Put(w, f, S) == cut' = IF f.backup /\ ~Owns(f) THEN S ELSE cut

\* The first part of the name becomes the prefix, in place.
SearchBegins(w, f) ==
  LET i == First(Visible(w, f), Separator)
      g == [f EXCEPT !.at = 1, !.pc = "search", !.backup = i > 0,
                     !.len = IF i > 0 THEN CutAt(f) - 1 ELSE Len(Name(f))]
  IN IF ns[w] = Null THEN Change(w, [f EXCEPT !.pc = "found", !.local = FALSE]) /\ UNCHANGED cut
     ELSE Change(w, g) /\ Put(w, g, cut \cup {Id(w, f.class)})

Begin(w) ==
  /\ C(w) /\ (In(w, "autoload", "begin") \/ In(w, "isLocalName", "begin"))
  /\ SearchBegins(w, Top(w))
  /\ UNCHANGED <<loader, ns, classes, included, exc, mode, ran>>

\* Mutant: the character is not put back when the namespace is found.
RestoredUnlessFound(w, f, found) == IF found THEN cut ELSE cut \ {Id(w, f.class)}

Restored(w, f, found) == cut \ {Id(w, f.class)}

SearchEndsWith(w, f, found) ==
  /\ Put(w, f, Restored(w, f, found))
  /\ Change(w, [f EXCEPT !.pc = "found", !.local = found, !.backup = FALSE, !.turns = 0])

\* The prefix at i is a name of the list.
WholeName(t, at, i, after) ==
  /\ i = at \/ (i > 1 /\ t[i - 1] = Colon)
  /\ after = Len(t) + 1 \/ t[after] = Colon

\* Mutant: the search goes on where it found the prefix.
NextPlace(i, len) == i

PlaceAfter(i, len) == i + len

\* One turn of the loop.  A length that belongs to another state of the name
\* leads past the end of the list, to bytes that may be anything.
Search(w) ==
  LET f == Top(w)
      places == {i \in Places(ns[w], Visible(w, f)) : i >= f.at}
      i == Min(places)
      after == i + f.len
  IN /\ C(w) /\ (In(w, "autoload", "search") \/ In(w, "isLocalName", "search"))
     /\ \/ places = {} /\ SearchEndsWith(w, f, FALSE) /\ UNCHANGED mode
        \/ /\ places /= {} /\ after <= Len(ns[w]) + 1
           /\ IF WholeName(ns[w], f.at, i, after) THEN SearchEndsWith(w, f, TRUE)
              ELSE Change(w, [f EXCEPT !.at = PlaceAfter(i, f.len), !.turns = @ + 1]) /\ UNCHANGED cut
           /\ UNCHANGED mode
        \/ /\ places /= {} /\ after > Len(ns[w]) + 1
           /\ \/ \E found \in BOOLEAN : SearchEndsWith(w, f, found) /\ UNCHANGED mode
              \/ mode' = [mode EXCEPT ![w] = "crashed"] /\ UNCHANGED <<stack, cut>>
     /\ UNCHANGED <<loader, ns, classes, included, exc, ran>>

IsLocalName(w, c) ==
  /\ Php(w) /\ loader[w].on /\ CanCall(w)
  /\ Push(w, Call("isLocalName", c, FALSE, "begin"))
  /\ UNCHANGED <<loader, ns, cut, classes, included, exc, mode, ran>>

IsLocalNameReturns(w) ==
  /\ C(w) /\ In(w, "isLocalName", "found")
  /\ Pop(w)
  /\ UNCHANGED <<loader, ns, cut, classes, included, exc, mode, ran>>

-----------------------------------------------------------------------------
(* Files *)

\* Mutant: the file is not recorded.
NotRecorded(w, p) == included[w]

Recorded(w, p) == included[w] \cup {RealPath(p)}

\* yaf_loader_import: the file is compiled, which declares a class whose parent
\* is known, recorded, and executed.
Execute(w, p, via, below) ==
  LET f == Disk[RealPath(p)]
      early == f.class /= Null /\ (f.parent = Null \/ f.parent \in classes[w])
      clash == early /\ f.class \in classes[w]
      frame == [Call("file", f.class, FALSE, "runs") EXCEPT
                  !.path = p, !.via = via, !.late = f.class /= Null /\ ~early,
                  !.again = RealPath(p) \in ran[w]]
  IN /\ classes' = [classes EXCEPT ![w] = IF early THEN @ \cup {f.class} ELSE @]
     /\ mode' = [mode EXCEPT ![w] = IF clash THEN "fatal" ELSE @]
     /\ included' = [included EXCEPT ![w] = IF clash THEN @ ELSE Recorded(w, p)]
     /\ ran' = [ran EXCEPT ![w] = IF clash THEN @ ELSE @ \cup {RealPath(p)}]
     /\ stack' = [stack EXCEPT ![w] = IF clash THEN below ELSE <<frame>> \o below]

\* Yaf_Loader::import looks for the path as it was given, a relative one in the
\* local library.
Import(w, d, name) ==
  LET p == [dir |-> IF d = Null THEN loader[w].library ELSE d, name |-> name]
  IN /\ Php(w) /\ CanCall(w)
     /\ d = Null => loader[w].on
     /\ p \notin included[w] /\ Exists(p)
     /\ Execute(w, p, "import", stack[w])
     /\ UNCHANGED <<loader, ns, cut, exc>>

\* The engine asks for a class once at a time and only while there is none.
Guarded(w, c) ==
  /\ c \notin classes[w]
  /\ \A i \in DOMAIN stack[w] :
       ~(stack[w][i].op = "autoload" /\ stack[w][i].engine /\ stack[w][i].class = c)

\* autoload(): an MVC class comes from the application's directory.
Asked(w, c, engine) ==
  IF IsMvc(c)
  THEN [Call("autoload", c, engine, "compile") EXCEPT
          !.path = [dir |-> MvcDir[c[Len(c)]], name |-> Slashed(Underscored(MvcName(c)))]]
  ELSE Call("autoload", c, engine, "begin")

Autoload(w, c, engine) ==
  /\ Php(w) /\ loader[w].on /\ CanCall(w)
  /\ IsMvc(c) => loader[w].app
  /\ engine => Guarded(w, c)
  /\ Push(w, Asked(w, c, engine))
  /\ UNCHANGED <<loader, ns, cut, classes, included, exc, mode, ran>>

\* yaf_internal_autoload reads the directory, and the name once more.
Compose(w) ==
  /\ C(w) /\ In(w, "autoload", "found")
  /\ Change(w, [Top(w) EXCEPT
                  !.pc = "compile",
                  !.path = [dir |-> IF Top(w).local THEN loader[w].library ELSE loader[w].global,
                            name |-> Slashed(Visible(w, Top(w)))]])
  /\ UNCHANGED <<loader, ns, cut, classes, included, exc, mode, ran>>

\* A file that is not there makes a warning.
Compile(w) ==
  /\ C(w) /\ In(w, "autoload", "compile")
  /\ IF Exists(Top(w).path)
     THEN Execute(w, Top(w).path, "autoload", <<[Top(w) EXCEPT !.pc = "done"]>> \o Tail(stack[w]))
     ELSE Pop(w) /\ UNCHANGED <<classes, mode, included, ran>>
  /\ UNCHANGED <<loader, ns, cut, exc>>

AutoloadReturns(w) ==
  /\ C(w) /\ In(w, "autoload", "done")
  /\ Pop(w)
  /\ UNCHANGED <<loader, ns, cut, classes, included, exc, mode, ran>>

\* The class that waits for its parent is declared: the engine asks for the
\* parent, and an Error is thrown without it.
FileEnds(w) ==
  LET f == Top(w)
      parent == Disk[RealPath(f.path)].parent
      asks == f.pc = "runs" /\ parent \notin classes[w] /\ Guarded(w, parent)
              /\ loader[w].on /\ (IsMvc(parent) => loader[w].app)
  IN /\ C(w) /\ (In(w, "file", "runs") \/ In(w, "file", "extends"))
     /\ IF ~f.late THEN Pop(w) /\ UNCHANGED <<classes, mode, exc>>
        ELSE IF asks
        THEN /\ Len(stack[w]) + 2 <= MaxDepth
             /\ stack' = [stack EXCEPT ![w] =
                           <<Asked(w, parent, TRUE)>> \o <<[f EXCEPT !.pc = "extends"]>> \o Tail(@)]
             /\ UNCHANGED <<classes, mode, exc>>
        ELSE /\ Pop(w)
             /\ exc' = [exc EXCEPT ![w] = parent \notin classes[w]]
             /\ mode' = [mode EXCEPT ![w] =
                          IF parent \in classes[w] /\ f.class \in classes[w] THEN "fatal" ELSE @]
             /\ classes' = [classes EXCEPT ![w] = IF parent \in @ THEN @ \cup {f.class} ELSE @]
     /\ UNCHANGED <<loader, ns, cut, included, ran>>

Throw(w) ==
  /\ C(w) /\ In(w, "file", "runs")
  /\ exc' = [exc EXCEPT ![w] = TRUE]
  /\ UNCHANGED <<loader, ns, cut, classes, included, stack, mode, ran>>

Unwind(w) ==
  /\ mode[w] = "on" /\ exc[w] /\ stack[w] /= <<>>
  /\ Pop(w)
  /\ UNCHANGED <<loader, ns, cut, classes, included, exc, mode, ran>>

Catch(w) ==
  /\ mode[w] = "on" /\ exc[w] /\ (stack[w] = <<>> \/ In(w, "file", "runs"))
  /\ exc' = [exc EXCEPT ![w] = FALSE]
  /\ UNCHANGED <<loader, ns, cut, classes, included, stack, mode, ran>>

-----------------------------------------------------------------------------
(* Requests and workers *)

NoLoader == [on |-> FALSE, library |-> Null, global |-> Null, app |-> FALSE]

\* RSHUTDOWN and the engine forget everything but shared memory.
Fresh(w) ==
  /\ loader' = [loader EXCEPT ![w] = NoLoader]
  /\ ns' = [ns EXCEPT ![w] = Null]
  /\ cut' = IF Shared THEN cut ELSE {x \in cut : x[1] /= w}
  /\ classes' = [classes EXCEPT ![w] = {}]
  /\ included' = [included EXCEPT ![w] = {}]
  /\ stack' = [stack EXCEPT ![w] = <<>>]
  /\ exc' = [exc EXCEPT ![w] = FALSE]
  /\ mode' = [mode EXCEPT ![w] = "on"]
  /\ ran' = [ran EXCEPT ![w] = {}]

EndRequest(w) ==
  /\ mode[w] = "fatal" \/ (mode[w] = "on" /\ stack[w] = <<>>)
  /\ Fresh(w)

\* A worker is killed, also by its own crash, and replaced.
Killed(w) == Fresh(w)

Init ==
  /\ loader = [w \in Workers |-> NoLoader]
  /\ ns = [w \in Workers |-> Null]
  /\ cut = {}
  /\ classes = [w \in Workers |-> {}]
  /\ included = [w \in Workers |-> {}]
  /\ stack = [w \in Workers |-> <<>>]
  /\ exc = [w \in Workers |-> FALSE]
  /\ mode = [w \in Workers |-> "on"]
  /\ ran = [w \in Workers |-> {}]

PhpStep(w) ==
  \/ \E l, g \in Dirs \cup {Null} : GetInstance(w, l, g)
  \/ \E t \in Words : RegisterLocalNamespace(w, t)
  \/ \E t \in Words \cup {Null} : NewApplication(w, t)
  \/ ClearLocalNamespace(w)
  \/ \E d \in Dirs, global \in BOOLEAN : SetLibraryPath(w, d, global)
  \/ \E c \in Classes : IsLocalName(w, c)
  \/ \E c \in Classes, engine \in BOOLEAN : Autoload(w, c, engine)
  \/ \E d \in Dirs \cup {Null}, p \in DOMAIN Disk : Import(w, d, p.name)
  \/ FileEnds(w) \/ Throw(w) \/ Catch(w)

LoaderStep(w) ==
  \/ Begin(w) \/ Search(w) \/ IsLocalNameReturns(w)
  \/ Compose(w) \/ Compile(w) \/ AutoloadReturns(w) \/ Unwind(w)

Next == \E w \in Workers : PhpStep(w) \/ LoaderStep(w) \/ EndRequest(w) \/ Killed(w)

Spec == Init /\ [][Next]_vars

-----------------------------------------------------------------------------
(* Properties *)

Frame == [op : {"autoload", "isLocalName", "file"}, class : ClassNames \cup {Null}, engine : BOOLEAN,
          pc : {"begin", "search", "found", "compile", "done", "runs", "extends"},
          at : 1 .. MaxText + 1, len : Nat, backup : BOOLEAN, local : BOOLEAN,
          turns : Nat, path : Path \cup {NoPath}, late : BOOLEAN, via : {"import", "autoload", Null},
          again : BOOLEAN]

\* The variables have their types; in particular the search never leaves the
\* text of the namespaces, and a loader that exists has both its directories.
TypeOK ==
  /\ loader \in [Workers -> [on : BOOLEAN, library : Dirs \cup {Null},
                             global : Dirs \cup {Null}, app : BOOLEAN]]
  /\ \A w \in Workers : loader[w].on <=> loader[w].library /= Null /\ loader[w].global /= Null
  /\ ns \in [Workers -> Text \cup {Null}]
  /\ classes \in [Workers -> SUBSET ClassNames]
  /\ included \in [Workers -> SUBSET DOMAIN Disk] /\ ran \in [Workers -> SUBSET DOMAIN Disk]
  /\ stack \in [Workers -> Seq(Frame)]
  /\ exc \in [Workers -> BOOLEAN]
  /\ mode \in [Workers -> {"on", "fatal", "crashed"}]

\* A library class is looked for where its name says: in the local library if
\* its first part is one of the names that are registered now, in the global one
\* otherwise, in a file with all of its parts; and isLocalName() says the same.
\* The search finds parts of names and the boundaries of others on its way, and
\* writes into the very name that the path is made of afterwards.
RightFile ==
  \A w \in Workers :
    LET f == Top(w)
        local == FirstPart(f.class) \in Registered(ns[w])
    IN /\ In(w, "isLocalName", "found") => f.local = local
       /\ In(w, "autoload", "compile") /\ ~IsMvc(f.class) =>
            f.path = [dir |-> IF local THEN loader[w].library ELSE loader[w].global,
                      name |-> Slashed(Underscored(f.class))]

\* import() never executes a file that was executed before, by import() or by
\* autoload(), also when it is called by that file while it is being executed.
ImportOnce ==
  \A w \in Workers : \A i \in DOMAIN stack[w] :
    stack[w][i].via = "import" => ~stack[w][i].again

\* The search takes at most one turn for each token of the namespaces, and one to
\* find that there is nothing more: it ends, and with it the call.
SearchBounded ==
  \A w \in Workers : In(w, "autoload", "search") \/ In(w, "isLocalName", "search") =>
                       Top(w).turns <= Len(ns[w]) + 1

=============================================================================
