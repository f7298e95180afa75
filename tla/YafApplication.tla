--------------------------- MODULE YafApplication ---------------------------
(***************************************************************************)
(* The life of Yaf_Application objects in one HTTP request after another:  *)
(* the constructor, run(), bootstrap() and the destructor                  *)
(* (yaf_application.c), the singleton Yaf_Dispatcher they share, the two   *)
(* ways an error is reported (yaf_exception.c), and GINIT, RINIT and       *)
(* RSHUTDOWN (yaf.c), with the globals that these calls read.              *)
(*                                                                         *)
(* PHP code may call any of these at any time, also from inside run() (a   *)
(* controller) or from inside bootstrap() (an _init method), so calls nest:*)
(* stack holds the calls that have not returned.  What dispatch itself     *)
(* does is the business of YafDispatcher.  Objects are counted: an object  *)
(* lives while a PHP variable, Yaf_Application::$_app or a call refers to  *)
(* it.                                                                     *)
(***************************************************************************)
EXTENDS Naturals, Sequences

CONSTANTS
  Objects,   \* the objects new Yaf_Application may make in one request
  Options,   \* configurations: [valid, throwException, bootstrap, directory]
  Script,    \* what a bootstrap file holds, by its path; that of a directory
             \* is the path of its Bootstrap.php
  Directories, \* application.directory
  Inits,     \* number of _init methods of the class Bootstrap
  Null,
  MaxDepth   \* bound on calls inside calls

Contents == {"missing", "noclass", "impostor", "bootstrap"}

ASSUME ApplicationAssumption ==
  /\ Inits \in Nat \ {0} /\ MaxDepth \in Nat
  /\ Null \notin Objects \cup DOMAIN Script
  /\ Directories \subseteq DOMAIN Script
  /\ Script \in [DOMAIN Script -> Contents]
  /\ \A o \in Options : /\ o.valid \in BOOLEAN
                        /\ o.throwException \in {"on", "off", "unset"}
                        /\ o.bootstrap \in DOMAIN Script \cup {Null}
                        /\ o.directory \in Directories

VARIABLES
  mode,        \* "ended" between two requests, "start" until PHP code runs, "on",
               \* "dead" after a fatal error, "crashed"
  current,     \* Yaf_Application::$_app
  app,         \* the state of each object
  dispatcher,  \* whether Yaf_Dispatcher::$_instance is set
  options,     \* YAF_G(throw_exception), YAF_G(bootstrap), YAF_G(directory)
  class,       \* the class "bootstrap" of the class table
  handler,     \* PHP code has an error handler, which returns
  exc,         \* an exception is pending
  stack,       \* calls of run() and bootstrap() that have not returned
  hist         \* history of this request: the paths it has named, and whether
               \* it has switched exceptions off

vars == <<mode, current, app, dispatcher, options, class, handler, exc, stack, hist>>

globals == <<options, hist>>

\* An object is unborn, whole, hollow (its constructor returned FALSE) or gone.
Unborn == [state |-> "unborn", held |-> FALSE, running |-> FALSE, runs |-> 0, errno |-> FALSE]

\* PHP_GINIT: the globals of a new worker are all zero.
NoOptions == [throwException |-> FALSE, bootstrap |-> Null, directory |-> Null]

NoHistory == [paths |-> {}, silenced |-> FALSE]

-----------------------------------------------------------------------------
(* Objects and calls *)

InCall(s, a) == \E i \in DOMAIN s : s[i].app = a

Whole(a) == app[a].state = "whole"
Exists(a) == app[a].state \in {"whole", "hollow"}

\* PHP code runs: in the script, in a controller or in an _init method.
Running == mode \in {"start", "on"} /\ ~exc

\* PHP code reaches an object through a variable or Yaf_Application::app().
Reaches(a) == Exists(a) /\ (app[a].held \/ current = a)

Gone(A) == [a \in Objects |-> IF a \in A THEN [app[a] EXCEPT !.state = "gone", !.held = FALSE] ELSE app[a]]

\* The last reference to an object goes away: __destruct clears $_app, whoever
\* it refers to, and so may end the life of another object.
Destroy(a, s) ==
  LET next == IF current \notin {Null, a} /\ ~app[current].held /\ ~InCall(s, current)
              THEN {current} ELSE {}
  IN app' = Gone({a} \cup next) /\ current' = Null

Release(a, s) ==
  IF current /= a /\ ~InCall(s, a) THEN Destroy(a, s)
  ELSE app' = [app EXCEPT ![a].held = FALSE] /\ UNCHANGED current

Drop(a) ==
  /\ Running
  /\ Exists(a) /\ app[a].held
  /\ mode' = "on"
  /\ Release(a, stack)
  /\ UNCHANGED <<dispatcher, globals, class, handler, exc, stack>>

\* A call returns, normally or by its exception.
PopFrame ==
  LET a == stack[1].app
      s == Tail(stack)
  IN /\ stack' = s
     /\ IF app[a].held \/ current = a \/ InCall(s, a) THEN UNCHANGED <<app, current>>
        ELSE Destroy(a, s)

Unwind ==
  /\ mode = "on" /\ exc /\ stack /= <<>>
  /\ PopFrame
  /\ UNCHANGED <<mode, dispatcher, globals, class, handler, exc>>

Catch ==
  /\ mode = "on" /\ exc
  /\ exc' = FALSE
  /\ UNCHANGED <<mode, current, app, dispatcher, globals, class, handler, stack>>

Throw ==
  /\ Running /\ stack /= <<>>
  /\ exc' = TRUE
  /\ UNCHANGED <<mode, current, app, dispatcher, globals, class, handler, stack>>

\* yaf_trigger_error: an exception, or an error number in the current
\* application (which must exist) and E_RECOVERABLE_ERROR, fatal unless PHP
\* code handles it.  to is what app becomes when the caller goes on.
TriggerError(throws, thrown, to) ==
  /\ UNCHANGED <<current, class, handler, stack>>
  /\ IF throws THEN mode' = "on" /\ exc' = TRUE /\ app' = thrown
     ELSE /\ UNCHANGED exc
          /\ IF current = Null THEN mode' = "crashed" /\ UNCHANGED app
             ELSE /\ mode' = IF handler THEN "on" ELSE "dead"
                  /\ app' = [to EXCEPT ![current].errno = TRUE]

-----------------------------------------------------------------------------
(* The constructor *)

\* yaf_application_parse_option of a configuration that has a directory:
\* options that are not set keep what an earlier object left there.
ParseOption(o) ==
  [throwException |-> IF o.throwException = "unset" THEN options.throwException
                      ELSE o.throwException = "on",
   bootstrap |-> IF o.bootstrap = Null THEN options.bootstrap ELSE o.bootstrap,
   directory |-> o.directory]

Parse(o) ==
  /\ options' = ParseOption(o)
  /\ hist' = [paths |-> hist.paths \cup ({o.directory, o.bootstrap} \ {Null}),
              silenced |-> hist.silenced \/ o.throwException = "off"]

\* The constructor fails: after an exception the engine frees the object
\* without its destructor, otherwise PHP code has a hollow object.
ConstructFails(a, throws) ==
  TriggerError(throws, [app EXCEPT ![a].state = "gone"],
                       [app EXCEPT ![a].state = "hollow", ![a].held = TRUE])

\* Mutant: an existing dispatcher is taken over, as a reader would expect.
DispatcherMissingNever == FALSE

\* yaf_dispatcher_instance leaves the caller's zval undefined when the
\* singleton exists already, and the constructor looks at that zval.
DispatcherMissing == dispatcher

\* Mutant: the configuration is read before the check for an application.
CheckLate(a, o) ==
  /\ current /= Null
  /\ IF o.valid THEN Parse(o) ELSE UNCHANGED globals
  /\ UNCHANGED dispatcher
  /\ ConstructFails(a, options.throwException)

OnlyOne(a, o) ==
  /\ current /= Null
  /\ UNCHANGED <<globals, dispatcher>>
  /\ ConstructFails(a, options.throwException)

\* Mutant: $_app is set before the configuration is read.
ConfigFailsPublished(a, o) ==
  /\ current = Null /\ ~o.valid /\ options.throwException
  /\ current' = a /\ exc' = TRUE /\ mode' = "on"
  /\ app' = [app EXCEPT ![a].state = "gone"]
  /\ UNCHANGED <<globals, dispatcher, class, handler, stack>>

ConfigFails(a, o) ==
  /\ current = Null /\ ~o.valid
  /\ UNCHANGED <<globals, dispatcher>>
  /\ ConstructFails(a, options.throwException)

DispatcherFails(a, o) ==
  /\ current = Null /\ o.valid /\ DispatcherMissing
  /\ Parse(o)
  /\ UNCHANGED dispatcher
  /\ ConstructFails(a, options'.throwException)

\* $_app is set last, when everything else is in place.
Built(a, o) ==
  /\ current = Null /\ o.valid /\ ~DispatcherMissing
  /\ Parse(o)
  /\ dispatcher' = TRUE
  /\ app' = [app EXCEPT ![a].state = "whole", ![a].held = TRUE]
  /\ current' = a
  /\ mode' = "on"
  /\ UNCHANGED <<class, handler, exc, stack>>

Construct(a, o) ==
  /\ Running
  /\ app[a].state = "unborn"
  /\ OnlyOne(a, o) \/ ConfigFails(a, o) \/ DispatcherFails(a, o) \/ Built(a, o)

-----------------------------------------------------------------------------
(* run and bootstrap *)

Push(op, a) == stack' = <<[op |-> op, app |-> a, next |-> 1]>> \o stack

\* Mutant: the flag is set when dispatch has returned.
SetRunningLate(a) == [app EXCEPT ![a].runs = @ + 1]

\* The flag is set before dispatch, so that a controller cannot run() again.
SetRunning(a) == [app EXCEPT ![a].running = TRUE, ![a].runs = @ + 1]

\* run() of a hollow object calls dispatch on a null zval.
Run(a) ==
  /\ Running
  /\ Reaches(a)
  /\ Len(stack) < MaxDepth
  /\ UNCHANGED <<dispatcher, globals>>
  /\ IF app[a].running THEN TriggerError(options.throwException, app, app)
     ELSE /\ UNCHANGED <<current, class, handler, exc>>
          /\ IF Whole(a) THEN mode' = "on" /\ app' = SetRunning(a) /\ Push("run", a)
             ELSE mode' = "crashed" /\ UNCHANGED <<app, stack>>

RunReturns ==
  /\ Running
  /\ stack /= <<>> /\ stack[1].op = "run"
  /\ PopFrame
  /\ UNCHANGED <<mode, dispatcher, globals, class, handler, exc>>

\* The configured file, or Bootstrap.php in the application's directory.
BootstrapFile == IF options.bootstrap = Null THEN options.directory ELSE options.bootstrap

\* The file is only loaded, and its class only examined, when no class
\* Bootstrap exists.  Without a directory its path is made from a null string.
Bootstrap(a) ==
  /\ Running
  /\ Reaches(a)
  /\ Len(stack) < MaxDepth
  /\ mode' = IF class = Null /\ BootstrapFile = Null THEN "crashed" ELSE "on"
  /\ IF class /= Null THEN Push("bootstrap", a) /\ UNCHANGED class
     ELSE IF BootstrapFile = Null THEN UNCHANGED <<class, stack>>
     ELSE LET s == Script[BootstrapFile] IN
          /\ class' = IF s \in {"bootstrap", "impostor"} THEN s ELSE Null
          /\ IF s = "bootstrap" THEN Push("bootstrap", a) ELSE UNCHANGED stack
  /\ UNCHANGED <<current, app, dispatcher, globals, handler, exc>>

LastInit == stack[1].next = Inits

\* An _init method returns and the next one is called, or bootstrap() returns.
InitReturns ==
  /\ Running
  /\ stack /= <<>> /\ stack[1].op = "bootstrap"
  /\ IF LastInit THEN PopFrame
     ELSE stack' = [stack EXCEPT ![1].next = @ + 1] /\ UNCHANGED <<app, current>>
  /\ UNCHANGED <<mode, dispatcher, globals, class, handler, exc>>

-----------------------------------------------------------------------------
(* The dispatcher's part, and the request *)

GetInstance ==
  /\ Running /\ ~dispatcher
  /\ mode' = "on"
  /\ dispatcher' = TRUE
  /\ UNCHANGED <<current, app, globals, class, handler, exc, stack>>

\* Yaf_Dispatcher::throwException
ThrowException(b) ==
  /\ Running /\ dispatcher
  /\ options' = [options EXCEPT !.throwException = b]
  /\ hist' = [hist EXCEPT !.silenced = @ \/ ~b]
  /\ UNCHANGED <<mode, current, app, dispatcher, class, handler, exc, stack>>

\* The directory that is there is released without a look at it.
SetAppDirectory(a, d) ==
  /\ Running /\ Reaches(a)
  /\ IF options.directory = Null THEN mode' = "crashed" /\ UNCHANGED globals
     ELSE /\ mode' = "on"
          /\ options' = [options EXCEPT !.directory = d]
          /\ hist' = [hist EXCEPT !.paths = @ \cup {d}]
  /\ UNCHANGED <<current, app, dispatcher, class, handler, exc, stack>>

ClearLastError(a) ==
  /\ Running /\ Reaches(a)
  /\ app' = [app EXCEPT ![a].errno = FALSE]
  /\ UNCHANGED <<mode, current, dispatcher, globals, class, handler, exc, stack>>

\* Mutant: YAF_G(bootstrap) survives the HTTP request.
RshutdownPartial == [options EXCEPT !.directory = Null]

\* PHP_RSHUTDOWN releases what the configuration has set, and leaves
\* throw_exception as it is.
Rshutdown == [options EXCEPT !.bootstrap = Null, !.directory = Null]

\* PHP_RINIT sets what has a default.
Rinit == [options EXCEPT !.throwException = TRUE]

\* A worker has been started, and has had no request.
Init ==
  /\ mode = "ended"
  /\ current = Null
  /\ app = [a \in Objects |-> Unborn]
  /\ dispatcher = FALSE
  /\ options = NoOptions
  /\ class = Null
  /\ handler = FALSE
  /\ exc = FALSE
  /\ stack = <<>>
  /\ hist = NoHistory

\* The script ends, by itself, by exit() in any call or by an error.  The engine
\* destroys its objects, classes and static members, yaf releases its globals.
EndRequest ==
  /\ mode \in {"on", "dead"}
  /\ mode' = "ended"
  /\ options' = Rshutdown
  /\ current' = Null /\ dispatcher' = FALSE /\ class' = Null
  /\ app' = [a \in Objects |-> Unborn]
  /\ handler' = FALSE
  /\ exc' = FALSE /\ stack' = <<>>
  /\ hist' = NoHistory

\* The worker takes the next request.
BeginRequest ==
  /\ mode = "ended"
  /\ mode' = "start"
  /\ options' = Rinit
  /\ handler' \in BOOLEAN
  /\ UNCHANGED <<current, app, dispatcher, class, exc, stack, hist>>

Next ==
  \/ \E a \in Objects : \/ \E o \in Options : Construct(a, o)
                        \/ \E d \in Directories : SetAppDirectory(a, d)
                        \/ Drop(a) \/ Run(a) \/ Bootstrap(a) \/ ClearLastError(a)
  \/ RunReturns \/ InitReturns \/ Throw \/ Unwind \/ Catch
  \/ GetInstance \/ \E b \in BOOLEAN : ThrowException(b)
  \/ EndRequest \/ BeginRequest

Spec == Init /\ [][Next]_vars

-----------------------------------------------------------------------------
(* Properties *)

\* Every variable has its type.
TypeOK ==
  /\ mode \in {"ended", "start", "on", "dead", "crashed"}
  /\ current \in Objects \cup {Null}
  /\ app \in [Objects -> [state : {"unborn", "whole", "hollow", "gone"}, held : BOOLEAN,
                          running : BOOLEAN, runs : Nat, errno : BOOLEAN]]
  /\ dispatcher \in BOOLEAN /\ handler \in BOOLEAN /\ exc \in BOOLEAN
  /\ options \in [throwException : BOOLEAN, bootstrap : DOMAIN Script \cup {Null},
                  directory : Directories \cup {Null}]
  /\ hist \in [paths : SUBSET DOMAIN Script, silenced : BOOLEAN]
  /\ class \in Contents \cup {Null}
  /\ stack \in Seq([op : {"run", "bootstrap"}, app : Objects, next : 1 .. Inits])

\* Yaf_Application::app() never returns an object whose constructor did not
\* finish or whose life is over, although __destruct of any object clears it
\* and constructors fail half-way.
CurrentIsWhole == current /= Null => Whole(current)

\* One HTTP request never has two applications, although __destruct of a
\* hollow object clears $_app under the application that lives: after that
\* the constructor stumbles over the dispatcher that exists already.
OneApplication == \A a, b \in Objects : Whole(a) /\ Whole(b) => a = b

\* An application is dispatched at most once, also when a controller or an
\* _init method calls run(), or after dispatch threw.
RunOnce == \A a \in Objects : app[a].runs <= 1

\* What a request does depends on no earlier one of its worker, and on no
\* constructor that failed: errors are thrown unless this request has switched
\* that off, and wherever PHP code can call bootstrap(), on a hollow object
\* too, the file it loads is one this request has named, never a null string.
RequestsApart ==
  /\ mode \in {"start", "on"} /\ ~options.throwException => hist.silenced
  /\ \A a \in Objects : Exists(a) => BootstrapFile \in hist.paths

\* A constructor that fails does not touch the configuration of the
\* application that is current.
OptionsOfCurrent ==
  [][current /= Null /\ current' = current => options'.bootstrap = options.bootstrap]_vars

\* The constructor's comment: every class of the framework is instantiated
\* when it returns.  It fails with a valid configuration, and without another
\* application, when Yaf_Dispatcher::getInstance() came first.
ConstructorCompletes ==
  [][\A a \in Objects, o \in Options :
       current = Null /\ o.valid /\ Construct(a, o) => current' = a]_vars

=============================================================================
