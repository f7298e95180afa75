------------------------------ MODULE YafCycle ------------------------------
(***************************************************************************)
(* What Yaf_Dispatcher::dispatch() promises its caller, whatever plugins,  *)
(* routes, controllers and templates do.  A dispatch routes its request    *)
(* (unless it was routed before) and then serves it in rounds, of which    *)
(* there is a most.  It ends with a response only after a round, and       *)
(* otherwise with null, at any moment.  Before it gives up it may call the *)
(* error controller to the rescue, once in an HTTP request, and then never *)
(* returns to serving.  YafDispatcher implements this specification.       *)
(***************************************************************************)
EXTENDS Naturals

CONSTANT MaxRounds   \* a natural number above 0

VARIABLES
  phase,    \* "idle", "routing", "serving", "rescuing" or "dead"
  rounds,   \* the rounds of this dispatch
  spent,    \* the error controller has been called in this HTTP request
  answer    \* "none", "response" or "null"

vars == <<phase, rounds, spent, answer>>

Init == phase = "idle" /\ rounds = 0 /\ spent = FALSE /\ answer = "none"

Begin ==
  /\ phase = "idle"
  /\ phase' \in {"routing", "serving"}
  /\ rounds' = 0 /\ answer' = "none"
  /\ UNCHANGED spent

Routed ==
  /\ phase = "routing"
  /\ phase' = "serving"
  /\ UNCHANGED <<rounds, spent, answer>>

Round ==
  /\ phase = "serving" /\ rounds < MaxRounds
  /\ rounds' = rounds + 1
  /\ UNCHANGED <<phase, spent, answer>>

Complete ==
  /\ phase = "serving" /\ rounds >= 1
  /\ phase' = "idle" /\ answer' = "response"
  /\ UNCHANGED <<rounds, spent>>

GiveUp ==
  /\ phase \in {"routing", "serving", "rescuing"}
  /\ phase' = "idle" /\ answer' = "null"
  /\ UNCHANGED <<rounds, spent>>

Rescue ==
  /\ phase \in {"routing", "serving"} /\ ~spent
  /\ phase' = "rescuing" /\ spent' = TRUE
  /\ UNCHANGED <<rounds, answer>>

\* The caller has dealt with the answer.
Taken ==
  /\ phase = "idle"
  /\ answer' = "none"
  /\ UNCHANGED <<phase, rounds, spent>>

\* exit() or a fatal error.
Die ==
  /\ phase \notin {"idle", "dead"}
  /\ phase' = "dead"
  /\ UNCHANGED <<rounds, spent, answer>>

NextRequest ==
  /\ phase \in {"idle", "dead"}
  /\ phase' = "idle" /\ rounds' = 0 /\ spent' = FALSE /\ answer' = "none"

Next ==
  \/ Begin \/ Routed \/ Round \/ Complete \/ GiveUp \/ Rescue
  \/ Taken \/ Die \/ NextRequest

Spec == Init /\ [][Next]_vars

=============================================================================
